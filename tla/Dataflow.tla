------------------------------ MODULE Dataflow ------------------------------
(***************************************************************************)
(* One call of wvx-runtime's run_project: the order of the instances is    *)
(* worked out by Kahn's algorithm, then every instance runs once, reading  *)
(* the values its suppliers left on their output ports.                    *)
(*                                                                         *)
(* The validator's search for cycles and the compiler's order.rs are the   *)
(* same loop as the runtime's topo_order; validate_project runs it first   *)
(* on the same document, so it is modelled once and its failure is the     *)
(* report of an invalid project.                                           *)
(***************************************************************************)
EXTENDS ProjectGraph, Sequences

CONSTANT Documents  \* the documents the runtime is called with

ASSUME DocumentsAssumption ==
  /\ Documents \subseteq Project
  /\ \A p \in Documents : IsFiniteSet(Instances(p)) /\ IsFiniteSet(p.bindings)

VARIABLES
  project,   \* the document, which no step changes
  pc,        \* where the call is
  indegree,  \* bindings into an instance whose source is not yet placed
  listed,    \* topo_order's `order`, followed by its `queue`
  placed,    \* how many of `listed` are in `order`
  pos,       \* the place in the order of the instance that runs next
  value,     \* port_values: where the value on a port comes from
  fate,      \* what became of every instance
  got        \* the value an instance found for each of its inputs

sortVars == <<indegree, listed, placed>>
runVars == <<pos, value, fate, got>>
vars == <<project, pc, sortVars, runVars>>

Ended == {"invalid", "done", "missing_handler", "missing_input", "component"}

\* "seed" was passed by the caller, "made" was returned by a handler.
Values == {"none", "seed", "made"}
Nodes == Instances(project)
Contracts(n) == ContractOf(project, n)
OutputPaths(n) == {path \in PortPath : path.instance = n /\ path.port \in Contracts(n).outputs}

-----------------------------------------------------------------------------
(* topo_order *)

\* Bindings of an instance to itself do not count.
Edges == {b \in project.bindings : /\ b.from.instance # b.to.instance
                                   /\ b.from.instance \in Nodes
                                   /\ b.to.instance \in Nodes}
Into(n) == {b \in Edges : b.to.instance = n}
Between(m, n) == {b \in Into(n) : b.from.instance = m}

\* The rising sequence of a set of ids.
Sorted(S) ==
  {s \in [1 .. Cardinality(S) -> S] :
     /\ {s[k] : k \in DOMAIN s} = S
     /\ \A j, k \in DOMAIN s : j < k => s[j] < s[k]}

\* Mutants: parallel bindings counted once; each target queued at
\* every decrement; breadth-first, as soon as the first supplier is placed.
ReleasedByOne(m) == {n \in Nodes : Between(m, n) # {} /\ indegree[n] = 1}
ReleasedAtEachDecrement(m) == {n \in Nodes : Between(m, n) # {}}
ReleasedBreadthFirst(m) ==
  {n \in Nodes : Between(m, n) # {} /\ indegree[n] = Cardinality(Into(n))}

\* The instances whose count the loop over the targets of `m` brings to zero.
Released(m) ==
  {n \in Nodes : /\ Between(m, n) # {}
                 /\ indegree[n] = Cardinality(Between(m, n))}

Init ==
  /\ project \in Documents
  /\ pc = "validate"
  /\ indegree = [n \in Nodes |-> 0]
  /\ listed = <<>>
  /\ placed = 0
  /\ pos = 1
  /\ value = [path \in PortPath |-> "none"]
  /\ fate = [n \in Nodes |-> "todo"]
  /\ got = [n \in Nodes |-> [port \in Port |-> "none"]]

Invalid ==
  /\ pc = "validate"
  /\ ~PassesOk(project)
  /\ pc' = "invalid"
  /\ UNCHANGED <<project, sortVars, runVars>>

\* Mutant: counts suppliers instead of bindings.
StartSortBySupplier ==
  /\ pc = "validate"
  /\ PassesOk(project)
  /\ pc' = "sort"
  /\ indegree' = [n \in Nodes |-> Cardinality({b.from.instance : b \in Into(n)})]
  /\ listed' \in Sorted({n \in Nodes : Into(n) = {}})
  /\ UNCHANGED <<project, placed, runVars>>

\* The counts, and the queue of the instances that nothing feeds.
StartSort ==
  /\ pc = "validate"
  /\ PassesOk(project)
  /\ pc' = "sort"
  /\ indegree' = [n \in Nodes |-> Cardinality(Into(n))]
  /\ listed' \in Sorted({n \in Nodes : Into(n) = {}})
  /\ UNCHANGED <<project, placed, runVars>>

\* Pops the front of the queue, and queues the instances it releases.
Place ==
  /\ pc = "sort"
  /\ placed < Len(listed)
  /\ LET m == listed[placed + 1] IN
       /\ indegree' = [n \in Nodes |-> indegree[n] - Cardinality(Between(m, n))]
       /\ \E nexts \in Sorted(Released(m)) : listed' = listed \o nexts
  /\ placed' = placed + 1
  /\ UNCHANGED <<project, pc, runVars>>

Cyclic ==
  /\ pc = "sort"
  /\ placed = Len(listed)
  /\ placed # Cardinality(Nodes)
  /\ pc' = "invalid"
  /\ UNCHANGED <<project, sortVars, runVars>>

\* The order is complete; the caller's entry values are put on the ports.
\* Only values on output ports are ever read.
StartRun ==
  /\ pc = "sort"
  /\ placed = Len(listed)
  /\ placed = Cardinality(Nodes)
  /\ pc' = "run"
  /\ \E seeds \in SUBSET UNION {OutputPaths(n) : n \in Nodes} :
       value' = [path \in PortPath |-> IF path \in seeds THEN "seed" ELSE "none"]
  /\ UNCHANGED <<project, sortVars, pos, fate, got>>

-----------------------------------------------------------------------------
(* run_project's loop over the order *)

Current == listed[pos]
Running == pc = "run" /\ pos <= Len(listed)

HasSeed(n) == \E path \in OutputPaths(n) : value[path] # "none"

\* Mutant: one seeded output will do.
PartlySeeded(n) == Contracts(n).inputs = {} /\ HasSeed(n)

FullySeeded(n) ==
  /\ Contracts(n).outputs # {}
  /\ Contracts(n).inputs = {}
  /\ \A path \in OutputPaths(n) : value[path] # "none"

\* What the binding that ends at an input port brings.
Found(n, port) ==
  IF Producers(project, n, port) = {} THEN "none"
  ELSE value[(CHOOSE b \in Producers(project, n, port) : TRUE).from]
Lacking(n) == {port \in Contracts(n).required : Found(n, port) = "none"}

\* The instance is over with and the loop goes on.
Pass(outcome) ==
  /\ fate' = [fate EXCEPT ![Current] = outcome]
  /\ pos' = pos + 1
  /\ UNCHANGED <<project, pc, sortVars>>

\* The call returns an error; the values made so far are dropped with it, but
\* not what the handlers that ran have done.
Abort(error) ==
  /\ pc' = error
  /\ UNCHANGED <<project, sortVars, pos, value>>

UseSeeds ==
  /\ Running
  /\ FullySeeded(Current)
  /\ Pass("seeded")
  /\ UNCHANGED <<value, got>>

\* No handler is registered for the capability and the implementation chosen.
NoHandler ==
  /\ Running
  /\ ~FullySeeded(Current)
  /\ IF HasSeed(Current)
       THEN Pass("skipped") /\ UNCHANGED <<value, got>>
       ELSE Abort("missing_handler") /\ UNCHANGED <<fate, got>>

MissingInput ==
  /\ Running
  /\ ~FullySeeded(Current)
  /\ Lacking(Current) # {}
  /\ Abort("missing_input")
  /\ UNCHANGED <<fate, got>>

ReadInputs ==
  /\ Running
  /\ ~FullySeeded(Current)
  /\ Lacking(Current) = {}
  /\ got' = [got EXCEPT ![Current] =
               [port \in Port |-> IF port \in Contracts(Current).inputs
                                    THEN Found(Current, port) ELSE "none"]]

\* A handler may return fewer ports than its contract has: nothing checks.
Execute ==
  /\ ReadInputs
  /\ \E outputs \in SUBSET OutputPaths(Current) :
       value' = [path \in PortPath |-> IF path \in outputs THEN "made" ELSE value[path]]
  /\ Pass("executed")

ComponentFails ==
  /\ ReadInputs
  /\ fate' = [fate EXCEPT ![Current] = "failed"]
  /\ Abort("component")

Finish ==
  /\ pc = "run"
  /\ pos > Len(listed)
  /\ pc' = "done"
  /\ UNCHANGED <<project, sortVars, runVars>>

\* The call is over: nothing is stuck short of a result or an error.
Returned == pc \in Ended /\ UNCHANGED vars

Next ==
  \/ Invalid \/ StartSort \/ Place \/ Cyclic \/ StartRun
  \/ UseSeeds \/ NoHandler \/ MissingInput \/ Execute \/ ComponentFails \/ Finish
  \/ Returned

Spec == Init /\ [][Next]_vars

-----------------------------------------------------------------------------
(* Properties *)

Ordered == pc \in {"run", "done", "missing_handler", "missing_input", "component"}

TypeOK ==
  /\ project \in Project
  /\ pc \in {"validate", "sort", "run"} \cup Ended
  /\ indegree \in [Nodes -> Nat]
  /\ listed \in Seq(Nodes)
  /\ placed \in 0 .. Len(listed)
  /\ pos \in 1 .. Len(listed) + 1
  /\ value \in [PortPath -> Values]
  /\ fate \in [Nodes -> {"todo", "seeded", "skipped", "executed", "failed"}]
  /\ got \in [Nodes -> [Port -> Values]]

\* topo_order fails on the documents with a cycle of two or more instances and
\* on no other, however many bindings join the same two instances.
CyclesAreExact ==
  /\ Ordered => ~ \E S \in SUBSET Nodes : Tangled(project, S)
  /\ pc = "invalid" => ~PassesOk(project) \/ \E S \in SUBSET Nodes : Tangled(project, S)

\* What the comment on topo_order says: no order where there is a cycle, be it
\* of one instance.
OrderOnlyIfAcyclic ==
  Ordered => ~ \E S \in SUBSET Nodes :
                 S # {} /\ \A n \in S : \E m \in S : Feeds(project, m, n)

\* No instance is placed, and so none runs, twice.
EachOnce == \A j, k \in DOMAIN listed : listed[j] = listed[k] => j = k

\* The value an instance read is still the value on the port it read it from,
\* whatever has run since: the final values are those of one consistent pass
\* over the graph. An instance that reads its own output is not covered.
ReadsAreFinal ==
  \A b \in Edges :
    fate[b.to.instance] = "executed" => got[b.to.instance][b.to.port] = value[b.from]

\* A valid document lacks an input only because the supplier was skipped or
\* returned less than its contract, or because the instance feeds itself.
MissingInputIsExplained ==
  pc = "missing_input" =>
    \E b \in project.bindings :
      /\ b.to.instance = Current
      /\ b.to.port \in Contracts(Current).required
      /\ value[b.from] = "none"
      /\ \/ b.from.instance = Current
         \/ fate[b.from.instance] \in {"skipped", "executed"}
=============================================================================
