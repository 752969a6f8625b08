---------------------------- MODULE ProjectGraph ----------------------------
(***************************************************************************)
(* The project document of wvx-ir and the checks wvx-validator makes of it. *)
(*                                                                         *)
(* A capability contract is its port names; the types of ports and the id, *)
(* name and metadata of a document are left out. The implementation and    *)
(* the config of an instance are one value, its setting.                   *)
(***************************************************************************)
EXTENDS Integers, FiniteSets

CONSTANTS
  Id,          \* instance ids, as integers in the order of their strings
  Capability,  \* capability references, `id@version`
  Port,        \* port ids; an input and an output may share one
  Signature,   \* the contract of every capability
  Setting,     \* what an instance selects and is configured with
  Accepted,    \* the pairs of capability and setting that pass_config accepts
  NoInstance   \* the entrypoint of a document that has none

Contract == {c \in [inputs : SUBSET Port, required : SUBSET Port,
                    outputs : SUBSET Port] : c.required \subseteq c.inputs}

ASSUME GraphAssumption ==
  /\ Id \subseteq Int
  /\ Signature \in [Capability -> Contract]
  /\ Accepted \subseteq Capability \X Setting
  /\ NoInstance \notin Id

PortPath == [instance : Id, port : Port]
Binding == [from : PortPath, to : PortPath]

Instance == [capability : Capability, setting : Setting]

\* `instances` maps the ids in use to the instances, and `capabilities` are the
\* contracts the document carries.
Project == [instances    : UNION {[S -> Instance] : S \in SUBSET Id},
            capabilities : SUBSET Capability,
            bindings     : SUBSET Binding,
            entrypoint   : Id \cup {NoInstance}]

Instances(p) == DOMAIN p.instances
ContractOf(p, i) == Signature[p.instances[i].capability]

IsOutput(p, path) == /\ path.instance \in Instances(p)
                     /\ path.port \in ContractOf(p, path.instance).outputs
IsInput(p, path) == /\ path.instance \in Instances(p)
                    /\ path.port \in ContractOf(p, path.instance).inputs

CapabilitiesKnown(p) == \A i \in Instances(p) : p.instances[i].capability \in p.capabilities
EntrypointExists(p) == p.entrypoint \in Instances(p) \cup {NoInstance}
BindingsRunOutToIn(p) == \A b \in p.bindings : IsOutput(p, b.from) /\ IsInput(p, b.to)

\* The bindings that end at an input port, of which there may be one at most
\* and, if the port is required, exactly one.
Producers(p, i, port) ==
  {b \in p.bindings : b.to.instance = i /\ b.to.port = port}
OneProducer(p) ==
  \A i \in Instances(p) : \A port \in ContractOf(p, i).inputs :
    \A b, c \in Producers(p, i, port) : b = c
RequiredBound(p) ==
  \A i \in Instances(p) : \A port \in ContractOf(p, i).required :
    Producers(p, i, port) # {}

ConfigOk(p) ==
  \A i \in Instances(p) : <<p.instances[i].capability, p.instances[i].setting>> \in Accepted

\* Every pass but the search for cycles, which Dataflow models step by step.
PassesOk(p) ==
  /\ CapabilitiesKnown(p)
  /\ EntrypointExists(p)
  /\ BindingsRunOutToIn(p)
  /\ OneProducer(p)
  /\ RequiredBound(p)
  /\ ConfigOk(p)

\* A set of instances each of which another of them feeds: a cycle, without
\* saying in which order it goes round. An instance that feeds itself is none.
Feeds(p, m, n) == \E b \in p.bindings : b.from.instance = m /\ b.to.instance = n
Tangled(p, S) == S # {} /\ \A n \in S : \E m \in S : m # n /\ Feeds(p, m, n)

\* What validate_project accepts; Dataflow shows that its search for cycles
\* finds just the tangles.
Valid(p) == PassesOk(p) /\ ~ \E S \in SUBSET Instances(p) : Tangled(p, S)
=============================================================================
