-------------------------------- MODULE Emit --------------------------------
(***************************************************************************)
(* The code wvx-compiler-rust generates for a document: one `let` for each *)
(* instance, in the order the sort found, and the entry points             *)
(* run_pipeline, which the binary calls with bytes, and run_pipeline_read, *)
(* which it calls with a file.  The program is compared with the graph.    *)
(*                                                                         *)
(* A variable of the program is the name rust_var makes of an instance and *)
(* a port, which may be the same for two of them ("a-b" and "a_b").        *)
(***************************************************************************)
EXTENDS Dataflow

CONSTANTS
  IoInput, IoOutput,  \* io.input.bytes@1 and io.output.bytes@1
  Bytes,              \* their port
  JsonPort,           \* the output name `value`
  Templated,          \* pairs of capability and setting emit_call renders
  Streamable,         \* pairs that have a stream_read_call
  Renderings          \* the names rust_var may give to the output ports

ASSUME EmitAssumption ==
  /\ {IoInput, IoOutput} \subseteq Capability
  /\ Signature[IoInput] = [inputs |-> {}, required |-> {}, outputs |-> {Bytes}]
  /\ Signature[IoOutput] = [inputs |-> {Bytes}, required |-> {Bytes}, outputs |-> {}]
  /\ Streamable \subseteq Templated
  /\ Templated \subseteq Capability \X Setting
  \* What streams is a transform of bytes into bytes.
  /\ \A s \in Streamable : \E port, made \in Port :
       Signature[s[1]] = [inputs |-> {port}, required |-> {port}, outputs |-> {made}]
  /\ \A names \in Renderings : DOMAIN names = PortPath

CapabilityOf(p, i) == p.instances[i].capability
Emitter(p, i) == <<CapabilityOf(p, i), p.instances[i].setting>>

\* is_passthrough_io: the adapters the compiler writes itself.
IsPassthrough(p, i) == CapabilityOf(p, i) \in {IoInput, IoOutput}
IsSink(p, i) == CapabilityOf(p, i) = IoOutput

\* The paths an instance reads and writes in the program: every input of the
\* contract, be it required or not.
Reads(p, i) == {path \in PortPath : path.instance = i /\ path.port \in ContractOf(p, i).inputs}
Writes(p, i) == {path \in PortPath : path.instance = i /\ path.port \in ContractOf(p, i).outputs}

Feeding(p, path) == {b \in p.bindings : b.to = path}
Source(p, path) == (CHOOSE b \in Feeding(p, path) : TRUE).from

\* Mutant: the variables of an instance are entered one round too late.
AssignedLate(p, order, k) == UNION {Writes(p, order[j]) : j \in 1 .. k - 2}

\* port_vars when the k-th instance is emitted.
Assigned(p, order, k) == UNION {Writes(p, order[j]) : j \in 1 .. k - 1}

\* Every input of the k-th instance has a binding, from a port that already
\* has a variable.
Wired(p, order, k) ==
  \A path \in Reads(p, order[k]) :
    Feeding(p, path) # {} /\ Source(p, path) \in Assigned(p, order, k)

\* An SDK template for the implementation, whose settings are there.
HasTemplate(p, i) == Emitter(p, i) \in Templated
\* A call that reads a file instead of bytes.
StreamRead(p, i) == Emitter(p, i) \in Streamable

\* emit_call finds a template for the implementation and fills it in.
Rendered(p, i) == IsPassthrough(p, i) \/ HasTemplate(p, i)

HasSink(p) == \E i \in Instances(p) : IsSink(p, i)

\* Without a sink the last variable for a port `value` is serialised.
JsonVars(p, order) ==
  {path \in Assigned(p, order, Len(order) + 1) :
     path.port = JsonPort /\ ~IsPassthrough(p, path.instance)}

\* emit::pipeline returns a program and not an error.
Emits(p, order) ==
  /\ \A k \in DOMAIN order : Wired(p, order, k) /\ Rendered(p, order[k])
  /\ HasSink(p) \/ JsonVars(p, order) # {}

-----------------------------------------------------------------------------
(* What the program computes *)

\* Mutant: the variable is named for the port alone.
VariableOfPort(names, path) ==
  names[[path EXCEPT !.instance = CHOOSE i \in Id : \A j \in Id : i <= j]]
Variable(names, path) == names[path]

\* What a variable holds before the k-th statement: the port that was last
\* assigned to it, for a later `let` shadows an earlier one.
Holds(p, order, names, v, k) ==
  {path \in Assigned(p, order, k) :
     /\ Variable(names, path) = v
     /\ \A j \in 1 .. k - 1 : \A later \in Writes(p, order[j]) :
          Variable(names, later) = v =>
            \E i \in 1 .. k - 1 : order[i] = path.instance /\ j <= i}

\* The statement at which the value is used: sinks are read after the last.
UsedAt(p, order, k) == IF IsSink(p, order[k]) THEN Len(order) + 1 ELSE k

\* Every input gets the value on the port its binding starts from.
Computes(p, order, names) ==
  \A k \in DOMAIN order : \A path \in Reads(p, order[k]) :
    Holds(p, order, names, Variable(names, Source(p, path)), UsedAt(p, order, k))
      = {Source(p, path)}

\* Two ports of the document get one variable.
Collides(p, names) ==
  \E q, r \in UNION {Writes(p, i) : i \in Instances(p)} : q # r /\ names[q] = names[r]

Transforms(p) == {i \in Instances(p) : ~IsPassthrough(p, i)}

\* Mutant: one transform of a longer pipeline will do.
StreamsAlong(p, i) == i \in Transforms(p) /\ StreamRead(p, i)

\* linear_stream_call: the graph has one transform, and that one can read a file.
StreamsThrough(p, i) == Transforms(p) = {i} /\ StreamRead(p, i)
Streams(p) == \E i \in Instances(p) : StreamsThrough(p, i)

\* The sink that comes first in the order.
IsFirstSink(p, order, k) ==
  /\ k \in DOMAIN order
  /\ IsSink(p, order[k])
  /\ \A j \in 1 .. k - 1 : ~IsSink(p, order[j])
FirstSink(p, order) == order[CHOOSE k \in DOMAIN order : IsFirstSink(p, order, k)]

\* What the entry points return, as the port the bytes come from: the first
\* sink's, or that of the transform when it is run on the file directly.
Primary(p, order) == Source(p, [instance |-> FirstSink(p, order), port |-> Bytes])
IsOfInput(p, path) == CapabilityOf(p, path.instance) = IoInput
Buffered(p, order) == Primary(p, order)
Streamed(p, order) ==
  IF Streams(p)
    THEN CHOOSE path \in PortPath : StreamsThrough(p, path.instance)
                                   /\ path \in Writes(p, path.instance)
    ELSE Buffered(p, order)

-----------------------------------------------------------------------------
(* Properties *)

\* The compiler runs on the document and order that run_project starts with.
AtCompile == pc = "run" /\ pos = 1

\* In the program every call gets the values the graph says, whatever order
\* the sort chose and whatever is written in between, unless rust_var names
\* two ports alike: then a `let` may shadow a value that is still to be read.
ExportComputesTheGraph ==
  AtCompile /\ Emits(project, listed) =>
    \A names \in Renderings :
      ~Collides(project, names) => Computes(project, listed, names)

\* The binary gives the same answer for a file as for bytes: streaming skips
\* only the io nodes. The exception is a graph whose first sink takes the
\* input as it is, past the transform: then the two differ.
StreamedIsBuffered ==
  AtCompile /\ Emits(project, listed) /\ HasSink(project) =>
    \/ Streamed(project, listed) = Buffered(project, listed)
    \/ Streams(project) /\ IsOfInput(project, Primary(project, listed))

\* A document the validator accepts and the runtime orders has no program
\* only because an input that may stay unbound is, because an instance feeds
\* itself, because there is no template, or because there is nothing to return.
EmitFailureIsExplained ==
  AtCompile /\ ~Emits(project, listed) =>
    \/ \E i \in Nodes : \E port \in Contracts(i).inputs \ Contracts(i).required :
         Producers(project, i, port) = {}
    \/ \E i \in Nodes : Feeds(project, i, i)
    \/ \E i \in Nodes : ~Rendered(project, i)
    \/ \A i \in Nodes : ~IsSink(project, i)
=============================================================================
