------------------------------ MODULE Handlers ------------------------------
(***************************************************************************)
(* The handlers a process can run: the process-wide table of plugins       *)
(* (crates/wvx-component-sdk), the registry that is built from it for      *)
(* every command (crates/wvx-runtime), and what a handler does with its    *)
(* ports.  The table is filled by whoever registers first, and the first   *)
(* of a capability is its default.                                         *)
(*                                                                         *)
(* An implementation is a number, in the order of the ids.  What the code  *)
(* of some computes is the function `behaves`, from implementations and    *)
(* payloads to results; the others are Nominal.                            *)
(***************************************************************************)
EXTENDS Naturals, Sequences, SequencesExt, TLC

CONSTANTS
  Nil,
  ext,       \* the parser of wvx-adapter-external-demo
  Pilot,     \* the pilot's plugins, a sequence of handlers
  Nominal    \* what every implementation computes unless it is given in `behaves`

Handler(impl, cap) == [impl |-> impl, cap |-> cap]

Ports(in, of, out, config) == [in |-> in, of |-> of, out |-> out, config |-> config]
BytesTo(out) == Ports("bytes", "bytes", out, {})

\* The ports a handler of a capability reads and writes.
Shape ==
  [cap \in {"parse", "serialize", "path_set", "hash", "pair", "encode", "decode"} |->
     CASE cap = "parse" -> BytesTo({"value"})
       [] cap = "serialize" -> Ports("value", "json", {"bytes"}, {})
       [] cap = "path_set" -> Ports("value", "json", {"value"}, {"path", "value"})
       [] cap = "hash" -> BytesTo({"digest"})
       [] cap = "pair" -> BytesTo({"digest", "hex"})
       [] OTHER -> BytesTo({"bytes"})]

Failure(family, says) == [ok |-> FALSE, family |-> family, says |-> says]
Success(ports, out) == [ok |-> TRUE, ports |-> ports, out |-> out]
Answer(out) == [ok |-> TRUE, out |-> out]

BadPort == Failure("port", {})
NoHandler == Failure("handler", {})

\* One call of a handler: the port must be there, of its type, and the config
\* must have what is required of it.
Execute(behaves, impl, cap, port, type, payload, config) ==
  LET shape == Shape[cap] IN
  IF shape.in # port \/ shape.of # type \/ ~ shape.config \subseteq config THEN BadPort
  ELSE LET result == (IF impl \in DOMAIN behaves THEN behaves ELSE Nominal)[impl][payload] IN
       IF result.ok THEN Success(shape.out, result.out) ELSE result

-----------------------------------------------------------------------------
(* The registry of handlers *)

Empty == [by |-> <<>>, defaults |-> <<>>]

Register(reg, h, asDefault) ==
  [by |-> (h.impl :> h.cap) @@ reg.by,
   defaults |-> IF asDefault \/ h.cap \notin DOMAIN reg.defaults
                THEN (h.cap :> h.impl) @@ reg.defaults ELSE reg.defaults]

IoHandlers == <<Handler(20, "input"), Handler(21, "output")>>
WithPilot == FoldLeft(LAMBDA reg, h : Register(reg, h, TRUE), Empty, IoHandlers)

\* A registry of one's own for every command: i/o and then the plugins.
Installed(plugins) ==
  FoldLeft(LAMBDA reg, h : Register(reg, h, FALSE), WithPilot, plugins)

\* The implementation that runs for a capability, Nil when there is none: without
\* a default it is looked for under the name of the capability.
Resolve(reg, cap, impl) ==
  LET id == IF impl # Nil THEN impl
            ELSE IF cap \in DOMAIN reg.defaults THEN reg.defaults[cap] ELSE Nil
  IN IF id \in DOMAIN reg.by /\ reg.by[id] = cap THEN id ELSE Nil

-----------------------------------------------------------------------------
(* Who fills the table *)

\* main() of the command line, of the MCP server and of the Loom server registers
\* the external parser before anything else; every command that needs handlers
\* registers the pilot's, the default of a capability first.  Each does it once
\* per process, so the table is who registered, in order.
Registers(who, table) ==
  IF \E i \in DOMAIN table : table[i] = who THEN table ELSE Append(table, who)

Plugins(who) == IF who = "pilot" THEN Pilot ELSE <<Handler(ext, "parse")>>

\* The registry a command builds from the table.
Tables == {<<>>, <<"external">>, <<"pilot">>, <<"external", "pilot">>}
Registries ==
  [table \in Tables |-> Installed(FlattenSeq([i \in DOMAIN table |-> Plugins(table[i])]))]
=============================================================================
