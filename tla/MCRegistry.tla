----------------------------- MODULE MCRegistry -----------------------------
(***************************************************************************)
(* Small instances of Forge and RegistryWriters for TLC: a campaign that   *)
(* measures the drafts, and then commands that write to the registry, the  *)
(* registration of drafts among them.                                      *)
(***************************************************************************)
EXTENDS RegistryWriters, Forge, MCSuites

CONSTANTS i1, i2, c1, c2, c3

MCImpls == {i1}
MCTwoImpls == {i1, i2}
MCCallers == {c1, c2}
MCThreeCallers == {c1, c2, c3}
MCCommands == {"promote", "admit", "install", "mint", "attest", "sigstore", "rekor"}
MCKinds == Logging
MCPayloads == Payload
MCSymmetry == Permutations(Callers) \cup Permutations(Impls)

\* A registry's ontology has the capabilities of i/o as well.
MCOntology == PilotOntology \o
  << Cap("io.input.bytes", "io", {"io", "input", "bytes"}, <<>>, Bytes) >>
MCMinCases == [blind |-> [cases |-> 3, domains |-> 3], labelled |-> [cases |-> 2, domains |-> 2]]

Fn(name, path, ins, outs, module) ==
  [name |-> name, signature |-> name.has, path |-> path,
   shape |-> [inputs |-> ins, outputs |-> outs], module |-> module]
Bytewise(name, path, module) == Fn(name, path, <<"bytes">>, <<"bytes">>, module)
Case(package, hint, label, domain, compiles) ==
  [package |-> package, hint |-> hint, label |-> label, domain |-> domain,
   compiles |-> compiles]

parse == Is("parse", {"parse"})
compress == Is("compress", {"compress"})
transform == Is("transform", {})
encode == Is("encode", {"encode"})

MCCases ==
  { Case(<<Fn(parse, {}, <<"bytes">>, <<"json.value">>, 1)>>, {"json"}, "parse", "json", TRUE),
    \* The arguments of path_set are its config.
    Case(<<Fn(Is("path_set", {"path_set", "path", "set"}), {},
              <<"json.value", "string", "json.value">>, <<"json.value">>, 1)>>,
         {}, "path_set", "json", TRUE),
    \* The rustdoc or the folder says sha256, the name alone says nothing.
    Case(<<Bytewise(Is("run", {}), {}, 1)>>, {"sha256", "hash"}, "sha256", "hash", TRUE),
    \* The second of two functions is the one that is meant.
    Case(<<Bytewise(transform, {"upper"}, 1), Bytewise(transform, {"lower"}, 2)>>,
         {"text"}, "unicode_lowercase", "text", TRUE),
    \* The second has the right capability for a name and the wrong types.
    Case(<<Bytewise(compress, {}, 2), Fn(compress, {}, <<"u64">>, <<"u64">>, 1)>>,
         {"gzip"}, "gzip", "compress", TRUE),
    \* None but the words hex and base64, for one function.
    Case(<<Bytewise(encode, {}, 1)>>, {"hex", "base64"}, "base64_encode", "codec", FALSE),
    Case(<<Fn(Is("register", {}), {}, <<"u64">>, <<"unit">>, 1)>>, {}, None, None, FALSE),
    Case(<<>>, {}, "blake3", "hash", TRUE),
    Case(None, {}, "parse", "json", TRUE) }

Closed == stage = "over" /\ cases = 0 /\ tally = [m \in Modes |-> Blank] /\ go = [m \in Modes |-> FALSE]

\* A behaviour is about the suites, or a campaign and then the registry.
MCInit ==
  /\ Init
  /\ \/ SuitesInit /\ Closed /\ manifest = [i \in Impls |-> Draft]
     \/ NoSuites /\ ForgeInit
MCNext ==
  \/ document # Nil /\ SuitesNext /\ UNCHANGED <<vars, forgeVars>>
  \/ document = Nil /\ Campaign /\ UNCHANGED <<vars, suiteVars>>
  \/ document = Nil /\ stage = "over" /\ Next /\ UNCHANGED <<forgeVars, suiteVars>>
MCSpec == MCInit /\ [][MCNext]_<<vars, forgeVars, suiteVars>>
=============================================================================
