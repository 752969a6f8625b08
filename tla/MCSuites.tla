------------------------------ MODULE MCSuites ------------------------------
(***************************************************************************)
(* A small instance of Suites for MCRegistry: two rivals for hash that may do anything,   *)
(* a parser with an external rival, and an encoder with two decoders.      *)
(***************************************************************************)
EXTENDS Suites

serde == 1  lite == 2  shaA == 4  shaB == 5  pair == 6  enc == 7
decA == 8  decB == 9  pathSet == 10  ser == 11  ghost == 12

MCExternal == 3
MCPilot ==
  <<Handler(serde, "parse"), Handler(lite, "parse"), Handler(ser, "serialize"),
    Handler(pathSet, "path_set"), Handler(pair, "pair"), Handler(shaA, "hash"),
    Handler(shaB, "hash"), Handler(enc, "encode"), Handler(decA, "decode"),
    Handler(decB, "decode")>>

MCLists ==
  [cap \in {"parse", "serialize", "path_set", "hash", "encode", "decode"} |->
     CASE cap = "parse" -> {serde, lite}
       [] cap = "serialize" -> {ser}
       [] cap = "path_set" -> {pathSet}
       [] cap = "hash" -> {shaA, shaB}
       [] cap = "encode" -> {enc}
       [] cap = "decode" -> {decA, decB}]
MCEncoders == [decode |-> enc]
MCExported == [parse |-> serde]
MCSamples ==
  [parse |-> {[input |-> "a", want |-> "x"], [input |-> "b", family |-> "syntax"]},
   serialize |-> {[input |-> "a", want |-> "x"]},
   path_set |-> {[input |-> "a", want |-> "x"], [input |-> "b", family |-> Nil]},
   hash |-> {}, encode |-> {}, decode |-> {}]

Syntax == Failure("syntax", {})
Mentions == Failure("other", {"syntax"})
Outcomes == {Answer("x"), Answer("y"), Syntax, Mentions}

\* Everybody answers x to a, and what an encoder makes of it back to a.
Proper == [p \in {"a", "b", "enc"} |-> IF p = "a" THEN Answer("x") ELSE Syntax]
MCNominal ==
  [i \in 1 .. 12 |->
     CASE i = enc -> [Proper EXCEPT !["a"] = Answer("enc")]
       [] i \in {decA, decB} -> [Proper EXCEPT !["enc"] = Answer("a")]
       [] OTHER -> Proper]
Rivals == [{"a", "b"} -> Outcomes]
MCWorlds ==
  {(shaA :> [Proper EXCEPT !["a"] = x]) @@ (shaB :> (g @@ Proper)) :
     x \in {Answer("x"), Answer("y"), Syntax}, g \in Rivals}
  \cup {enc :> [Proper EXCEPT !["a"] = Syntax], decB :> [Proper EXCEPT !["enc"] = Answer("b")],
        MCExternal :> [Proper EXCEPT !["a"] = Answer("y")],
        lite :> [Proper EXCEPT !["b"] = Mentions]}

Doc(vectors, negatives) == [cap |-> "hash", vectors |-> vectors, negatives |-> negatives]
Positive(input, expectOk, golden) == [input |-> input, expectOk |-> expectOk, golden |-> golden]
Negative(input, family) == [input |-> input, family |-> family]
MCProfiles ==
  {Doc({Positive("a", TRUE, g)}, {Negative("b", f)}) : g \in {"x", Absent, Malformed}, f \in {Nil, "syntax"}}
  \cup {Doc({Positive("a", TRUE, "x"), Positive("b", FALSE, Absent)}, {}),
        Doc({Positive("a", TRUE, "x")}, {Negative(Malformed, Nil)})}
MCDeclaring == {{shaA, shaB, ghost}, {shaA, pair}, {ghost}}

\* Nothing of the suites: the state of a behaviour that is about something else.
NoSuites ==
  /\ behaves = <<>> /\ document = Nil /\ declared = {} /\ plugins = <<>>
  /\ collected = <<>> /\ whole = "none" /\ last = TRUE
=============================================================================
