-------------------------- MODULE CapabilityMatch --------------------------
(***************************************************************************)
(* Which capability of an ontology a public function is taken for          *)
(* (wvx-forge, capability_match.rs): points for types, port ids and the    *)
(* words of its name, the best kind of match first and then the most.      *)
(*                                                                         *)
(* A text is the set of the fragments that are looked for and that it      *)
(* contains ("decompress" contains "compress"), and, when it is one of     *)
(* them and nothing else, that fragment.                                   *)
(***************************************************************************)
EXTENDS Integers, Sequences, FiniteSets, FiniteSetsExt

CONSTANT None

Is(word, has) == [is |-> word, has |-> has]
Says(has) == [is |-> None, has |-> has]
Joined(text, has) == Says(text.has \cup has)

\* normalize_type_token. The `>` of Vec<u8> is stripped before the spellings of
\* bytes are compared, so that this one is none of them.
Normal(type) ==
  CASE type \in {"bytes", "&[u8]"} -> "bytes"
    [] type \in {"json_value", "json.value", "Value"} -> "value"
    [] type \in {"string", "&str"} -> "string"
    [] OTHER -> type
NormalAll(types) == [k \in DOMAIN types |-> Normal(types[k])]

Occurrences(x, s) == Cardinality({k \in DOMAIN s : s[k] = x})
Elements(s) == {s[k] : k \in DOMAIN s}
Smaller(m, n) == IF m < n THEN m ELSE n

SameBag(s, t) == /\ Len(s) = Len(t)
                 /\ \A x \in Elements(s) : Occurrences(x, s) = Occurrences(x, t)

\* shared_count.
Shared(s, t) ==
  MapThenSumSet(LAMBDA x : Smaller(Occurrences(x, s), Occurrences(x, t)), Elements(s))

\* A capability: its id as a text, and the ids and types of its ports.
Port(id, type) == [id |-> id, type |-> type]
Cap(key, domain, has, ins, outs) ==
  [key |-> key, domain |-> domain, has |-> has, inputs |-> ins, outputs |-> outs]
Types(ports) == [k \in DOMAIN ports |-> Normal(ports[k].type)]

Bytes == <<Port("bytes", "bytes")>>
Value == <<Port("value", "json_value")>>
Codec(key, has) == Cap(key, "codec", {"codec", key} \cup has, Bytes, Bytes)
TextCap(key, has) == Cap(key, "text", {"text", key} \cup has, Bytes, Bytes)

PilotOntology ==
  << Cap("parse", "json", {"json", "parse"}, Bytes, Value),
     Cap("serialize", "json", {"json", "serialize"}, Value, Bytes),
     Cap("path_set", "json", {"json", "path_set", "path", "set"}, Value, Value),
     Cap("sha256", "hash", {"hash", "sha256"}, Bytes, <<Port("digest", "bytes")>>),
     Cap("blake3", "hash", {"hash", "blake", "blake3"}, Bytes, <<Port("digest", "bytes")>>),
     Cap("gzip", "compress", {"gzip", "compress"}, Bytes, Bytes),
     Cap("gunzip", "compress", {"gunzip", "compress"}, Bytes, Bytes),
     Codec("hex_encode", {"hex", "encode"}),
     Codec("hex_decode", {"hex", "decode"}),
     Codec("base64_encode", {"base64", "encode"}),
     Codec("base64_decode", {"base64", "decode"}),
     TextCap("unicode_uppercase", {"unicode", "upper", "uppercase"}),
     TextCap("unicode_lowercase", {"unicode", "lower", "lowercase"}),
     TextCap("ascii_uppercase", {"upper", "uppercase"}),
     TextCap("ascii_lowercase", {"lower", "lowercase"}) >>

-----------------------------------------------------------------------------
(* Words *)

AnyOf(has, words) == has \cap words # {}

\* family_hint looks at name and signature together; the first that holds.
FamilyRules(name, has) ==
  << [family |-> "gunzip", if |-> AnyOf(has, {"gunzip", "decompress", "inflate"})],
     [family |-> "gzip", if |-> AnyOf(has, {"gzip", "compress"})],
     [family |-> "hash", if |-> AnyOf(has, {"sha256", "blake3", "digest", "hash"})],
     [family |-> "base64_decode", if |-> {"base64", "decode"} \subseteq has],
     [family |-> "base64_encode", if |-> "base64" \in has],
     [family |-> "hex_decode", if |-> {"hex", "decode"} \subseteq has],
     [family |-> "hex_encode", if |-> "hex" \in has],
     [family |-> "base64_encode", if |-> name.is = "encode" /\ "json" \notin has],
     [family |-> "base64_decode", if |-> name.is = "decode" /\ "json" \notin has],
     [family |-> "text", if |-> name.is = "transform" /\ AnyOf(has, {"upper", "lower"})],
     [family |-> "parse", if |-> AnyOf(has, {"parse", "from_slice"})],
     [family |-> "serialize", if |-> AnyOf(has, {"serialize", "to_vec"})],
     [family |-> "path_set",
      if |-> AnyOf(has, {"path_set", "pointer"}) \/ {"path", "set"} \subseteq has] >>

FirstFamily(holding) == IF holding = <<>> THEN None ELSE Head(holding).family
Family(name, signature) ==
  FirstFamily(SelectSeq(FamilyRules(name, name.has \cup signature), LAMBDA r : r.if))

Aliases(family) ==
  CASE family = "parse" -> {"parse", "decode"}
    [] family = "serialize" -> {"serialize", "encode"}
    [] family = "path_set" -> {"path_set", "pointer", "path"}
    [] family = "hash" -> {"hash", "sha256", "blake3", "digest"}
    [] family = "gzip" -> {"gzip", "compress"}
    [] family = "gunzip" -> {"gunzip", "decompress"}
    [] family \in {"base64_encode", "base64_decode"} -> {family, "base64", "codec"}
    [] family \in {"hex_encode", "hex_decode"} -> {family, "hex", "codec"}
    [] family = "text" -> {"text", "uppercase", "lowercase", "unicode"}
    [] OTHER -> {}

When(condition, points) == IF condition THEN points ELSE 0

Unzips(name) == AnyOf(name.has, {"gunzip", "decompress", "inflate"})
NamesCodec(name) == AnyOf(name.has, {"hex", "base64"})

\* The points that tell apart the capabilities from bytes to bytes.
HashPoints(name, cap) ==
  LET hashes == AnyOf(name.has, {"sha256", "hash", "blake"}) \/ name.is = "digest" IN
  When(hashes /\ "hash" \in cap.has,
       80 + (IF "blake" \in name.has /\ "blake" \in cap.has THEN 40
             ELSE When("blake" \notin name.has /\ "sha256" \in cap.has, 25)))

GzipPoints(name, cap) ==
    When(/\ AnyOf(name.has, {"gzip", "compress"}) /\ ~Unzips(name)
         /\ "gzip" \in cap.has /\ "gunzip" \notin cap.has,
         80 + When("gzip" \in name.has /\ "gunzip" \notin name.has, 40))
  + When(Unzips(name) /\ "gunzip" \in cap.has, 80 + When("gunzip" \in name.has, 40))

TextPoints(name, cap) ==
  LET up == "upper" \in name.has  low == "lower" \in name.has IN
  When(~NamesCodec(name),
       When((name.is = "transform" \/ up \/ low) /\ "text" \in cap.has,
            IF up /\ "uppercase" \in cap.has THEN 90
            ELSE IF low /\ "lowercase" \in cap.has THEN 90
            ELSE When(name.is = "transform" /\ "uppercase" \in cap.has, 20))
     + (IF up /\ cap.key = "unicode_uppercase" THEN 100
        ELSE When(low /\ cap.key = "unicode_lowercase", 100)))

CodecPoints(name, signature, cap) ==
    When({"hex", "encode"} \subseteq name.has /\ cap.key = "hex_encode", 100)
  + When({"hex", "decode"} \subseteq name.has /\ cap.key = "hex_decode", 100)
  + When(/\ "base64" \in name.has \/ ("encode" \in name.has /\ "hex" \notin name.has)
         /\ cap.key = "base64_encode" /\ "decode" \notin name.has, 90)
  + When(/\ "decode" \in name.has
         /\ \/ "base64" \in name.has
            \/ "hex" \notin name.has /\ "base64" \in signature
         /\ cap.key = "base64_decode", 90)

-----------------------------------------------------------------------------
(* Types, score and kind *)

Exact(shape, cap) == /\ SameBag(NormalAll(shape.inputs), Types(cap.inputs))
                     /\ SameBag(NormalAll(shape.outputs), Types(cap.outputs))

\* Types are compatible just when they are the same, so that only path_set, the
\* value and config of which are arguments of one function, has a match between
\* an exact one and a hint.
ByConfig(name, signature, shape, cap) ==
  /\ Family(name, signature) = "path_set" /\ cap.key = "path_set"
  /\ "value" \in Elements(NormalAll(shape.outputs))
  /\ "value" \in Elements(NormalAll(shape.inputs))

\* A port of the capability that has the id a draft would give the only input
\* (or output) of the function.
DefaultId(type) == CASE type = "bytes" -> "bytes" [] type = "string" -> "text" [] OTHER -> "value"
Hits(types, ports) ==
  When(Len(types) = 1,
       Cardinality({k \in DOMAIN ports : ports[k].id = DefaultId(Normal(types[1]))}))

TypePoints(name, signature, shape, cap) ==
  IF Exact(shape, cap) THEN 100
  ELSE IF ByConfig(name, signature, shape, cap) THEN 70
  ELSE 15 * (Shared(NormalAll(shape.inputs), Types(cap.inputs))
             + Shared(NormalAll(shape.outputs), Types(cap.outputs)))

NamePoints(name, family, cap) ==
    When(family # None /\ AnyOf(cap.has, {family} \cup Aliases(family)), 40)
  + When(name.is \in cap.has, 20)

AtLeastZero(points) == IF points < 0 THEN 0 ELSE points

\* One penalty, taken before text and codecs have their say, which never speak
\* for the capability it is for; a score does not go below zero.
Score(name, signature, shape, cap) ==
  AtLeastZero(TypePoints(name, signature, shape, cap)
              + 10 * (Hits(shape.inputs, cap.inputs) + Hits(shape.outputs, cap.outputs))
              + NamePoints(name, Family(name, signature), cap)
              + HashPoints(name, cap) + GzipPoints(name, cap)
              - When("gzip" \in name.has /\ ~Unzips(name) /\ "gunzip" \in cap.has, 100))
    + TextPoints(name, cap) + CodecPoints(name, signature, cap)

\* An i/o capability is only for functions of just its shape.
Skipped(shape, cap) ==
  cap.domain = "io" /\ shape.inputs \o shape.outputs # <<>> /\ ~Exact(shape, cap)

\* The kinds by rank: 4 exact_shape, 3 compatible_shape, 2 family_hint, and 1
\* new_proposal, which is no match.
Kind(score, name, signature, shape, cap) ==
  IF Skipped(shape, cap) THEN 1
  ELSE IF Exact(shape, cap) /\ score >= 100 THEN 4
  ELSE IF ByConfig(name, signature, shape, cap) /\ score >= 70 THEN 3
  ELSE IF score >= 40 THEN 2 ELSE 1

Scored(score, name, signature, shape, cap) ==
  [key |-> cap.key, domain |-> cap.domain, score |-> score,
   kind |-> Kind(score, name, signature, shape, cap)]

Reuses(match) == match.kind \in {3, 4}
Better(m, n) == m.kind > n.kind \/ (m.kind = n.kind /\ m.score > n.score)
Unmatched == [key |-> "proposed", domain |-> None, kind |-> 1, score |-> 0]

\* The first of the best.
First(S) == CHOOSE k \in S : \A l \in S : k <= l
Best(of) == {k \in DOMAIN of : \A l \in DOMAIN of : ~Better(of[l], of[k])}

\* match_candidate. New proposals are dropped before the ranking, and have the
\* lowest rank in it.
MatchAmong(of) ==
  IF \A k \in DOMAIN of : of[k].kind = 1 THEN Unmatched ELSE of[First(Best(of))]
Match(name, signature, shape, ontology) ==
  MatchAmong([k \in DOMAIN ontology |->
                Scored(Score(name, signature, shape, ontology[k]),
                       name, signature, shape, ontology[k])])
=============================================================================
