--------------------------- MODULE RegistryProofs ---------------------------
(***************************************************************************)
(* For any number of commands, of any kind, dying anywhere: what keeps the *)
(* hash chain of the transparency log, and that admissions are reviewed.   *)
(***************************************************************************)
EXTENDS RegistryWriters, TLAPS

(* The log file.  Entries contain the hash of the one before them, so that *)
(* no set of entries is fixed beforehand: some set has them all.           *)
LinesShape ==
  /\ \E T : log.lines \in Seq(Seq(T))
  /\ \A n \in 1 .. Len(log.lines) : Len(log.lines[n]) \in Nat \ {0}
  /\ log.open \in BOOLEAN
  /\ log.open => Len(log.lines) \in Nat \ {0}

HeldShape ==
  /\ held \in [Callers -> [entry : {held[c].entry : c \in Callers},
                          writing : {"none", "line", "newline"}]]
  /\ \A c \in Callers : Appending(c) => held[c].entry.seq \in Nat

LogShape == LinesShape /\ HeldShape

\* A step of the log, of whatever kind and payload.
LogStep(c) ==
  \/ \E kind, impl, payload : ReadLog(c, kind, impl, payload)
  \/ WriteLine(c) \/ WriteNewline(c) \/ AbandonAppend(c)

\* Writing to a file whose last line has its newline adds a line.
LEMMA WriteToClosed ==
  ASSUME LinesShape, ~log.open, NEW e, log' = WithLine(log, e)
  PROVE  /\ Len(log'.lines) = Len(log.lines) + 1
         /\ \A n \in 1 .. Len(log.lines) : log'.lines[n] = log.lines[n]
         /\ log'.lines[Len(log.lines) + 1] = <<e>>
         /\ Len(log.lines) \in Nat
         /\ log'.open \in BOOLEAN
         /\ \E T : log'.lines \in Seq(Seq(T))
<1>1. PICK T : log.lines \in Seq(Seq(T))
  BY DEF LinesShape
<1>2. log'.lines = Append(log.lines, <<e>>)
  BY DEF WithLine
<1>6. log'.open \in BOOLEAN
  BY DEF WithLine
<1>3. <<e>> \in Seq(T \cup {e}) /\ log.lines \in Seq(Seq(T \cup {e}))
  BY <1>1
<1>4. log'.lines \in Seq(Seq(T \cup {e}))
  BY <1>2, <1>3
<1>5. Len(log.lines) \in Nat
  BY <1>1
<1> QED BY <1>2, <1>6, <1>3, <1>4, <1>5

\* Writing to a file whose last line has no newline makes that line longer.
LEMMA WriteToOpen ==
  ASSUME LinesShape, log.open, NEW e, log' = WithLine(log, e)
  PROVE  /\ Len(log'.lines) = Len(log.lines)
         /\ \A n \in 1 .. Len(log.lines) - 1 : log'.lines[n] = log.lines[n]
         /\ log'.lines[Len(log.lines)] = Append(log.lines[Len(log.lines)], e)
         /\ Len(log'.lines[Len(log.lines)]) \in Nat \ {0, 1}
         /\ Len(log.lines) \in Nat \ {0}
         /\ log'.open \in BOOLEAN
         /\ \E T : log'.lines \in Seq(Seq(T))
<1>1. PICK T : log.lines \in Seq(Seq(T))
  BY DEF LinesShape
<1> DEFINE n == Len(log.lines)
<1>2. n \in Nat \ {0} /\ Len(log.lines[n]) \in Nat \ {0}
  <2>1. n \in Nat \ {0}
    BY DEF LinesShape
  <2>2. n \in 1 .. n
    BY <2>1
  <2> QED BY <2>1, <2>2 DEF LinesShape
<1>3. log'.lines = [log.lines EXCEPT ![n] = Append(log.lines[n], e)]
  BY DEF WithLine, Size
<1>10. log'.open \in BOOLEAN
  BY DEF WithLine
<1>4. log.lines \in Seq(Seq(T \cup {e})) /\ Append(log.lines[n], e) \in Seq(T \cup {e})
  BY <1>1, <1>2
<1>5. log'.lines \in Seq(Seq(T \cup {e})) /\ Len(log'.lines) = n
  BY <1>2, <1>3, <1>4
<1>6. log.lines[n] \in Seq(T) /\ Len(Append(log.lines[n], e)) = Len(log.lines[n]) + 1
      /\ Len(log.lines[n]) \in Nat
  BY <1>1, <1>2
<1> HIDE DEF n
<1>7. log'.lines[n] = Append(log.lines[n], e)
  <2>1. n \in DOMAIN log.lines
    BY <1>1, <1>2 DEF n
  <2> QED BY <1>3, <2>1
<1>8. Len(log'.lines[n]) \in Nat \ {0, 1}
  BY <1>2, <1>6, <1>7
<1>9. \A m \in 1 .. n - 1 : log'.lines[m] = log.lines[m]
  BY <1>2, <1>3
<1> QED BY <1>2, <1>10, <1>5, <1>7, <1>8, <1>9 DEF n

LEMMA LinesStep ==
  ASSUME LinesShape, NEW c \in Callers, LogStep(c)
  PROVE  LinesShape'
<1>1. CASE WriteLine(c)
  <2>1. log' = WithLine(log, held[c].entry)
    BY <1>1 DEF WriteLine
  <2>2. CASE log.open
    <3>1. /\ Len(log'.lines) = Len(log.lines)
          /\ \A n \in 1 .. Len(log.lines) - 1 : log'.lines[n] = log.lines[n]
          /\ Len(log'.lines[Len(log.lines)]) \in Nat \ {0, 1}
          /\ Len(log.lines) \in Nat \ {0}
          /\ log'.open \in BOOLEAN
          /\ \E T : log'.lines \in Seq(Seq(T))
      BY <2>1, <2>2, WriteToOpen
    <3>2. \A n \in 1 .. Len(log.lines) : n = Len(log.lines) \/ n \in 1 .. Len(log.lines) - 1
      BY <3>1
    <3>3. \A n \in 1 .. Len(log.lines) : Len(log'.lines[n]) \in Nat \ {0}
      BY <3>1, <3>2 DEF LinesShape
    <3> QED BY <3>1, <3>3 DEF LinesShape
  <2>3. CASE ~log.open
    <3>1. /\ Len(log'.lines) = Len(log.lines) + 1
          /\ \A n \in 1 .. Len(log.lines) : log'.lines[n] = log.lines[n]
          /\ log'.lines[Len(log.lines) + 1] = <<held[c].entry>>
          /\ Len(log.lines) \in Nat
          /\ log'.open \in BOOLEAN
          /\ \E T : log'.lines \in Seq(Seq(T))
      BY <2>1, <2>3, WriteToClosed
    <3>2. Len(<<held[c].entry>>) \in Nat \ {0}
      OBVIOUS
    <3>3. \A n \in 1 .. Len(log.lines) + 1 : n = Len(log.lines) + 1 \/ n \in 1 .. Len(log.lines)
      BY <3>1
    <3>4. \A n \in 1 .. Len(log'.lines) : Len(log'.lines[n]) \in Nat \ {0}
      BY <3>1, <3>2, <3>3 DEF LinesShape
    <3>5. Len(log'.lines) \in Nat \ {0}
      BY <3>1
    <3> QED BY <3>1, <3>4, <3>5 DEF LinesShape
  <2> QED BY <2>2, <2>3
<1>2. CASE WriteNewline(c)
  <2>1. log'.lines = log.lines /\ log'.open = FALSE
    BY <1>2 DEF WriteNewline
  <2> QED BY <2>1 DEF LinesShape
<1>3. CASE UNCHANGED log
  BY <1>3 DEF LinesShape
<1> QED BY <1>1, <1>2, <1>3 DEF LogStep, ReadLog, AbandonAppend

LEMMA ShapeStep ==
  ASSUME LogShape, NEW c \in Callers, LogStep(c)
  PROVE  LogShape'
<1>1. LinesShape'
  BY LinesStep DEF LogShape
<1>2. ASSUME NEW new, NEW writing \in {"none", "line", "newline"},
             held' = [held EXCEPT ![c] = [entry |-> new, writing |-> writing]],
             writing # "none" => new.seq \in Nat
      PROVE  HeldShape'
  <2>1. held'[c] = [entry |-> new, writing |-> writing]
    BY <1>2 DEF LogShape, HeldShape
  <2>2. \A d \in Callers \ {c} : held'[d] = held[d]
    BY <1>2 DEF LogShape, HeldShape
  <2>3. held' = [d \in Callers |-> held'[d]]
    BY <1>2 DEF LogShape, HeldShape
  <2>4. \A d \in Callers : held'[d] = [entry |-> held'[d].entry, writing |-> held'[d].writing]
                           /\ held'[d].writing \in {"none", "line", "newline"}
    BY <2>1, <2>2 DEF LogShape, HeldShape
  <2>5. \A d \in Callers : Appending(d)' => held'[d].entry.seq \in Nat
    BY <1>2, <2>1, <2>2 DEF LogShape, HeldShape, Appending
  <2> QED BY <2>3, <2>4, <2>5 DEF HeldShape
<1>3. ASSUME NEW kind, NEW impl, NEW payload, ReadLog(c, kind, impl, payload) PROVE HeldShape'
  <2>1. NextEntry(log, kind, impl, payload).seq \in Nat
    BY DEF LogShape, LinesShape, Size, NextEntry
  <2> QED BY <1>2, <1>3, <2>1 DEF ReadLog
<1>4. ASSUME WriteLine(c) PROVE HeldShape'
  <2>1. held' = [held EXCEPT ![c] = [held[c] EXCEPT !.writing = "newline"]]
    BY <1>4 DEF WriteLine
  <2>2. held[c] \in [entry : {held[d].entry : d \in Callers}, writing : {"none", "line", "newline"}]
    BY DEF LogShape, HeldShape
  <2>3. [held[c] EXCEPT !.writing = "newline"] = [entry |-> held[c].entry, writing |-> "newline"]
    BY <2>2
  <2>4. held[c].entry.seq \in Nat
    BY <1>4 DEF WriteLine, LogShape, HeldShape, Appending
  <2> QED BY <1>2, <2>1, <2>3, <2>4
<1>5. ASSUME WriteNewline(c) \/ AbandonAppend(c) PROVE HeldShape'
  BY <1>2, <1>5 DEF WriteNewline, AbandonAppend, NotAppending
<1> QED BY <1>1, <1>3, <1>4, <1>5 DEF LogStep, LogShape

LEMMA ShapeInit == LogInit => LogShape
<1> SUFFICES ASSUME LogInit PROVE LogShape
  OBVIOUS
<1>1. log.lines = <<>> /\ log.open = FALSE
  BY DEF LogInit, EmptyLog
<1>2. log.lines \in Seq(Seq({})) /\ Len(log.lines) = 0
  BY <1>1
<1>3. LinesShape
  <2>1. \A n \in 1 .. Len(log.lines) : FALSE
    BY <1>2
  <2> QED BY <1>1, <1>2, <2>1 DEF LinesShape
<1>4. HeldShape
  BY DEF LogInit, HeldShape, NotAppending, Appending
<1> QED BY <1>3, <1>4 DEF LogShape

-----------------------------------------------------------------------------
(* Damage *)

LEMMA DamageStays ==
  ASSUME LinesShape, NEW c \in Callers, LogStep(c), ~Verifies(log)
  PROVE  ~Verifies(log')
<1>1. CASE WriteLine(c)
  <2> DEFINE e == held[c].entry
  <2>1. log' = WithLine(log, e)
    BY <1>1 DEF WriteLine
  <2>2. CASE log.open
    <3>1. /\ Len(log'.lines) = Len(log.lines)
          /\ Len(log'.lines[Len(log.lines)]) \in Nat \ {0, 1}
          /\ Len(log.lines) \in Nat \ {0}
      BY <2>1, <2>2, WriteToOpen
    <3> QED BY <3>1 DEF Verifies, Readable, Size, Line
  <2>3. CASE ~log.open
    <3>1. /\ Len(log'.lines) = Len(log.lines) + 1
          /\ \A n \in 1 .. Len(log.lines) : log'.lines[n] = log.lines[n]
          /\ Len(log.lines) \in Nat
      BY <2>1, <2>3, WriteToClosed
    <3>2. \A n \in 1 .. Len(log.lines) : n \in 1 .. Len(log'.lines) /\ Line(log', n) = Line(log, n)
      BY <3>1 DEF Line
    <3>3. \A n \in 1 .. Len(log.lines) : Entry(log', n) = Entry(log, n)
      BY <3>2 DEF Entry
    <3>4. \A n \in 1 .. Len(log.lines) : PrevHash(log', n) = PrevHash(log, n)
      <4>1. \A n \in 1 .. Len(log.lines) : n # 1 => n - 1 \in 1 .. Len(log.lines)
        BY <3>1
      <4> QED BY <3>3, <4>1 DEF PrevHash
    <3> QED BY <3>2, <3>3, <3>4 DEF Verifies, Readable, Size
  <2> QED BY <2>2, <2>3
<1>2. CASE WriteNewline(c)
  <2>1. log'.lines = log.lines
    BY <1>2 DEF WriteNewline
  <2> QED BY <2>1 DEF Verifies, Readable, Size, Line, Entry, PrevHash
<1>3. CASE UNCHANGED log
  BY <1>3
<1> QED BY <1>1, <1>2, <1>3 DEF LogStep, ReadLog, AbandonAppend

-----------------------------------------------------------------------------
(* The hash chain *)

\* Short of an overlap or a death in the middle: the log verifies, at most one
\* entry is on its way, and it is the next one.
ChainInv ==
  \/ torn \/ raced # {}
  \/ /\ Verifies(log)
     /\ \A c, d \in Callers : Appending(c) /\ Appending(d) => c = d
     /\ \A c \in Callers : held[c].writing = "line" =>
          /\ ~log.open
          /\ held[c].entry.seq = Size(log) + 1
          /\ held[c].entry.prev = PrevHash(log, Size(log) + 1)
     /\ log.open => \E c \in Callers : held[c].writing = "newline"

\* The next entry keeps the chain.
LEMMA NextVerifies ==
  ASSUME LinesShape, Verifies(log), ~log.open, NEW e, log' = WithLine(log, e),
         e.seq = Size(log) + 1, e.prev = PrevHash(log, Size(log) + 1)
  PROVE  Verifies(log')
<1> DEFINE n == Len(log.lines)
<1>1. /\ Len(log'.lines) = n + 1
      /\ \A m \in 1 .. n : log'.lines[m] = log.lines[m]
      /\ log'.lines[n + 1] = <<e>>
      /\ n \in Nat
  BY WriteToClosed
<1>2. \A m \in 1 .. n + 1 : m \in 1 .. n \/ m = n + 1
  BY <1>1
<1>3. Entry(log', n + 1) = e /\ Len(Line(log', n + 1)) = 1
  BY <1>1 DEF Entry, Line
<1>4. \A m \in 1 .. n : Entry(log', m) = Entry(log, m) /\ Len(Line(log', m)) = 1
  BY <1>1 DEF Verifies, Readable, Size, Entry, Line
<1>5. \A m \in 1 .. n + 1 : PrevHash(log', m) = PrevHash(log, m)
  <2>1. \A m \in 1 .. n + 1 : m # 1 => m - 1 \in 1 .. n
    BY <1>1
  <2> QED BY <1>4, <2>1 DEF PrevHash
<1>6. Readable(log')
  BY <1>1, <1>2, <1>3, <1>4 DEF Readable, Size
<1>7. \A m \in 1 .. n : Entry(log', m).seq = m /\ Entry(log', m).prev = PrevHash(log', m)
  <2>1. \A m \in 1 .. n : m \in 1 .. n + 1
    BY <1>1
  <2> QED BY <1>4, <1>5, <2>1 DEF Verifies, Size
<1>8. n + 1 \in 1 .. n + 1
  BY <1>1
<1>9. Entry(log', n + 1).seq = n + 1 /\ Entry(log', n + 1).prev = PrevHash(log', n + 1)
  BY <1>3, <1>5, <1>8 DEF Size
<1> QED BY <1>1, <1>2, <1>6, <1>7, <1>9 DEF Verifies, Size

LEMMA ChainStep ==
  ASSUME LogShape, ChainInv, NEW c \in Callers, LogStep(c)
  PROVE  ChainInv'
<1> SUFFICES ASSUME ~torn', raced' = {} PROVE ChainInv'
  BY DEF ChainInv
<1> USE DEF LogShape, HeldShape, Appending
<1>1. /\ Verifies(log)
      /\ \A d, e \in Callers : Appending(d) /\ Appending(e) => d = e
      /\ \A d \in Callers : held[d].writing = "line" =>
           /\ ~log.open
           /\ held[d].entry.seq = Size(log) + 1
           /\ held[d].entry.prev = PrevHash(log, Size(log) + 1)
      /\ log.open => \E d \in Callers : held[d].writing = "newline"
  <2>1. raced \subseteq raced'
    BY DEF LogStep, ReadLog, WriteLine, WriteNewline, AbandonAppend
  <2>2. torn => torn'
    BY Zenon DEF LogStep, ReadLog, WriteLine, WriteNewline, AbandonAppend
  <2> QED BY <2>1, <2>2 DEF ChainInv
<1>2. ASSUME NEW kind, NEW impl, NEW payload, ReadLog(c, kind, impl, payload) PROVE ChainInv'
  <2>1. ASSUME NEW d \in Callers, Appending(d) PROVE FALSE
    <3> DEFINE overlaps == {{kind, held[x].entry.kind} : x \in {y \in Callers : Appending(y)}}
    <3>1. {kind, held[d].entry.kind} \in overlaps
      BY <2>1
    <3>2. overlaps \subseteq raced'
      BY <1>2 DEF ReadLog
    <3> QED BY <3>1, <3>2
  <2>2. ~log.open /\ log' = log
    BY <1>1, <1>2, <2>1 DEF ReadLog
  <2>3. /\ held'[c].writing = "line"
        /\ held'[c].entry.seq = Size(log) + 1
        /\ held'[c].entry.prev = PrevHash(log, Size(log) + 1)
    BY <1>2 DEF ReadLog, NextEntry
  <2>4. \A d \in Callers \ {c} : held'[d].writing = "none"
    BY <1>2, <2>1 DEF ReadLog
  <2> QED BY <1>1, <2>2, <2>3, <2>4 DEF ChainInv
<1>3. CASE WriteLine(c)
  <2>1. ~log.open /\ Verifies(log')
    BY <1>1, <1>3, NextVerifies DEF WriteLine
  <2>2. held'[c].writing = "newline"
    BY <1>3 DEF WriteLine
  <2>3. \A d \in Callers \ {c} : held'[d].writing = "none"
    BY <1>1, <1>3 DEF WriteLine
  <2> QED BY <2>1, <2>2, <2>3 DEF ChainInv
<1>4. CASE WriteNewline(c)
  <2>1. log'.lines = log.lines /\ log'.open = FALSE
    BY <1>4 DEF WriteNewline
  <2>2. Verifies(log')
    BY <1>1, <2>1 DEF Verifies, Readable, Size, Line, Entry, PrevHash
  <2>3. \A d \in Callers : held'[d].writing = "none"
    BY <1>1, <1>4 DEF WriteNewline, NotAppending
  <2> QED BY <2>1, <2>2, <2>3 DEF ChainInv
<1>5. CASE AbandonAppend(c)
  <2>1. held[c].writing # "newline" /\ log' = log
    BY <1>5 DEF AbandonAppend
  <2>2. held'[c].writing = "none" /\ \A d \in Callers \ {c} : held'[d] = held[d]
    BY <1>5 DEF AbandonAppend, NotAppending
  <2> QED BY <1>1, <2>1, <2>2 DEF ChainInv
<1> QED BY <1>2, <1>3, <1>4, <1>5 DEF LogStep

LEMMA ChainInit == LogInit => ChainInv
<1> SUFFICES ASSUME LogInit PROVE ChainInv
  OBVIOUS
<1>1. Size(log) = 0 /\ log.open = FALSE
  BY DEF LogInit, EmptyLog, Size
<1>2. \A n \in 1 .. Size(log) : FALSE
  BY <1>1
<1>3. \A c \in Callers : held[c].writing = "none"
  BY DEF LogInit, NotAppending
<1> QED BY <1>1, <1>2, <1>3 DEF ChainInv, Verifies, Readable, Appending

LEMMA AppendersStep == LogNext => \E c \in Callers : LogStep(c)
BY DEF LogNext, LogStep

\* THEOREM: without other writers the log verifies unless two appends overlapped
\* or one died before its newline.
THEOREM ChainAlone == LogSpec => []ChainBreaksByOverlap
<1>1. LogInit => LogShape /\ ChainInv
  BY ShapeInit, ChainInit
<1>2. LogShape /\ ChainInv /\ [LogNext]_logVars => (LogShape /\ ChainInv)'
  <2> SUFFICES ASSUME LogShape, ChainInv, [LogNext]_logVars PROVE (LogShape /\ ChainInv)'
    OBVIOUS
  <2>1. CASE LogNext
    BY <2>1, AppendersStep, ShapeStep, ChainStep
  <2>2. CASE UNCHANGED logVars
    BY <2>2 DEF logVars, LogShape, LinesShape, HeldShape, ChainInv, Appending
  <2> QED BY <2>1, <2>2
<1>3. ChainInv => ChainBreaksByOverlap
  BY DEF ChainInv, ChainBreaksByOverlap
<1> QED BY <1>1, <1>2, <1>3, PTL DEF LogSpec

-----------------------------------------------------------------------------
(* Types *)

Call == [step : Steps, req : Request \cup {Nothing}, imp : Manifest,
         art : Evidence, payload : Payload \cup {Nothing}, index : Nat]

FilesType ==
  /\ manifest \in [Impls -> Manifest \cup {Torn}]
  /\ artifact \in [Impls -> Evidence \cup {Nothing, Torn}]
  /\ provenance \in [Impls -> BOOLEAN]
  /\ attestation \in [Impls -> Payload \cup {Nothing}]
  /\ bundle \in [Impls -> [payload : Payload, index : Nat] \cup {Nothing}]
  /\ lock \in Callers \cup {Nothing}

\* From here on a command needs the payload of its log line.
Carries(k) ==
  \/ k.step \in {"publish", "log", "line", "newline", "check", "publish_rekor"}
  \/ k.step = "provenance" /\ k.req.cmd = "promote"

CallsType ==
  /\ call \in [Callers -> Call]
  /\ \A c \in Callers :
       /\ call[c].step # "idle" => call[c].req \in Request
       /\ Carries(call[c]) => call[c].payload \in Payload
       /\ held[c].writing = IF call[c].step \in {"line", "newline"} THEN call[c].step ELSE "none"

Typed == FilesType /\ CallsType /\ LogShape

LEMMA Constants ==
  /\ Draft \in Manifest /\ Vouched \in Manifest /\ Conformant \in Manifest
  /\ Passing({}) \in Evidence
  /\ \A m \in Manifest : m.axes \in Evidence /\ AdmittedManifest(m) \in Manifest
  /\ \A e \in Evidence : /\ \A ok \in BOOLEAN : MeasuredAxes(e, ok) \in Evidence
                         /\ \A passed : PromotedAxes(e, passed) \in Evidence
  /\ \A m \in Manifest, e \in Evidence, target \in {"conformant", "admitted"} :
       PromotedManifest(m, e, target) \in Manifest
<1>1. \A as : Passing(as) \in Evidence
  BY DEF Passing, Evidence, AxisFacts
<1>2. Draft \in Manifest /\ Vouched \in Manifest /\ Conformant \in Manifest
  BY <1>1 DEF Draft, Vouched, Conformant, Manifest, LifecycleStatus
<1>3. ASSUME NEW m \in Manifest
      PROVE  m.axes \in Evidence /\ AdmittedManifest(m) \in Manifest
  <2>1. m.axes \in Evidence
    BY DEF Manifest
  <2>2. AdmittedManifest(m) \in Manifest
    BY <2>1 DEF AdmittedManifest, Manifest, LifecycleStatus, Evidence, AxisFacts
  <2> QED BY <2>1, <2>2
<1>4. ASSUME NEW e \in Evidence
      PROVE  /\ \A ok \in BOOLEAN : MeasuredAxes(e, ok) \in Evidence
             /\ \A passed : PromotedAxes(e, passed) \in Evidence
  <2>1. \A ok \in BOOLEAN : MeasuredAxes(e, ok) \in Evidence
    BY DEF MeasuredAxes, Evidence, AxisFacts, Axes
  <2>2. ASSUME NEW passed PROVE PromotedAxes(e, passed) \in Evidence
    <3> DEFINE f == [a \in Axes |-> IF a \in {"build", "license"} \cup passed THEN "pass" ELSE e[a]]
    <3>1. f \in Evidence
      BY DEF Evidence, AxisFacts
    <3> HIDE DEF f
    <3>2. MintedAxes(f) \in Evidence
      BY <3>1 DEF MintedAxes, BySuites, Evidence, AxisFacts, Axes
    <3> QED BY <3>2 DEF PromotedAxes, f
  <2> QED BY <2>1, <2>2
<1>5. ASSUME NEW m \in Manifest, NEW e \in Evidence, NEW target \in {"conformant", "admitted"}
      PROVE  PromotedManifest(m, e, target) \in Manifest
  BY DEF PromotedManifest, Manifest, LifecycleStatus, Evidence, AxisFacts
<1> QED BY <1>1, <1>2, <1>3, <1>4, <1>5

LEMMA TypedInit == Init => Typed
<1> SUFFICES ASSUME Init PROVE Typed
  OBVIOUS
<1>1. LogShape
  BY ShapeInit DEF Init
<1>2. FilesType
  <2>1. manifest \in [Impls -> Manifest]
    BY Constants DEF Init
  <2>2. artifact \in [Impls -> Evidence \cup {Nothing, Torn}]
    BY <2>1, Constants DEF Init
  <2> QED BY <2>1, <2>2 DEF Init, FilesType
<1>3. CallsType
  <2>1. Idle \in Call
    BY Constants DEF Idle, Call, Steps
  <2>2. \A c \in Callers : call[c] = Idle /\ held[c].writing = "none"
    BY DEF Init, LogInit, NotAppending
  <2>3. call \in [Callers -> Call]
    BY <2>1 DEF Init
  <2> QED BY <2>2, <2>3 DEF CallsType, Carries, Idle
<1> QED BY <1>1, <1>2, <1>3 DEF Typed

\* A command changes its own call only.
LEMMA CallsTypeStep ==
  ASSUME CallsType, NEW c \in Callers, NEW new \in Call,
         call' = [call EXCEPT ![c] = new],
         new.step # "idle" => new.req \in Request,
         Carries(new) => new.payload \in Payload,
         \A d \in Callers \ {c} : held'[d] = held[d],
         held'[c].writing = IF new.step \in {"line", "newline"} THEN new.step ELSE "none"
  PROVE  CallsType'
<1>1. call'[c] = new /\ \A d \in Callers \ {c} : call'[d] = call[d]
  BY DEF CallsType
<1>2. call' \in [Callers -> Call]
  BY DEF CallsType
<1> QED BY <1>1, <1>2 DEF CallsType

LEMMA RequestType ==
  ASSUME NEW r \in Request
  PROVE  /\ r.cmd \in {"promote", "admit", "install", "mint", "attest", "sigstore", "rekor"}
         /\ r.impl \in Impls /\ r.apply \in BOOLEAN /\ r.target \in {"conformant", "admitted"}
BY CommandsAssumption DEF Request

\* What the commands do to the files keeps their types.
LEMMA FilesTypeStep ==
  ASSUME Typed, NEW c \in Callers, Step(c) \/ Crash(c)
  PROVE  FilesType'
<1>1. call[c] \in Call
  BY DEF Typed, CallsType
<1>2. ASSUME call[c].step # "idle" PROVE Mine(c) \in Impls
  BY <1>2, RequestType DEF Typed, CallsType, Mine
<1>3. call[c].imp \in Manifest /\ call[c].art \in Evidence
  BY <1>1 DEF Call
<1> USE DEF Typed, FilesType, At
<1>4. CASE Arrive(c) BY <1>4 DEF Arrive, registry
<1>5. CASE Find(c) BY <1>5 DEF Find, Fail, Unlock, registry
<1>6. CASE Acquire(c) BY <1>6 DEF Acquire, Fail, Unlock, registry
<1>7. CASE TruncateArtifact(c) BY <1>7, <1>2 DEF TruncateArtifact
<1>8. CASE FillArtifact(c) BY <1>8, <1>2, <1>3 DEF FillArtifact
<1>9. CASE ReplaceManifest(c) BY <1>9, <1>2, <1>3 DEF ReplaceManifest
<1>10. CASE WriteProvenance(c) BY <1>10, <1>2 DEF WriteProvenance, RecordReview
<1>11. CASE TruncateManifest(c) BY <1>11, <1>2 DEF TruncateManifest
<1>12. CASE FillManifest(c) BY <1>12, <1>2, <1>3 DEF FillManifest
<1>13. CASE PublishAttestation(c)
  BY <1>13, <1>2 DEF PublishAttestation, CallsType, Carries
<1>14. CASE PublishBundle(c)
  <2>1. [payload |-> call[c].payload, index |-> 0] \in [payload : Payload, index : Nat]
    BY <1>14 DEF PublishBundle, CallsType, Carries
  <2> QED BY <1>14, <1>2, <2>1 DEF PublishBundle
<1>15. CASE BeginLog(c) \/ LogLine(c) \/ LogNewline(c) BY <1>15 DEF BeginLog, LogLine, LogNewline, registry
<1>16. CASE LogRefused(c) BY <1>16 DEF LogRefused, Fail, Unlock, registry
<1>17. CASE CheckLine(c) BY <1>17 DEF CheckLine, Fail, Unlock, registry
<1>18. CASE PublishRekor(c)
  <2>1. RekorBundle(c) \in [payload : Payload, index : Nat]
    BY <1>1, <1>18 DEF PublishRekor, CallsType, Carries, RekorBundle, Call
  <2> QED BY <1>18, <1>2, <2>1 DEF PublishRekor
<1>19. CASE End(c) BY <1>19 DEF End, Unlock, registry
<1>20. CASE Crash(c) BY <1>20 DEF Crash, registry
<1> QED
  BY <1>4, <1>5, <1>6, <1>7, <1>8, <1>9, <1>10, <1>11, <1>12, <1>13, <1>14, <1>15, <1>16,
     <1>17, <1>18, <1>19, <1>20 DEF Step

\* Every step of a command is one of the log or leaves the log alone, and
\* leaves the other commands alone.
LEMMA OneActs ==
  ASSUME NEW c \in Callers, Step(c) \/ Crash(c)
  PROVE  LogStep(c) \/ UNCHANGED logVars
BY DEF Step, LogStep, Arrive, Find, Acquire, TruncateArtifact, FillArtifact, ReplaceManifest,
       WriteProvenance, TruncateManifest, FillManifest, PublishAttestation, PublishBundle,
       BeginLog, LogRefused, LogLine, LogNewline, CheckLine, PublishRekor, End, Crash

\* The calls keep their types, whatever a command does.
LEMMA CallsTypeKept ==
  ASSUME Typed, NEW c \in Callers, Step(c) \/ Crash(c)
  PROVE  CallsType'
<1> USE DEF At, Carries
<1>0. CallsType
  BY DEF Typed
<1>1. /\ call[c] \in Call
      /\ call[c].step # "idle" => call[c].req \in Request
      /\ Carries(call[c]) => call[c].payload \in Payload
      /\ held[c].writing = IF call[c].step \in {"line", "newline"} THEN call[c].step ELSE "none"
      /\ held \in [Callers -> [entry : {held[d].entry : d \in Callers},
                               writing : {"none", "line", "newline"}]]
  BY DEF Typed, CallsType, LogShape, HeldShape
<1>2. ASSUME NEW s \in Steps \ {"idle", "line", "newline", "provenance"}, call[c].step # "idle",
             s \in {"publish", "log", "check", "publish_rekor"} => call[c].payload \in Payload,
             Goto(c, s) \/ call' = [call EXCEPT ![c].step = s, ![c].imp = Draft, ![c].art = Passing({})],
             \A d \in Callers \ {c} : held'[d] = held[d], held'[c].writing = "none"
      PROVE  CallsType'
  <2>1. CASE Goto(c, s)
    <3> DEFINE new == [call[c] EXCEPT !.step = s]
    <3>1. new \in Call /\ new.step = s /\ new.req = call[c].req /\ new.payload = call[c].payload
      BY <1>1 DEF Call
    <3>2. call' = [call EXCEPT ![c] = new]
      BY <2>1 DEF Goto
    <3> QED BY <1>1, <1>2, <3>1, <3>2, <1>0, CallsTypeStep
  <2>2. CASE call' = [call EXCEPT ![c].step = s, ![c].imp = Draft, ![c].art = Passing({})]
    <3> DEFINE new == [call[c] EXCEPT !.step = s, !.imp = Draft, !.art = Passing({})]
    <3>1. new \in Call /\ new.step = s /\ new.req = call[c].req /\ new.payload = call[c].payload
      BY <1>1, Constants DEF Call
    <3>2. call' = [call EXCEPT ![c] = new]
      BY <2>2
    <3> QED BY <1>1, <1>2, <3>1, <3>2, <1>0, CallsTypeStep
  <2> QED BY <1>2, <2>1, <2>2
<1>13. ASSUME NEW s \in {"ok", "failed", "crashed"}, call[c].step # "idle", Return(c, s),
              \A d \in Callers \ {c} : held'[d] = held[d], held'[c].writing = "none"
       PROVE  CallsType'
  BY <1>2, <1>13 DEF Return, Steps
<1>14. ASSUME NEW s \in {"log", "truncate_manifest"}, call[c].step # "idle", Goto(c, s),
              s = "log" => call[c].payload \in Payload,
              \A d \in Callers \ {c} : held'[d] = held[d], held'[c].writing = "none"
       PROVE  CallsType'
  BY <1>2, <1>14 DEF Steps
<1>3. ASSUME call[c].step \notin {"line", "newline"}, UNCHANGED logVars
      PROVE  (\A d \in Callers \ {c} : held'[d] = held[d]) /\ held'[c].writing = "none"
  BY <1>1, <1>3 DEF logVars
<1>4. CASE Arrive(c)
  <2>1. PICK r \in Request :
          call' = [call EXCEPT ![c].req = r,
                               ![c].step = IF r.cmd = "install" THEN "truncate_manifest" ELSE "find"]
    BY <1>4 DEF Arrive
  <2> DEFINE new == [call[c] EXCEPT !.req = r,
                       !.step = IF r.cmd = "install" THEN "truncate_manifest" ELSE "find"]
  <2>2. new \in Call /\ new.req = r /\ new.step \in {"truncate_manifest", "find"}
    BY <1>1 DEF Call, Steps
  <2>3. call' = [call EXCEPT ![c] = new]
    BY <2>1
  <2>4. held' = held /\ held[c].writing = "none"
    BY <1>3, <1>4 DEF Arrive, logVars
  <2> QED BY <2>2, <2>3, <2>4, <1>0, CallsTypeStep
<1>5. CASE Find(c)
  <2>1. held' = held /\ held[c].writing = "none" /\ call[c].step = "find"
    BY <1>3, <1>5 DEF Find, logVars
  <2>2. CASE Fail(c)
    BY <1>13, <2>1, <2>2 DEF Fail
  <2>3. ASSUME NEW s \in {"lock", "provenance", "truncate_artifact"}, NEW m \in Manifest,
               NEW e \in Evidence, FoundBy(c, s, m, e), s = "provenance" => Cmd(c) = "admit"
        PROVE  CallsType'
    <3> DEFINE new == [call[c] EXCEPT !.step = s, !.imp = m, !.art = e]
    <3>1. new \in Call /\ new.req = call[c].req /\ new.step = s
      BY <1>1 DEF Call, Steps
    <3>2. call' = [call EXCEPT ![c] = new]
      BY <2>3 DEF FoundBy
    <3> QED BY <1>1, <2>1, <2>3, <3>1, <3>2, <1>0, CallsTypeStep DEF Cmd
  <2>4. CASE Accepts(c)
    <3>1. Mine(c) \in Impls /\ call[c].req.target \in {"conformant", "admitted"}
          /\ call[c].req \in Request
      BY <1>1, <2>1, RequestType DEF Mine
    <3>2. manifest[Mine(c)] \in Manifest
      BY <2>4, <3>1 DEF Accepts, Listable, Typed, FilesType
    <3>3. CASE FoundByPromote(c, manifest[Mine(c)])
      <4>1. PICK passed \in SUBSET {"benchmark", "security"} :
              FoundBy(c, "lock", PromotedManifest(manifest[Mine(c)],
                                   PromotedAxes(manifest[Mine(c)].axes, passed),
                                   call[c].req.target),
                      PromotedAxes(manifest[Mine(c)].axes, passed))
        BY <3>3 DEF FoundByPromote
      <4>2. PromotedAxes(manifest[Mine(c)].axes, passed) \in Evidence
        BY <3>2, Constants
      <4>3. PromotedManifest(manifest[Mine(c)], PromotedAxes(manifest[Mine(c)].axes, passed),
                             call[c].req.target) \in Manifest
        BY <3>1, <3>2, <4>2, Constants
      <4> QED BY <2>3, <4>1, <4>2, <4>3
    <3>4. CASE FoundByAdmit(c, manifest[Mine(c)])
      BY <2>3, <3>1, <3>2, <3>4, Constants DEF FoundByAdmit
    <3>5. CASE FoundByMint(c, manifest[Mine(c)])
      BY <2>3, <3>1, <3>2, <3>5, Constants DEF FoundByMint
    <3>6. CASE FoundByAttesting(c)
      <4>1. CASE call[c].req.apply
        <5>1. PICK now \in Seconds :
                call' = [call EXCEPT ![c].step = IF Cmd(c) = "rekor" THEN "log" ELSE "publish",
                                     ![c].payload = Signed(c, now)]
          BY <3>6, <4>1 DEF FoundByAttesting
        <5> DEFINE new == [call[c] EXCEPT !.step = IF Cmd(c) = "rekor" THEN "log" ELSE "publish",
                                          !.payload = Signed(c, now)]
        <5>2. Signed(c, now) \in Payload
          BY <3>1 DEF Signed, Payload
        <5>3. new \in Call /\ new.req = call[c].req /\ new.step \in {"log", "publish"}
              /\ new.payload \in Payload
          BY <1>1, <5>2 DEF Call, Steps
        <5>4. call' = [call EXCEPT ![c] = new]
          BY <5>1
        <5> QED BY <1>1, <2>1, <5>3, <5>4, <1>0, CallsTypeStep
      <4>2. CASE ~call[c].req.apply
        <5>1. Return(c, "ok")
          BY <3>6, <4>2 DEF FoundByAttesting
        <5> QED BY <1>13, <2>1, <5>1
      <4> QED BY <4>1, <4>2
    <3>7. Fail(c) \/ \/ FoundByPromote(c, manifest[Mine(c)])
                     \/ FoundByAdmit(c, manifest[Mine(c)])
                     \/ FoundByMint(c, manifest[Mine(c)])
                     \/ FoundByAttesting(c)
      BY <1>5 DEF Find
    <3> QED BY <2>2, <3>3, <3>4, <3>5, <3>6, <3>7
  <2> QED BY <1>5, <2>2, <2>4 DEF Find
<1>6. CASE ReplaceManifest(c)
  <2> DEFINE new == [call[c] EXCEPT
               !.step = IF call[c].req.target = "admitted" THEN "provenance" ELSE "log",
               !.payload = [impl |-> Mine(c), at |-> Nothing]]
  <2>1. held' = held /\ held[c].writing = "none" /\ call[c].step = "manifest"
    BY <1>3, <1>6 DEF ReplaceManifest, logVars
  <2>2. [impl |-> Mine(c), at |-> Nothing] \in Payload
    BY <1>1, <2>1, RequestType DEF Payload, Mine
  <2>3. new \in Call /\ new.req = call[c].req /\ new.step \in {"provenance", "log"}
        /\ new.payload \in Payload
    BY <1>1, <2>2 DEF Call, Steps
  <2>4. call' = [call EXCEPT ![c] = new]
    BY <1>6 DEF ReplaceManifest
  <2> QED BY <1>1, <2>1, <2>3, <2>4, <1>0, CallsTypeStep
<1>7. CASE \/ Acquire(c) \/ TruncateArtifact(c) \/ FillArtifact(c) \/ TruncateManifest(c)
           \/ FillManifest(c) \/ PublishAttestation(c) \/ PublishBundle(c) \/ LogRefused(c)
           \/ CheckLine(c) \/ PublishRekor(c) \/ End(c)
  <2>1. call[c].step \notin {"idle", "line", "newline"} /\ UNCHANGED logVars
    BY <1>7 DEF Acquire, TruncateArtifact, FillArtifact, TruncateManifest, FillManifest,
       PublishAttestation, PublishBundle, LogRefused, CheckLine, PublishRekor, End
  <2>2. (\A d \in Callers \ {c} : held'[d] = held[d]) /\ held'[c].writing = "none"
    BY <1>3, <2>1
  <2>3. ASSUME NEW s \in {"truncate_artifact", "fill_artifact", "manifest", "fill_manifest",
                           "end", "ok", "failed"},
               Goto(c, s) \/ call' = [call EXCEPT ![c].step = s, ![c].imp = Draft, ![c].art = Passing({})]
        PROVE  CallsType'
    BY <1>2, <2>1, <2>2, <2>3 DEF Steps
  <2>14. ASSUME NEW s \in {"log", "check", "publish_rekor"}, Goto(c, s),
                call[c].step \in {"publish", "log", "check", "publish_rekor"}
        PROVE  CallsType'
    BY <1>1, <1>2, <2>1, <2>2, <2>14 DEF Steps
  <2>4. ASSUME NEW s \in {"ok", "failed"}, Return(c, s) PROVE CallsType'
    BY <2>3, <2>4 DEF Return, Steps
  <2>5. CASE Acquire(c)
    BY <1>7, <2>3, <2>4, <2>5 DEF Acquire, Fail, Steps
  <2>6. CASE TruncateArtifact(c)
    BY <2>3, <2>6 DEF TruncateArtifact, Steps
  <2>7. CASE FillArtifact(c)
    BY <2>3, <2>4, <2>7 DEF FillArtifact, Steps
  <2>8. CASE TruncateManifest(c)
    BY <2>3, <2>8 DEF TruncateManifest, Steps
  <2>9. CASE FillManifest(c) \/ End(c)
    BY <2>4, <2>9 DEF FillManifest, End
  <2>10. CASE PublishAttestation(c) \/ PublishBundle(c)
    BY <2>14, <2>10 DEF PublishAttestation, PublishBundle, Steps
  <2>11. CASE LogRefused(c)
    BY <2>4, <2>11 DEF LogRefused, Fail
  <2>12. CASE CheckLine(c)
    BY <2>14, <2>4, <2>12 DEF CheckLine, Fail, Steps
  <2>13. CASE PublishRekor(c)
    BY <2>3, <2>13 DEF PublishRekor, Steps
  <2> QED BY <1>7, <2>5, <2>6, <2>7, <2>8, <2>9, <2>10, <2>11, <2>12, <2>13
<1>8. CASE WriteProvenance(c)
  <2>1. call[c].step = "provenance" /\ UNCHANGED logVars
    BY <1>8 DEF WriteProvenance
  <2>2. (\A d \in Callers \ {c} : held'[d] = held[d]) /\ held'[c].writing = "none"
    BY <1>3, <2>1
  <2> QED BY <1>1, <1>13, <1>14, <1>8, <2>1, <2>2 DEF WriteProvenance, Cmd
<1>9. CASE BeginLog(c)
  <2> DEFINE new == [call[c] EXCEPT !.step = "line"]
  <2>1. call[c].step = "log" /\ call' = [call EXCEPT ![c] = new]
    BY <1>9 DEF BeginLog, Goto
  <2>2. new \in Call /\ new.req = call[c].req /\ new.step = "line" /\ new.payload = call[c].payload
    BY <1>1 DEF Call, Steps
  <2>3. held'[c].writing = "line" /\ \A d \in Callers \ {c} : held'[d] = held[d]
    BY <1>1, <1>9 DEF BeginLog, ReadLog
  <2> QED BY <1>0, <1>1, <2>1, <2>2, <2>3, CallsTypeStep
<1>10. CASE LogLine(c)
  <2> DEFINE new == [call[c] EXCEPT !.step = "newline"]
  <2>1. call[c].step = "line" /\ call' = [call EXCEPT ![c] = new]
    BY <1>10 DEF LogLine, Goto
  <2>2. new \in Call /\ new.req = call[c].req /\ new.step = "newline"
        /\ new.payload = call[c].payload
    BY <1>1 DEF Call, Steps
  <2>3. held'[c].writing = "newline" /\ \A d \in Callers \ {c} : held'[d] = held[d]
    BY <1>1, <1>10 DEF LogLine, WriteLine
  <2> QED BY <1>0, <1>1, <2>1, <2>2, <2>3, CallsTypeStep
<1>11. CASE LogNewline(c)
  <2> DEFINE new == [call[c] EXCEPT !.step = IF Cmd(c) = "rekor" THEN "check" ELSE "end",
                                    !.index = held[c].entry.seq]
  <2>1. call[c].step = "newline" /\ call' = [call EXCEPT ![c] = new]
    BY <1>11 DEF LogNewline
  <2>2. held[c].entry.seq \in Nat
    BY <1>1, <2>1 DEF Typed, LogShape, HeldShape, Appending
  <2>3. new \in Call /\ new.req = call[c].req /\ new.step \in {"check", "end"}
        /\ new.payload = call[c].payload
    BY <1>1, <2>2 DEF Call, Steps
  <2>4. held'[c].writing = "none" /\ \A d \in Callers \ {c} : held'[d] = held[d]
    BY <1>1, <1>11 DEF LogNewline, WriteNewline, NotAppending
  <2> QED BY <1>0, <1>1, <2>1, <2>3, <2>4, CallsTypeStep
<1>12. CASE Crash(c)
  <2>1. call[c].step # "idle" /\ Return(c, "crashed")
    BY <1>12 DEF Crash
  <2>2. held'[c].writing = "none" /\ \A d \in Callers \ {c} : held'[d] = held[d]
    BY <1>1, <1>12 DEF Crash, AbandonAppend, NotAppending
  <2> QED BY <1>13, <2>1, <2>2
<1> QED
  BY <1>4, <1>5, <1>6, <1>7, <1>8, <1>9, <1>10, <1>11, <1>12 DEF Step

LEMMA TypedStep == Typed /\ [Next]_vars => Typed'
<1> SUFFICES ASSUME Typed, [Next]_vars PROVE Typed'
  OBVIOUS
<1>1. ASSUME NEW c \in Callers, Step(c) \/ Crash(c) PROVE Typed'
  <2>1. FilesType' /\ CallsType'
    BY <1>1, FilesTypeStep, CallsTypeKept
  <2>2. LogShape'
    <3>1. CASE LogStep(c)
      BY <3>1, ShapeStep DEF Typed
    <3>2. CASE UNCHANGED logVars
      BY <3>2 DEF Typed, logVars, LogShape, LinesShape, HeldShape, Appending
    <3> QED BY <1>1, <3>1, <3>2, OneActs
  <2> QED BY <2>1, <2>2 DEF Typed
<1>2. CASE UNCHANGED vars
  BY <1>2 DEF vars, registry, logVars, Typed, FilesType, CallsType, LogShape, LinesShape,
              HeldShape, Appending
<1> QED BY <1>1, <1>2 DEF Next

LEMMA TypedAlways == Spec => []Typed
BY TypedInit, TypedStep, PTL DEF Spec

\* THEOREM: the files and calls keep their types, whatever the commands do.
THEOREM RegistryTypeCorrect == Spec => []TypeOK
<1>1. Typed => TypeOK
  BY DEF Typed, FilesType, CallsType, Call, TypeOK
<1> QED BY <1>1, TypedAlways, PTL

\* THEOREM: no command, dead or alive, mends a log that does not verify.
THEOREM RegistryDamageStays == Spec => DamageIsPermanent
<1>1. Typed /\ [Next]_vars => [~Verifies(log) => ~Verifies(log')]_logVars
  <2> SUFFICES ASSUME Typed, [Next]_vars, ~Verifies(log), ~UNCHANGED logVars
               PROVE  ~Verifies(log')
    OBVIOUS
  <2>1. PICK c \in Callers : Step(c) \/ Crash(c)
    BY DEF Next, vars
  <2>2. LogStep(c)
    BY <2>1, OneActs
  <2> QED BY <2>2, DamageStays DEF Typed, LogShape
<1> QED BY <1>1, TypedAlways, PTL DEF Spec, DamageIsPermanent

-----------------------------------------------------------------------------
(* The lock, and what it keeps apart *)

InLock == {"truncate_artifact", "fill_artifact", "manifest", "provenance", "log", "line",
           "newline", "end"}

\* Only promotions take the lock; a promotion between its lock and its end has
\* the lock file, and a lock file is that of such a promotion or of a dead one.
LockInv ==
  /\ \A c \in Callers :
       /\ call[c].step \in {"lock", "manifest"} => Cmd(c) = "promote"
       /\ call[c].step \in {"check", "publish_rekor"} => Cmd(c) # "promote"
  /\ \A c \in Callers :
       call[c].step \in InLock /\ Cmd(c) = "promote" => lock = c
  /\ lock # Nothing =>
       Cmd(lock) = "promote" /\ call[lock].step \in InLock \cup {"crashed"}

\* A command changes nothing of another one.
LEMMA OneCall ==
  ASSUME Typed, NEW c \in Callers, Step(c) \/ Crash(c)
  PROVE  /\ \A d \in Callers \ {c} : call'[d] = call[d] /\ held'[d] = held[d]
         /\ call[c].step # "idle" => call'[c].req = call[c].req
<1>1. call \in [Callers -> Call] /\ \A d \in Callers : call[d] \in Call
  BY DEF Typed, CallsType
<1>2. \A d \in Callers \ {c} : held'[d] = held[d]
  BY DEF Typed, LogShape, HeldShape, Step, Arrive, Find, Acquire, TruncateArtifact,
     FillArtifact, ReplaceManifest, WriteProvenance, TruncateManifest, FillManifest,
     PublishAttestation, PublishBundle, BeginLog, LogRefused, LogLine, LogNewline, CheckLine,
     PublishRekor, End, Crash, logVars, ReadLog, WriteLine, WriteNewline, AbandonAppend
<1>3. CASE Arrive(c)
  BY <1>1, <1>2, <1>3 DEF Arrive, At
<1>4. ASSUME NEW s, Goto(c, s) \/ Return(c, s)
      PROVE  (\A d \in Callers \ {c} : call'[d] = call[d]) /\ call'[c].req = call[c].req
  BY <1>1, <1>4 DEF Goto, Return, Call
<1>5. ASSUME NEW s, NEW m, NEW e, FoundBy(c, s, m, e)
      PROVE  (\A d \in Callers \ {c} : call'[d] = call[d]) /\ call'[c].req = call[c].req
  BY <1>1, <1>5 DEF FoundBy, Call
<1>6. CASE Find(c)
  <2>1. CASE FoundByAttesting(c)
    <3>1. CASE call[c].req.apply
      <4>1. PICK now \in Seconds :
              call' = [call EXCEPT ![c].step = IF Cmd(c) = "rekor" THEN "log" ELSE "publish",
                                   ![c].payload = Signed(c, now)]
        BY <2>1, <3>1 DEF FoundByAttesting
      <4> QED BY <1>1, <1>2, <4>1 DEF Call
    <3>2. CASE ~call[c].req.apply
      BY <1>2, <1>4, <2>1, <3>2 DEF FoundByAttesting
    <3> QED BY <3>1, <3>2
  <2>2. CASE Fail(c)
    BY <1>2, <1>4, <2>2 DEF Fail
  <2> QED BY <1>2, <1>5, <1>6, <2>1, <2>2 DEF Find, FoundByPromote, FoundByAdmit, FoundByMint
<1>7. CASE ReplaceManifest(c)
  BY <1>1, <1>2, <1>7 DEF ReplaceManifest, Call
<1>8. CASE LogNewline(c)
  BY <1>1, <1>2, <1>8 DEF LogNewline, Call
<1>9. CASE \/ Acquire(c) \/ TruncateArtifact(c) \/ FillArtifact(c) \/ WriteProvenance(c)
           \/ TruncateManifest(c) \/ FillManifest(c) \/ PublishAttestation(c) \/ PublishBundle(c)
           \/ BeginLog(c) \/ LogRefused(c) \/ LogLine(c) \/ CheckLine(c) \/ PublishRekor(c)
           \/ End(c) \/ Crash(c)
  BY <1>2, <1>4, <1>9, Zenon DEF Acquire, TruncateArtifact, FillArtifact, WriteProvenance,
     TruncateManifest, FillManifest, PublishAttestation, PublishBundle, BeginLog, LogRefused,
     LogLine, CheckLine, PublishRekor, End, Crash, Fail
<1> QED BY <1>3, <1>6, <1>7, <1>8, <1>9 DEF Step

\* Where a command goes from its first step.
LEMMA FindStep ==
  ASSUME Typed, NEW c \in Callers, Find(c)
  PROVE  /\ call'[c].step \in IF Cmd(c) = "promote" THEN {"lock", "failed"}
                              ELSE {"provenance", "truncate_artifact", "log", "publish", "ok", "failed"}
         /\ Fail(c) \/ UNCHANGED lock
<1>1. call \in [Callers -> Call] /\ call[c] \in Call
  BY DEF Typed, CallsType
<1>2. ASSUME NEW s, NEW m, NEW e, FoundBy(c, s, m, e) PROVE call'[c].step = s
  BY <1>1, <1>2 DEF FoundBy, Call
<1>3. CASE Fail(c)
  BY <1>1, <1>3 DEF Fail, Return, Call
<1>4. CASE FoundByAttesting(c)
  <2>1. Cmd(c) # "promote"
    BY <1>4 DEF FoundByAttesting, Attesting
  <2>2. CASE call[c].req.apply
    <3>1. PICK now \in Seconds :
            call' = [call EXCEPT ![c].step = IF Cmd(c) = "rekor" THEN "log" ELSE "publish",
                                 ![c].payload = Signed(c, now)]
      BY <1>4, <2>2 DEF FoundByAttesting
    <3>2. call'[c].step \in {"log", "publish"}
      BY <1>1, <3>1 DEF Call
    <3> QED BY <1>4, <2>1, <3>2 DEF Find
  <2>3. CASE ~call[c].req.apply
    <3>1. Return(c, "ok")
      BY <1>4, <2>3 DEF FoundByAttesting
    <3>2. call'[c].step = "ok"
      BY <1>1, <3>1 DEF Return, Call
    <3> QED BY <1>4, <2>1, <3>2 DEF Find
  <2>4. Fail(c) \/ UNCHANGED lock
    BY DEF Find
  <2> QED BY <2>2, <2>3, <2>4
<1>5. CASE FoundByPromote(c, manifest[Mine(c)])
  <2>1. Cmd(c) = "promote" /\ call'[c].step = "lock"
    BY <1>2, <1>5 DEF FoundByPromote
  <2> QED BY <2>1 DEF Find
<1>6. CASE FoundByAdmit(c, manifest[Mine(c)])
  <2>1. Cmd(c) = "admit" /\ call'[c].step = "provenance"
    BY <1>2, <1>6 DEF FoundByAdmit
  <2> QED BY <2>1 DEF Find
<1>7. CASE FoundByMint(c, manifest[Mine(c)])
  <2>1. Cmd(c) = "mint" /\ call'[c].step = "truncate_artifact"
    BY <1>2, <1>7 DEF FoundByMint
  <2> QED BY <2>1 DEF Find
<1> QED BY <1>3, <1>4, <1>5, <1>6, <1>7 DEF Find

LEMMA LockStep ==
  ASSUME Typed, LockInv, NEW c \in Callers, Step(c) \/ Crash(c)
  PROVE  LockInv'
<1>1. /\ call[c] \in Call /\ DOMAIN call = Callers
      /\ lock \in Callers \cup {Nothing} /\ Nothing \notin Callers
  BY NothingIsNoCaller DEF Typed, CallsType, FilesType
<1>2. /\ \A d \in Callers \ {c} : call'[d] = call[d]
      /\ call[c].step # "idle" => call'[c].req = call[c].req
  BY OneCall
<1>3. ASSUME lock' = lock, call[c].step # "idle",
             call'[c].step \in InLock => call[c].step \in InLock \/ Cmd(c) # "promote",
             call[c].step \in InLock /\ Cmd(c) = "promote" =>
               call'[c].step \in InLock \cup {"crashed"},
             call'[c].step \in {"lock", "manifest"} => Cmd(c) = "promote",
             call'[c].step \in {"check", "publish_rekor"} => Cmd(c) # "promote",
             call[c].step # "crashed"
      PROVE  LockInv'
  BY <1>1, <1>2, <1>3 DEF LockInv, Cmd
<1>4. ASSUME call[c].step # "idle", call[c].step # "crashed", Unlock(c),
             call'[c].step \notin InLock \cup {"lock", "check", "publish_rekor"}
      PROVE  LockInv'
  <2>1. CASE lock = c
    BY <1>1, <1>2, <1>4, <2>1 DEF LockInv, Cmd, Unlock
  <2>2. CASE lock # c
    BY <1>1, <1>2, <1>4, <2>2 DEF LockInv, Cmd, Unlock, InLock
  <2> QED BY <2>1, <2>2
<1>20. ASSUME NEW s, Goto(c, s) \/ Return(c, s) PROVE call'[c].step = s
  BY <1>1, <1>20 DEF Goto, Return, Call, Typed, CallsType
<1> USE DEF At, InLock
<1>5. CASE Arrive(c)
  BY <1>1, <1>2, <1>5 DEF Arrive, LockInv, Cmd
<1>6. CASE Find(c)
  <2>1. /\ call[c].step = "find"
        /\ Fail(c) \/ UNCHANGED lock
        /\ call'[c].step \in IF Cmd(c) = "promote" THEN {"lock", "failed"}
              ELSE {"provenance", "truncate_artifact", "log", "publish", "ok", "failed"}
    BY <1>6, FindStep DEF Find
  <2>2. CASE Fail(c)
    BY <1>1, <1>4, <2>1, <2>2 DEF Fail, Return, Call
  <2>3. CASE lock' = lock
    BY <1>3, <2>1, <2>3
  <2> QED BY <2>1, <2>2, <2>3
<1>7. CASE Acquire(c)
  <2>1. call[c].step = "lock"
    BY <1>7 DEF Acquire
  <2>2. CASE Fail(c)
    BY <1>1, <1>4, <2>1, <2>2 DEF Fail, Return
  <2>3. CASE lock = Nothing /\ lock' = c /\ Goto(c, "truncate_artifact")
    BY <1>1, <1>2, <2>1, <2>3 DEF LockInv, Cmd, Goto
  <2> QED BY <1>7, <2>2, <2>3 DEF Acquire
<1>8. CASE TruncateArtifact(c)
  BY <1>1, <1>20, <1>3, <1>8 DEF TruncateArtifact
<1>9. CASE FillArtifact(c)
  BY <1>1, <1>20, <1>3, <1>9 DEF FillArtifact
<1>10. CASE ReplaceManifest(c)
  BY <1>1, <1>20, <1>3, <1>10 DEF ReplaceManifest
<1>11. CASE WriteProvenance(c)
  BY <1>1, <1>20, <1>3, <1>11 DEF WriteProvenance
<1>12. CASE TruncateManifest(c) \/ FillManifest(c)
  BY <1>1, <1>20, <1>3, <1>12 DEF TruncateManifest, FillManifest
<1>13. CASE PublishAttestation(c) \/ PublishBundle(c)
  BY <1>1, <1>20, <1>3, <1>13 DEF PublishAttestation, PublishBundle
<1>14. CASE BeginLog(c) \/ LogLine(c)
  BY <1>1, <1>20, <1>3, <1>14 DEF BeginLog, LogLine
<1>21. CASE LogNewline(c)
  <2>1. call'[c].step \in {"check", "end"}
    BY <1>1, <1>21 DEF LogNewline, Call
  <2>2. call[c].step = "newline" /\ lock' = lock /\ (call'[c].step = "check" => Cmd(c) = "rekor")
    BY <1>1, <1>21 DEF LogNewline, Call
  <2> QED BY <1>3, <2>1, <2>2
<1>15. CASE LogRefused(c)
  BY <1>1, <1>20, <1>4, <1>15 DEF LogRefused, Fail
<1>16. CASE CheckLine(c)
  <2>1. CASE Fail(c)
    BY <1>1, <1>20, <1>4, <1>16, <2>1 DEF CheckLine, Fail
  <2>2. CASE Goto(c, "publish_rekor") /\ lock' = lock
    BY <1>1, <1>20, <1>3, <1>16, <2>2 DEF CheckLine, LockInv
  <2> QED BY <1>16, <2>1, <2>2 DEF CheckLine
<1>17. CASE PublishRekor(c)
  BY <1>1, <1>20, <1>3, <1>17 DEF PublishRekor, LockInv
<1>18. CASE End(c)
  BY <1>1, <1>20, <1>4, <1>18 DEF End
<1>19. CASE Crash(c)
  BY <1>1, <1>20, <1>3, <1>19 DEF Crash, Over
<1> QED
  BY <1>5, <1>6, <1>7, <1>8, <1>9, <1>10, <1>11, <1>12, <1>13, <1>14, <1>15, <1>16, <1>17,
     <1>21, <1>18, <1>19 DEF Step

\* An entry on its way is of the command of its caller; two promotions never
\* append at the same time.
RaceInv ==
  /\ \A c \in Callers : Appending(c) => held[c].entry.kind = Cmd(c)
  /\ {"promote"} \notin raced

LEMMA RaceStep ==
  ASSUME Typed, LockInv, RaceInv, NEW c \in Callers, Step(c) \/ Crash(c)
  PROVE  RaceInv'
<1>1. /\ \A d \in Callers \ {c} : call'[d] = call[d] /\ held'[d] = held[d]
      /\ call[c].step # "idle" => call'[c].req = call[c].req
  BY OneCall
<1>2. /\ \A d \in Callers : Appending(d) <=> call[d].step \in {"line", "newline"}
      /\ \A d \in Callers : held[d].writing \in {"none", "line", "newline"}
      /\ DOMAIN held = Callers
  BY DEF Typed, CallsType, LogShape, HeldShape, Appending
<1>3. ASSUME Appending(c)' => held'[c].entry.kind = Cmd(c) /\ call[c].step # "idle"
      PROVE  \A d \in Callers : Appending(d)' => held'[d].entry.kind = Cmd(d)'
  BY <1>1, <1>3 DEF RaceInv, Appending, Cmd
<1>4. CASE BeginLog(c)
  <2>1. call[c].step = "log" /\ ReadLog(c, Cmd(c), Mine(c), call[c].payload)
    BY <1>4 DEF BeginLog, At
  <2>2. held'[c].entry.kind = Cmd(c)
    BY <1>2, <2>1 DEF ReadLog, NextEntry
  <2>3. ASSUME NEW d \in Callers, Appending(d), {Cmd(c), held[d].entry.kind} = {"promote"}
        PROVE  FALSE
    <3>1. Cmd(c) = "promote" /\ Cmd(d) = "promote"
      BY <2>3 DEF RaceInv
    <3>2. lock = c
      BY <2>1, <3>1 DEF LockInv, InLock
    <3>3. lock = d
      BY <1>2, <2>3, <3>1 DEF LockInv, InLock
    <3> QED BY <1>2, <2>1, <2>3, <3>2, <3>3
  <2>4. raced' = raced \cup {{Cmd(c), held[d].entry.kind} : d \in {e \in Callers : Appending(e)}}
    BY <2>1 DEF ReadLog
  <2>5. {"promote"} \notin raced'
    BY <2>3, <2>4 DEF RaceInv
  <2> QED BY <1>3, <2>1, <2>2, <2>5 DEF RaceInv
<1>5. CASE LogLine(c)
  <2>1. /\ call[c].step = "line" /\ raced' = raced
        /\ held' = [held EXCEPT ![c].writing = "newline"] /\ held[c].writing = "line"
    BY <1>5 DEF LogLine, WriteLine, At
  <2>2. held'[c].entry = held[c].entry
    BY <1>2, <2>1 DEF Typed, LogShape, HeldShape
  <2> QED BY <1>3, <2>1, <2>2 DEF RaceInv, Appending
<1>6. CASE LogNewline(c) \/ Crash(c)
  <2>1. held'[c].writing = "none" /\ raced' = raced
    BY <1>2, <1>6 DEF LogNewline, Crash, WriteNewline, AbandonAppend, NotAppending
  <2> QED BY <1>3, <2>1 DEF RaceInv, Appending
<1>7. CASE UNCHANGED logVars
  <2>1. held' = held /\ raced' = raced /\ (Appending(c) => call[c].step # "idle")
    BY <1>2, <1>7 DEF logVars
  <2> QED BY <1>3, <2>1 DEF RaceInv, Appending
<1> QED
  BY <1>4, <1>5, <1>6, <1>7 DEF Step, Arrive, Find, Acquire, TruncateArtifact, FillArtifact,
     ReplaceManifest, WriteProvenance, TruncateManifest, FillManifest, PublishAttestation,
     PublishBundle, LogRefused, CheckLine, PublishRekor, End

-----------------------------------------------------------------------------
(* Reviews *)

Unreviewed(i) == manifest[i] # Torn /\ manifest[i].status = "admitted" /\ ~provenance[i]

\* An admitted manifest without its record is that of the promotion that has
\* the lock, which writes the record next or died before it.  A command that is
\* about to write an admitted manifest outside the lock has written the record.
ReviewInv ==
  /\ \A i \in Impls : Unreviewed(i) =>
       lock # Nothing /\ Mine(lock) = i /\ call[lock].step \in {"provenance", "crashed"}
  /\ \A c \in Callers :
       /\ call[c].step = "idle" => call[c].imp = Draft
       /\ /\ call[c].step \in {"truncate_manifest", "fill_manifest"}
          /\ call[c].imp.status = "admitted"
          => provenance[Mine(c)]
       /\ /\ call[c].step \in {"lock", "truncate_artifact", "fill_artifact", "manifest"}
          /\ Cmd(c) = "promote"
          => call[c].imp.status = call[c].req.target

LEMMA ReviewStep ==
  ASSUME Typed, LockInv, ReviewInv, NEW c \in Callers, Step(c) \/ Crash(c)
  PROVE  ReviewInv'
<1>1. /\ \A d \in Callers \ {c} : call'[d] = call[d] /\ held'[d] = held[d]
      /\ call[c].step # "idle" => call'[c].req = call[c].req
  BY OneCall
<1>2. /\ DOMAIN manifest = Impls /\ DOMAIN provenance = Impls /\ DOMAIN call = Callers
      /\ call[c] \in Call
      /\ \A d \in Callers : call[d].step # "idle" => Mine(d) \in Impls
      /\ lock \in Callers \cup {Nothing} /\ Nothing \notin Callers
  BY NothingIsNoCaller, RequestType DEF Typed, FilesType, CallsType, Mine
\* The three parts of the invariant for the command that moves.
<1> DEFINE MyCall ==
      /\ call[c].step = "idle" => call[c].imp = Draft
      /\ /\ call[c].step \in {"truncate_manifest", "fill_manifest"}
         /\ call[c].imp.status = "admitted"
         => provenance[Mine(c)]
      /\ /\ call[c].step \in {"lock", "truncate_artifact", "fill_artifact", "manifest"}
         /\ Cmd(c) = "promote"
         => call[c].imp.status = call[c].req.target
<1>3. ASSUME MyCall', \A i \in Impls : provenance[i] => provenance'[i],
             \A i \in Impls : Unreviewed(i)' =>
               lock' # Nothing /\ Mine(lock)' = i /\ call'[lock'].step \in {"provenance", "crashed"}
      PROVE  ReviewInv'
  <2>1. \A d \in Callers \ {c} :
          /\ call'[d].step = "idle" => call'[d].imp = Draft
          /\ /\ call'[d].step \in {"truncate_manifest", "fill_manifest"}
             /\ call'[d].imp.status = "admitted"
             => provenance'[Mine(d)']
          /\ /\ call'[d].step \in {"lock", "truncate_artifact", "fill_artifact", "manifest"}
             /\ Cmd(d)' = "promote"
             => call'[d].imp.status = call'[d].req.target
    BY <1>1, <1>2, <1>3 DEF ReviewInv, Mine, Cmd
  <2> QED BY <1>3, <2>1 DEF ReviewInv
\* While its files are left alone, a promotion without its record stays where it is.
<1>4. ASSUME \A i \in Impls : Unreviewed(i)' => Unreviewed(i),
             call[c].step # "provenance",
             lock' = lock \/ lock = Nothing \/ (lock = c /\ call[c].step # "crashed")
      PROVE  \A i \in Impls : Unreviewed(i)' =>
               lock' # Nothing /\ Mine(lock)' = i /\ call'[lock'].step \in {"provenance", "crashed"}
  <2> SUFFICES ASSUME NEW i \in Impls, Unreviewed(i)'
               PROVE  lock' # Nothing /\ Mine(lock)' = i
                      /\ call'[lock'].step \in {"provenance", "crashed"}
    OBVIOUS
  <2>1. lock # Nothing /\ Mine(lock) = i /\ call[lock].step \in {"provenance", "crashed"}
    BY <1>4 DEF ReviewInv
  <2>2. call[c].step # "crashed"
    BY DEF Step, Arrive, Find, Acquire, TruncateArtifact, FillArtifact, ReplaceManifest,
       WriteProvenance, TruncateManifest, FillManifest, PublishAttestation, PublishBundle,
       BeginLog, LogRefused, LogLine, LogNewline, CheckLine, PublishRekor, End, Crash, At, Over
  <2>3. lock # c /\ lock' = lock
    BY <1>4, <2>1, <2>2
  <2> QED BY <1>1, <1>2, <2>1, <2>3 DEF Mine
<1>5. ASSUME NEW s, Goto(c, s) PROVE call'[c].step = s /\ call'[c].imp = call[c].imp
  BY <1>2, <1>5 DEF Goto, Call, Typed, CallsType
<1>6. ASSUME NEW s, Return(c, s) PROVE call'[c].step = s
  BY <1>2, <1>6 DEF Return, Call, Typed, CallsType
<1>7. ASSUME Unlock(c) PROVE lock' = lock \/ lock = c
  BY <1>7 DEF Unlock
<1>8. ASSUME UNCHANGED <<manifest, provenance>>
      PROVE  /\ \A i \in Impls : provenance[i] => provenance'[i]
             /\ \A i \in Impls : Unreviewed(i)' => Unreviewed(i)
  BY <1>8 DEF Unreviewed
<1> USE DEF At
<1>9. CASE Arrive(c)
  <2>1. PICK r \in Request :
          call' = [call EXCEPT ![c].req = r,
                               ![c].step = IF r.cmd = "install" THEN "truncate_manifest" ELSE "find"]
    BY <1>9 DEF Arrive
  <2>2. /\ call'[c].step \in {"truncate_manifest", "find"}
        /\ call'[c].imp = call[c].imp
    BY <1>2, <2>1 DEF Call
  <2>3. call[c].step = "idle" /\ UNCHANGED <<manifest, provenance, lock>>
    BY <1>9 DEF Arrive, registry
  <2>4. call'[c].imp.status = "candidate"
    BY <2>2, <2>3 DEF ReviewInv, Draft
  <2>5. MyCall'
    BY <2>2, <2>4
  <2> QED BY <1>3, <1>4, <1>8, <2>3, <2>5
<1>10. CASE Find(c)
  <2>1. /\ call[c].step = "find" /\ UNCHANGED <<manifest, provenance>>
        /\ call'[c].step \in IF Cmd(c) = "promote" THEN {"lock", "failed"}
              ELSE {"provenance", "truncate_artifact", "log", "publish", "ok", "failed"}
        /\ (Fail(c) \/ UNCHANGED lock)
        /\ call'[c].req = call[c].req
    BY <1>1, <1>10, FindStep DEF Find, registry
  <2>2. lock' = lock \/ lock = c
    BY <1>7, <2>1 DEF Fail
  <2>3. CASE Fail(c)
    <3>1. call'[c].step = "failed"
      BY <1>6, <2>3 DEF Fail
    <3>2. MyCall'
      BY <3>1
    <3> QED BY <1>3, <1>4, <1>8, <2>1, <2>2, <3>2
  <2>4. CASE FoundByPromote(c, manifest[Mine(c)])
    <3>1. PICK e : FoundBy(c, "lock", PromotedManifest(manifest[Mine(c)], e, call[c].req.target), e)
      BY <2>4 DEF FoundByPromote
    <3>4. call'[c].step = "lock"
          /\ call'[c].imp = PromotedManifest(manifest[Mine(c)], e, call[c].req.target)
      BY <1>2, <3>1 DEF FoundBy, Call
    <3>5. manifest[Mine(c)] \in Manifest
      <4>1. Accepts(c)
        <5>1. Fail(c) => call'[c].step = "failed"
          BY <1>6 DEF Fail
        <5> QED BY <1>10, <3>4, <5>1 DEF Find
      <4> QED BY <1>2, <2>1, <4>1 DEF Accepts, Listable, Typed, FilesType
    <3>6. call'[c].imp.status = call[c].req.target
      BY <3>4, <3>5 DEF PromotedManifest, Manifest
    <3>2. MyCall'
      BY <2>1, <3>4, <3>6
    <3> QED BY <1>3, <1>4, <1>8, <2>1, <2>2, <3>2
  <2>5. CASE Cmd(c) # "promote"
    <3>1. MyCall'
      BY <2>1, <2>5 DEF Cmd
    <3> QED BY <1>3, <1>4, <1>8, <2>1, <2>2, <3>1
  <2> QED BY <1>10, <2>3, <2>4, <2>5 DEF Find, FoundByAdmit, FoundByMint, FoundByAttesting, Attesting
<1>11. CASE Acquire(c)
  <2>1. call[c].step = "lock" /\ UNCHANGED <<manifest, provenance>>
    BY <1>11 DEF Acquire, registry
  <2>2. CASE Fail(c)
    <3>1. MyCall'
      BY <1>6, <2>2 DEF Fail
    <3>2. lock' = lock \/ lock = c
      BY <1>7, <2>2 DEF Fail
    <3> QED BY <1>3, <1>4, <1>8, <2>1, <3>1, <3>2
  <2>3. CASE lock = Nothing /\ Goto(c, "truncate_artifact")
    <3>1. MyCall'
      BY <1>1, <1>5, <2>1, <2>3 DEF ReviewInv, Cmd
    <3> QED BY <1>3, <1>4, <1>8, <2>1, <2>3, <3>1
  <2> QED BY <1>11, <2>2, <2>3 DEF Acquire
<1>12. CASE TruncateArtifact(c)
  <2>1. call[c].step = "truncate_artifact" /\ UNCHANGED <<manifest, provenance, lock>>
        /\ Goto(c, "fill_artifact")
    BY <1>12 DEF TruncateArtifact
  <2>2. MyCall'
    BY <1>1, <1>5, <2>1 DEF ReviewInv, Cmd
  <2> QED BY <1>3, <1>4, <1>8, <2>1, <2>2
<1>13. CASE FillArtifact(c)
  <2>1. call[c].step = "fill_artifact" /\ UNCHANGED <<manifest, provenance, lock>>
        /\ (Goto(c, "manifest") \/ Return(c, "ok"))
    BY <1>13 DEF FillArtifact
  <2>2. MyCall'
    BY <1>1, <1>5, <1>6, <2>1 DEF ReviewInv, Cmd
  <2> QED BY <1>3, <1>4, <1>8, <2>1, <2>2
<1>14. CASE ReplaceManifest(c)
  <2>1. /\ call[c].step = "manifest" /\ UNCHANGED <<provenance, lock>> /\ lock = c
        /\ manifest' = [manifest EXCEPT ![Mine(c)] = call[c].imp]
        /\ call[c].imp.status = call[c].req.target
    BY <1>14 DEF ReplaceManifest, LockInv, InLock, ReviewInv
  <2>2. /\ call'[c].step = IF call[c].req.target = "admitted" THEN "provenance" ELSE "log"
        /\ Mine(c)' = Mine(c)
    BY <1>1, <1>2, <1>14 DEF ReplaceManifest, Call, Mine
  <2>3. ASSUME NEW i \in Impls, Unreviewed(i)'
        PROVE  Mine(c)' = i /\ call'[c].step = "provenance"
    <3>1. CASE i = Mine(c)
      <4>1. call[c].imp.status = "admitted"
        BY <1>2, <2>1, <2>3, <3>1 DEF Unreviewed
      <4> QED BY <2>1, <2>2, <3>1, <4>1
    <3>2. CASE i # Mine(c)
      <4>1. Unreviewed(i)
        BY <1>2, <2>1, <2>3, <3>2 DEF Unreviewed
      <4> QED BY <2>1, <3>2, <4>1 DEF ReviewInv
    <3> QED BY <3>1, <3>2
  <2>4. MyCall'
    BY <2>2
  <2>5. \A i \in Impls : provenance[i] => provenance'[i]
    BY <2>1
  <2>6. Mine(lock)' = Mine(c)' /\ lock' # Nothing
    BY <1>2, <2>1 DEF Mine
  <2> QED BY <1>3, <2>1, <2>3, <2>4, <2>5, <2>6
<1>15. CASE WriteProvenance(c)
  <2>1. /\ call[c].step = "provenance" /\ UNCHANGED <<manifest, lock>>
        /\ provenance' = [provenance EXCEPT ![Mine(c)] = TRUE]
        /\ (Goto(c, "log") \/ Goto(c, "truncate_manifest") \/ Return(c, "ok"))
        /\ Mine(c) \in Impls
    BY <1>2, <1>15 DEF WriteProvenance, RecordReview
  <2>2. /\ provenance'[Mine(c)] /\ Mine(c)' = Mine(c)
        /\ \A i \in Impls \ {Mine(c)} : provenance'[i] = provenance[i]
    BY <1>1, <1>2, <2>1 DEF Mine
  <2>3. MyCall'
    <3>1. call'[c].step \in {"log", "truncate_manifest", "ok"}
      BY <1>5, <1>6, <2>1
    <3> QED BY <2>2, <3>1
  <2>4. ASSUME NEW i \in Impls, Unreviewed(i)'
        PROVE  lock' # Nothing /\ Mine(lock)' = i /\ call'[lock'].step \in {"provenance", "crashed"}
    <3>1. i # Mine(c) /\ Unreviewed(i)
      BY <2>1, <2>2, <2>4 DEF Unreviewed
    <3>2. lock # Nothing /\ Mine(lock) = i /\ call[lock].step \in {"provenance", "crashed"}
      BY <3>1 DEF ReviewInv
    <3> QED BY <1>1, <1>2, <2>1, <3>1, <3>2 DEF Mine
  <2>5. \A i \in Impls : provenance[i] => provenance'[i]
    BY <2>2
  <2> QED BY <1>3, <2>3, <2>4, <2>5
<1>16. CASE TruncateManifest(c)
  <2>1. /\ call[c].step = "truncate_manifest" /\ UNCHANGED <<provenance, lock>>
        /\ manifest' = [manifest EXCEPT ![Mine(c)] = Torn]
        /\ Goto(c, "fill_manifest")
    BY <1>16 DEF TruncateManifest
  <2>2. MyCall'
    BY <1>1, <1>5, <2>1 DEF ReviewInv, Mine, Cmd
  <2>3. \A i \in Impls : Unreviewed(i)' => Unreviewed(i)
    BY <1>2, <2>1 DEF Unreviewed
  <2> QED BY <1>3, <1>4, <2>1, <2>2, <2>3
<1>17. CASE FillManifest(c)
  <2>1. /\ call[c].step = "fill_manifest" /\ UNCHANGED <<provenance, lock>>
        /\ manifest' = [manifest EXCEPT ![Mine(c)] = call[c].imp]
        /\ Return(c, "ok")
    BY <1>17 DEF FillManifest
  <2>2. MyCall'
    BY <1>6, <2>1
  <2>3. ASSUME NEW i \in Impls, Unreviewed(i)' PROVE Unreviewed(i)
    <3>1. CASE i = Mine(c)
      BY <1>2, <2>1, <2>3, <3>1 DEF Unreviewed, ReviewInv
    <3>2. CASE i # Mine(c)
      BY <1>2, <2>1, <2>3, <3>2 DEF Unreviewed
    <3> QED BY <3>1, <3>2
  <2> QED BY <1>3, <1>4, <2>1, <2>2, <2>3
<1>18. CASE \/ PublishAttestation(c) \/ PublishBundle(c) \/ BeginLog(c) \/ LogLine(c)
            \/ CheckLine(c) \/ PublishRekor(c) \/ LogRefused(c) \/ End(c) \/ LogNewline(c)
  <2>1. /\ UNCHANGED <<manifest, provenance>>
        /\ call[c].step \in {"publish", "log", "line", "newline", "check", "publish_rekor", "end"}
        /\ lock' = lock \/ Unlock(c)
    BY <1>18 DEF PublishAttestation, PublishBundle, BeginLog, LogLine, CheckLine, PublishRekor,
       LogRefused, End, LogNewline, Fail, registry
  <2>2. lock' = lock \/ lock = c
    BY <1>7, <2>1
  <2>3. call'[c].step \in {"log", "line", "newline", "check", "publish_rekor", "end", "ok", "failed"}
    <3>1. CASE LogNewline(c)
      BY <1>2, <3>1 DEF LogNewline, Call
    <3>2. CASE ~LogNewline(c)
      BY <1>5, <1>6, <1>18, <3>2 DEF PublishAttestation, PublishBundle, BeginLog, LogLine, CheckLine,
         PublishRekor, LogRefused, End, Fail
    <3> QED BY <3>1, <3>2
  <2>4. MyCall'
    BY <2>3
  <2> QED BY <1>3, <1>4, <1>8, <2>1, <2>2, <2>4
<1>19. CASE Crash(c)
  <2>1. UNCHANGED <<manifest, provenance, lock>> /\ Return(c, "crashed") /\ call[c].step # "idle"
    BY <1>19 DEF Crash, registry
  <2>2. call'[c].step = "crashed" /\ call'[c].req = call[c].req
    BY <1>1, <1>6, <2>1
  <2>3. MyCall'
    BY <2>2
  <2>4. ASSUME NEW i \in Impls, Unreviewed(i)'
        PROVE  lock' # Nothing /\ Mine(lock)' = i /\ call'[lock'].step \in {"provenance", "crashed"}
    <3>1. lock # Nothing /\ Mine(lock) = i /\ call[lock].step \in {"provenance", "crashed"}
      BY <1>8, <2>1, <2>4 DEF ReviewInv
    <3> QED BY <1>1, <1>2, <2>1, <2>2, <3>1 DEF Mine
  <2> QED BY <1>3, <1>8, <2>1, <2>3, <2>4
<1> QED
  BY <1>9, <1>10, <1>11, <1>12, <1>13, <1>14, <1>15, <1>16, <1>17, <1>18, <1>19 DEF Step

-----------------------------------------------------------------------------
(* What a command has appended *)

\* An append keeps the entries of the file; when the file verifies afterwards it
\* did before, with the same entries under the same numbers.
LEMMA LogGrows ==
  ASSUME LinesShape, NEW c \in Callers, LogStep(c)
  PROVE  /\ Entries(log) \subseteq Entries(log')
         /\ Verifies(log') =>
              /\ Verifies(log)
              /\ Size(log) \in Nat /\ Size(log') \in Nat /\ Size(log) <= Size(log')
              /\ \A n \in 1 .. Size(log) : Entry(log', n) = Entry(log, n)
         /\ WriteLine(c) =>
              /\ held[c].entry \in Entries(log')
              /\ Verifies(log') =>
                   /\ held[c].entry.seq = Size(log')
                   /\ Entry(log', Size(log')) = held[c].entry
                   /\ Size(log') \in Nat \ {0}
<1> DEFINE n == Len(log.lines)
<1>1. n \in Nat /\ \A m \in 1 .. n : Len(log.lines[m]) \in Nat \ {0}
  BY DEF LinesShape
<1>2. CASE WriteLine(c)
  <2> DEFINE e == held[c].entry
  <2>1. log' = WithLine(log, e)
    BY <1>2 DEF WriteLine
  <2>2. CASE log.open
    <3>1. /\ Len(log'.lines) = n
          /\ \A m \in 1 .. n - 1 : log'.lines[m] = log.lines[m]
          /\ log'.lines[n] = Append(log.lines[n], e)
          /\ Len(log'.lines[n]) \in Nat \ {0, 1}
          /\ n \in Nat \ {0}
      BY <2>1, <2>2, WriteToOpen
    <3>2. ~Verifies(log')
      BY <3>1 DEF Verifies, Readable, Size, Line
    <3>3. PICK T : log.lines \in Seq(Seq(T))
      BY DEF LinesShape
    <3>4. log.lines[n] \in Seq(T)
      BY <3>1, <3>3
    <3>5. /\ Len(log'.lines[n]) = Len(log.lines[n]) + 1
          /\ log'.lines[n][Len(log.lines[n]) + 1] = e
          /\ \A k \in 1 .. Len(log.lines[n]) : log'.lines[n][k] = log.lines[n][k]
      BY <3>1, <3>4
    <3>6. \A m \in 1 .. n : \A k \in 1 .. Len(log.lines[m]) :
            k \in 1 .. Len(log'.lines[m]) /\ log'.lines[m][k] = log.lines[m][k]
      <4> SUFFICES ASSUME NEW m \in 1 .. n, NEW k \in 1 .. Len(log.lines[m])
                   PROVE  k \in 1 .. Len(log'.lines[m]) /\ log'.lines[m][k] = log.lines[m][k]
        OBVIOUS
      <4>1. m = n \/ m \in 1 .. n - 1
        BY <1>1
      <4>2. CASE m = n
        BY <1>1, <3>5, <4>2
      <4>3. CASE m \in 1 .. n - 1
        BY <3>1, <4>3
      <4> QED BY <4>1, <4>2, <4>3
    <3>7. Entries(log) \subseteq Entries(log')
      BY <3>1, <3>6 DEF Entries, Line, Size
    <3>8. e \in Entries(log')
      <4>1. n \in 1 .. Len(log'.lines)
            /\ Len(log.lines[n]) + 1 \in 1 .. Len(log'.lines[n])
        BY <1>1, <3>1, <3>5
      <4> QED BY <3>5, <4>1 DEF Entries, Line, Size
    <3> QED BY <3>2, <3>7, <3>8
  <2>3. CASE ~log.open
    <3>1. /\ Len(log'.lines) = n + 1
          /\ \A m \in 1 .. n : log'.lines[m] = log.lines[m]
          /\ log'.lines[n + 1] = <<e>>
      BY <2>1, <2>3, WriteToClosed
    <3>2. Entries(log) \subseteq Entries(log')
      <4>1. \A m \in 1 .. n : m \in 1 .. n + 1
        BY <1>1
      <4> QED BY <3>1, <4>1 DEF Entries, Line, Size
    <3>3. n + 1 \in 1 .. Len(log'.lines) /\ Entry(log', n + 1) = e
      BY <1>1, <3>1 DEF Entry, Line
    <3>4. e \in Entries(log')
      <4>1. 1 \in 1 .. Len(log'.lines[n + 1]) /\ log'.lines[n + 1][1] = e
        BY <3>1
      <4> QED BY <3>3, <4>1 DEF Entries, Line, Size
    <3>5. Verifies(log') => Verifies(log)
      BY <1>2, DamageStays DEF LogStep
    <3>6. \A m \in 1 .. n : Entry(log', m) = Entry(log, m)
      BY <3>1 DEF Entry, Line
    <3>7. Verifies(log') => e.seq = n + 1
      BY <3>1, <3>3 DEF Verifies, Size
    <3> QED BY <1>1, <3>1, <3>2, <3>3, <3>4, <3>5, <3>6, <3>7 DEF Size
  <2> QED BY <2>2, <2>3
<1>3. CASE ~WriteLine(c)
  <2>1. log'.lines = log.lines
    <3>1. CASE WriteNewline(c)
      BY <3>1 DEF WriteNewline
    <3>2. CASE UNCHANGED log
      BY <3>2
    <3> QED BY <1>3, <3>1, <3>2 DEF LogStep, ReadLog, AbandonAppend
  <2>2. Entries(log') = Entries(log)
    BY <2>1 DEF Entries, Line, Size
  <2>3. Verifies(log') => Verifies(log)
    BY DamageStays
  <2> QED BY <1>1, <1>3, <2>1, <2>2, <2>3 DEF Size, Entry, Line
<1> QED BY <1>2, <1>3

\* The log line of a command.
IsLineOf(c, e) == e.kind = Cmd(c) /\ e.impl = Mine(c) /\ e.payload = call[c].payload

\* In a log that verifies, n is the number of a line of the command.
Numbers(c, n) == Verifies(log) => n \in 1 .. Size(log) /\ IsLineOf(c, Entry(log, n))

\* Which commands write which files; what a command has appended, or is about
\* to, is its line; from then on the line is in the file.
LoggedOf(c) ==
  /\ call[c].step \in {"truncate_artifact", "fill_artifact", "manifest", "provenance",
                       "truncate_manifest", "fill_manifest"} => Cmd(c) \notin Attesting
  /\ call[c].step \in {"truncate_manifest", "fill_manifest"} => Cmd(c) # "promote"
  /\ call[c].step \in {"line", "newline"} => IsLineOf(c, held[c].entry)
  /\ \/ call[c].step \in {"newline", "check", "publish_rekor", "end"}
     \/ call[c].step = "ok" /\ Cmd(c) \in Logging /\ call[c].req.apply
     => \E e \in Entries(log) : IsLineOf(c, e)
  /\ call[c].step = "newline" => Numbers(c, held[c].entry.seq)
  /\ call[c].step \in {"check", "publish_rekor"} => Cmd(c) = "rekor" /\ Numbers(c, call[c].index)

LoggedInv == BundleNamesItsLine /\ \A c \in Callers : LoggedOf(c)

LEMMA LoggedStep ==
  ASSUME Typed, LockInv, LoggedInv, NEW c \in Callers, Step(c) \/ Crash(c)
  PROVE  LoggedInv'
<1>1. /\ \A d \in Callers \ {c} : call'[d] = call[d] /\ held'[d] = held[d]
      /\ call[c].step # "idle" => call'[c].req = call[c].req
  BY OneCall
<1>2. /\ DOMAIN bundle = Impls /\ call \in [Callers -> Call] /\ call[c] \in Call
      /\ call[c].step # "idle" => Mine(c) \in Impls
      /\ \A i \in Impls : bundle[i] # Nothing => bundle[i].index \in Nat
  <2>1. \A i \in Impls : bundle[i] # Nothing => bundle[i].index \in Nat
    BY DEF Typed, FilesType
  <2> QED BY <2>1, RequestType DEF Typed, FilesType, CallsType, Mine
<1>3. /\ Entries(log) \subseteq Entries(log')
      /\ Verifies(log') =>
           /\ Verifies(log)
           /\ Size(log) \in Nat /\ Size(log') \in Nat /\ Size(log) <= Size(log')
           /\ \A n \in 1 .. Size(log) : Entry(log', n) = Entry(log, n)
  <2>1. CASE LogStep(c)
    BY <2>1, LogGrows DEF Typed, LogShape
  <2>2. CASE UNCHANGED logVars
    <3>1. log' = log /\ Size(log) \in Nat
      BY <2>2 DEF logVars, Typed, LogShape, LinesShape, Size
    <3> QED BY <3>1
  <2> QED BY <2>1, <2>2, OneActs
<1>4. ASSUME NEW n \in 1 .. Size(log), Verifies(log')
      PROVE  n \in 1 .. Size(log') /\ Entry(log', n) = Entry(log, n) /\ Verifies(log)
  BY <1>3, <1>4
<1>5. ASSUME NEW d \in Callers, UNCHANGED <<call[d], held[d]>>
      PROVE  LoggedOf(d)'
  <2>1. \A e : IsLineOf(d, e)' <=> IsLineOf(d, e)
    BY <1>5 DEF IsLineOf, Cmd, Mine
  <2>2. \A n : Numbers(d, n) => Numbers(d, n)'
    BY <1>3, <1>4, <2>1 DEF Numbers
  <2> QED BY <1>3, <1>5, <2>1, <2>2 DEF LoggedInv, LoggedOf, Cmd
<1>6. ASSUME LoggedOf(c)' PROVE \A d \in Callers : LoggedOf(d)'
  BY <1>1, <1>5, <1>6
<1>7. ASSUME bundle' = bundle PROVE BundleNamesItsLine'
  <2> SUFFICES ASSUME NEW i \in Impls, bundle[i] # Nothing, bundle[i].index > 0, Verifies(log')
               PROVE  /\ bundle[i].index <= Size(log')
                      /\ LET e == Entry(log', bundle[i].index)
                         IN e.kind = "rekor" /\ e.impl = i /\ e.payload = bundle[i].payload
    BY <1>7 DEF BundleNamesItsLine
  <2>1. bundle[i].index <= Size(log) /\ Verifies(log)
        /\ LET e == Entry(log, bundle[i].index)
           IN e.kind = "rekor" /\ e.impl = i /\ e.payload = bundle[i].payload
    BY <1>3 DEF LoggedInv, BundleNamesItsLine
  <2>2. bundle[i].index \in 1 .. Size(log)
    BY <1>2, <1>3, <2>1
  <2> QED BY <1>4, <2>1, <2>2
<1>8. ASSUME NEW s, Goto(c, s)
      PROVE  call'[c].step = s /\ call'[c].index = call[c].index /\ call'[c].payload = call[c].payload
  BY <1>2, <1>8 DEF Goto, Call
<1>9. ASSUME NEW s, Return(c, s)
      PROVE  call'[c].step = s /\ call'[c].payload = call[c].payload
  BY <1>2, <1>9 DEF Return, Call
<1>10. ASSUME call'[c].step \in {"find", "lock", "log", "publish", "failed", "crashed"}
       PROVE  LoggedOf(c)'
  BY <1>10 DEF LoggedOf
<1>11. Cmd(c) = call[c].req.cmd /\ Cmd(c)' = call'[c].req.cmd
  BY DEF Cmd
<1> USE DEF At
<1>12. CASE Arrive(c)
  <2>1. PICK r \in Request :
          call' = [call EXCEPT ![c].req = r,
                               ![c].step = IF r.cmd = "install" THEN "truncate_manifest" ELSE "find"]
    BY <1>12 DEF Arrive
  <2>2. call'[c].step = "find" \/ (call'[c].step = "truncate_manifest" /\ Cmd(c)' = "install")
    BY <1>2, <1>11, <2>1 DEF Call
  <2>3. LoggedOf(c)'
    BY <1>10, <2>2 DEF LoggedOf, Attesting
  <2>4. bundle' = bundle
    BY <1>12 DEF Arrive, registry
  <2> QED BY <1>6, <1>7, <2>3, <2>4 DEF LoggedInv
<1>13. CASE Find(c)
  <2>1. bundle' = bundle /\ call[c].step = "find" /\ call'[c].req = call[c].req
    BY <1>1, <1>13 DEF Find, registry
  <2>2. ASSUME NEW s, NEW m, NEW e, FoundBy(c, s, m, e) PROVE call'[c].step = s
    BY <1>2, <2>2 DEF FoundBy, Call
  <2>3. CASE Fail(c)
    <3>1. LoggedOf(c)'
      BY <1>9, <1>10, <2>3 DEF Fail
    <3> QED BY <1>6, <1>7, <2>1, <3>1 DEF LoggedInv
  <2>4. CASE FoundByPromote(c, manifest[Mine(c)])
    <3>1. LoggedOf(c)'
      BY <1>10, <2>2, <2>4 DEF FoundByPromote
    <3> QED BY <1>6, <1>7, <2>1, <3>1 DEF LoggedInv
  <2>5. CASE FoundByAdmit(c, manifest[Mine(c)]) \/ FoundByMint(c, manifest[Mine(c)])
    <3>1. call'[c].step \in {"provenance", "truncate_artifact"} /\ Cmd(c)' \in {"admit", "mint"}
      BY <1>11, <2>1, <2>2, <2>5 DEF FoundByAdmit, FoundByMint
    <3>2. LoggedOf(c)'
      BY <3>1 DEF LoggedOf, Attesting
    <3> QED BY <1>6, <1>7, <2>1, <3>2 DEF LoggedInv
  <2>6. CASE FoundByAttesting(c)
    <3>1. CASE call[c].req.apply
      <4>1. PICK now \in Seconds :
              call' = [call EXCEPT ![c].step = IF Cmd(c) = "rekor" THEN "log" ELSE "publish",
                                   ![c].payload = Signed(c, now)]
        BY <2>6, <3>1 DEF FoundByAttesting
      <4>2. call'[c].step \in {"log", "publish"}
        BY <1>2, <4>1 DEF Call
      <4> QED BY <1>6, <1>7, <1>10, <2>1, <4>2 DEF LoggedInv
    <3>2. CASE ~call[c].req.apply
      <4>1. call'[c].step = "ok" /\ ~call'[c].req.apply
        BY <1>9, <2>1, <2>6, <3>2 DEF FoundByAttesting
      <4>2. LoggedOf(c)'
        BY <4>1 DEF LoggedOf
      <4> QED BY <1>6, <1>7, <2>1, <4>2 DEF LoggedInv
    <3> QED BY <3>1, <3>2
  <2> QED BY <1>13, <2>3, <2>4, <2>5, <2>6 DEF Find
<1>14. CASE Acquire(c)
  <2>1. /\ bundle' = bundle /\ call'[c].req = call[c].req
        /\ call'[c].step = "failed" \/ (call'[c].step = "truncate_artifact" /\ Cmd(c) = "promote")
    <3>1. /\ bundle' = bundle /\ call[c].step = "lock"
          /\ Return(c, "failed") \/ Goto(c, "truncate_artifact")
      BY <1>14 DEF Acquire, Fail, registry
    <3> QED BY <1>1, <1>8, <1>9, <3>1 DEF LockInv
  <2>2. LoggedOf(c)'
    BY <1>10, <1>11, <2>1 DEF LoggedOf, Attesting
  <2> QED BY <1>6, <1>7, <2>1, <2>2 DEF LoggedInv
<1>15. CASE TruncateArtifact(c)
  <2>1. /\ bundle' = bundle /\ call'[c].req = call[c].req /\ call[c].step = "truncate_artifact"
        /\ call'[c].step = "fill_artifact"
    BY <1>1, <1>8, <1>15 DEF TruncateArtifact
  <2>2. LoggedOf(c)'
    BY <1>11, <2>1 DEF LoggedInv, LoggedOf
  <2> QED BY <1>6, <1>7, <2>1, <2>2 DEF LoggedInv
<1>16. CASE FillArtifact(c)
  <2>1. /\ bundle' = bundle /\ call'[c].req = call[c].req /\ call[c].step = "fill_artifact"
        /\ \/ call'[c].step = "manifest"
           \/ call'[c].step = "ok" /\ Cmd(c) # "promote"
    BY <1>1, <1>8, <1>9, <1>16 DEF FillArtifact
  <2>2. LoggedOf(c)'
    BY <1>11, <2>1 DEF LoggedInv, LoggedOf, Logging, Attesting
  <2> QED BY <1>6, <1>7, <2>1, <2>2 DEF LoggedInv
<1>17. CASE ReplaceManifest(c)
  <2>1. /\ bundle' = bundle /\ call'[c].req = call[c].req /\ call[c].step = "manifest"
        /\ call'[c].step \in {"provenance", "log"}
    BY <1>1, <1>2, <1>17 DEF ReplaceManifest, Call
  <2>2. LoggedOf(c)'
    BY <1>10, <1>11, <2>1 DEF LoggedInv, LoggedOf
  <2> QED BY <1>6, <1>7, <2>1, <2>2 DEF LoggedInv
<1>18. CASE WriteProvenance(c)
  <2>1. /\ bundle' = bundle /\ call'[c].req = call[c].req /\ call[c].step = "provenance"
        /\ \/ call'[c].step = "log"
           \/ call'[c].step \in {"truncate_manifest", "ok"} /\ Cmd(c) # "promote"
    BY <1>1, <1>8, <1>9, <1>18 DEF WriteProvenance
  <2>2. LoggedOf(c)'
    BY <1>10, <1>11, <2>1 DEF LoggedInv, LoggedOf, Logging, Attesting
  <2> QED BY <1>6, <1>7, <2>1, <2>2 DEF LoggedInv
<1>19. CASE TruncateManifest(c)
  <2>1. /\ bundle' = bundle /\ call'[c].req = call[c].req /\ call[c].step = "truncate_manifest"
        /\ call'[c].step = "fill_manifest"
    BY <1>1, <1>8, <1>19 DEF TruncateManifest
  <2>2. LoggedOf(c)'
    BY <1>11, <2>1 DEF LoggedInv, LoggedOf
  <2> QED BY <1>6, <1>7, <2>1, <2>2 DEF LoggedInv
<1>20. CASE FillManifest(c)
  <2>1. /\ bundle' = bundle /\ call'[c].req = call[c].req /\ call[c].step = "fill_manifest"
        /\ call'[c].step = "ok"
    BY <1>1, <1>9, <1>20 DEF FillManifest
  <2>2. LoggedOf(c)'
    BY <1>11, <2>1 DEF LoggedInv, LoggedOf, Logging, Attesting
  <2> QED BY <1>6, <1>7, <2>1, <2>2 DEF LoggedInv
<1>21. CASE PublishAttestation(c)
  <2>1. bundle' = bundle /\ call'[c].step = "log"
    BY <1>8, <1>21 DEF PublishAttestation
  <2> QED BY <1>6, <1>7, <1>10, <2>1 DEF LoggedInv
<1>22. CASE LogRefused(c)
  <2>1. bundle' = bundle /\ call'[c].step = "failed"
    BY <1>9, <1>22 DEF LogRefused, Fail, registry
  <2> QED BY <1>6, <1>7, <1>10, <2>1 DEF LoggedInv
<1>23. CASE Crash(c)
  <2>1. bundle' = bundle /\ call'[c].step = "crashed"
    BY <1>9, <1>23 DEF Crash, registry
  <2> QED BY <1>6, <1>7, <1>10, <2>1 DEF LoggedInv
<1>24. ASSUME NEW e, IsLineOf(c, e), call'[c].req = call[c].req, call'[c].payload = call[c].payload
       PROVE  e.kind = Cmd(c)' /\ e.impl = Mine(c)' /\ e.payload = call'[c].payload
  BY <1>24 DEF IsLineOf, Cmd, Mine
<1>25. ASSUME NEW n, Numbers(c, n), call'[c].req = call[c].req, call'[c].payload = call[c].payload
       PROVE  Verifies(log') =>
                /\ n \in 1 .. Size(log')
                /\ Entry(log', n).kind = Cmd(c)' /\ Entry(log', n).impl = Mine(c)'
                /\ Entry(log', n).payload = call'[c].payload
  <2> SUFFICES ASSUME Verifies(log')
               PROVE  /\ n \in 1 .. Size(log')
                      /\ Entry(log', n).kind = Cmd(c)' /\ Entry(log', n).impl = Mine(c)'
                      /\ Entry(log', n).payload = call'[c].payload
    OBVIOUS
  <2>1. n \in 1 .. Size(log) /\ IsLineOf(c, Entry(log, n))
    BY <1>3, <1>25 DEF Numbers
  <2>2. n \in 1 .. Size(log') /\ Entry(log', n) = Entry(log, n)
    BY <1>4, <2>1
  <2> QED BY <1>24, <1>25, <2>1, <2>2
<1>26. CASE PublishBundle(c)
  <2>1. /\ call'[c].step = "log" /\ log' = log
        /\ bundle' = [bundle EXCEPT ![Mine(c)] = [payload |-> call[c].payload, index |-> 0]]
    BY <1>8, <1>26 DEF PublishBundle, logVars
  <2>2. BundleNamesItsLine'
    <3> SUFFICES ASSUME NEW i \in Impls, bundle'[i] # Nothing, bundle'[i].index > 0, Verifies(log)
                 PROVE  /\ bundle'[i].index <= Size(log)
                        /\ LET e == Entry(log, bundle'[i].index)
                           IN e.kind = "rekor" /\ e.impl = i /\ e.payload = bundle'[i].payload
      BY <2>1 DEF BundleNamesItsLine
    <3>1. i # Mine(c)
      BY <1>2, <2>1
    <3>2. bundle'[i] = bundle[i]
      BY <1>2, <2>1, <3>1
    <3> QED BY <3>2 DEF LoggedInv, BundleNamesItsLine
  <2> QED BY <1>6, <1>10, <2>1, <2>2 DEF LoggedInv
<1>27. CASE BeginLog(c)
  <2>1. /\ bundle' = bundle /\ call'[c].step = "line" /\ call[c].step = "log"
        /\ call'[c].payload = call[c].payload /\ call'[c].req = call[c].req
        /\ ReadLog(c, Cmd(c), Mine(c), call[c].payload)
    BY <1>1, <1>8, <1>27 DEF BeginLog, registry
  <2>2. held'[c].entry = NextEntry(log, Cmd(c), Mine(c), call[c].payload)
    BY <2>1 DEF ReadLog, Typed, LogShape, HeldShape
  <2>3. IsLineOf(c, held'[c].entry)
    BY <2>2 DEF IsLineOf, NextEntry
  <2>4. LoggedOf(c)'
    <3>1. IsLineOf(c, held[c].entry)'
      BY <1>24, <2>1, <2>3 DEF IsLineOf
    <3> QED BY <2>1, <3>1 DEF LoggedOf
  <2> QED BY <1>6, <1>7, <2>1, <2>4 DEF LoggedInv
<1>28. CASE LogLine(c)
  <2>1. /\ bundle' = bundle /\ call'[c].step = "newline" /\ call[c].step = "line"
        /\ call'[c].payload = call[c].payload /\ call'[c].req = call[c].req
        /\ WriteLine(c)
    BY <1>1, <1>8, <1>28 DEF LogLine, registry
  <2>2. held'[c].entry = held[c].entry
    BY <2>1 DEF WriteLine, Typed, LogShape, HeldShape
  <2>3. /\ held[c].entry \in Entries(log')
        /\ Verifies(log') =>
             /\ held[c].entry.seq = Size(log')
             /\ Entry(log', Size(log')) = held[c].entry
             /\ Size(log') \in Nat \ {0}
    BY <2>1, LogGrows DEF LogStep, Typed, LogShape
  <2>4. IsLineOf(c, held[c].entry)'
    BY <1>24, <2>1, <2>2 DEF LoggedInv, LoggedOf, IsLineOf
  <2>5. Numbers(c, held[c].entry.seq)'
    <3>1. Verifies(log') => held[c].entry.seq \in 1 .. Size(log')
      BY <2>3
    <3> QED BY <2>2, <2>3, <2>4, <3>1 DEF Numbers
  <2>6. LoggedOf(c)'
    BY <2>1, <2>2, <2>3, <2>4, <2>5 DEF LoggedOf
  <2> QED BY <1>6, <1>7, <2>1, <2>6 DEF LoggedInv
\* From now on the line is in the file.
<1>29. ASSUME call[c].step \in {"newline", "check", "publish_rekor", "end"},
              call'[c].payload = call[c].payload, call'[c].req = call[c].req
       PROVE  \E e \in Entries(log') : IsLineOf(c, e)'
  <2>1. PICK e \in Entries(log) : IsLineOf(c, e)
    BY <1>29 DEF LoggedInv, LoggedOf
  <2>2. e \in Entries(log')
    BY <1>3, <2>1
  <2>3. e.kind = Cmd(c)' /\ e.impl = Mine(c)' /\ e.payload = call'[c].payload
    BY <1>24, <1>29, <2>1
  <2> QED BY <2>2, <2>3 DEF IsLineOf, Cmd, Mine
<1>30. CASE LogNewline(c)
  <2>1. /\ bundle' = bundle /\ call[c].step = "newline"
        /\ call'[c].payload = call[c].payload /\ call'[c].req = call[c].req
        /\ call'[c].index = held[c].entry.seq
        /\ call'[c].step = "end" \/ (call'[c].step = "check" /\ Cmd(c) = "rekor")
    BY <1>2, <1>30 DEF LogNewline, Call, registry
  <2>2. Numbers(c, call[c].index)'
    BY <1>25, <2>1 DEF LoggedInv, LoggedOf, Numbers, IsLineOf
  <2>3. LoggedOf(c)'
    BY <1>11, <1>29, <2>1, <2>2 DEF LoggedOf
  <2> QED BY <1>6, <1>7, <2>1, <2>3 DEF LoggedInv
<1>31. CASE CheckLine(c)
  <2>1. /\ bundle' = bundle /\ call[c].step = "check" /\ call'[c].req = call[c].req
        /\ Fail(c) \/ Goto(c, "publish_rekor")
    BY <1>1, <1>31 DEF CheckLine, registry
  <2>2. CASE Fail(c)
    BY <1>6, <1>7, <1>9, <1>10, <2>1, <2>2 DEF LoggedInv, Fail
  <2>3. CASE Goto(c, "publish_rekor")
    <3>1. Cmd(c)' = "rekor" /\ Numbers(c, call[c].index)' /\ call'[c].step = "publish_rekor"
      BY <1>8, <1>11, <1>25, <2>1, <2>3 DEF LoggedInv, LoggedOf, Numbers, IsLineOf
    <3>2. LoggedOf(c)'
      BY <1>8, <1>29, <2>1, <2>3, <3>1 DEF LoggedOf
    <3> QED BY <1>6, <1>7, <2>1, <3>2 DEF LoggedInv
  <2> QED BY <2>1, <2>2, <2>3
<1>32. CASE PublishRekor(c)
  <2>1. /\ call[c].step = "publish_rekor" /\ call'[c].step = "end" /\ log' = log
        /\ call'[c].payload = call[c].payload /\ call'[c].req = call[c].req
        /\ bundle' = [bundle EXCEPT ![Mine(c)] = [payload |-> call[c].payload,
                                                  index |-> call[c].index]]
    BY <1>1, <1>8, <1>32 DEF PublishRekor, RekorBundle, logVars
  <2>2. Cmd(c) = "rekor" /\ Numbers(c, call[c].index) /\ Mine(c) \in Impls
    BY <1>2, <2>1 DEF LoggedInv, LoggedOf
  <2>3. BundleNamesItsLine'
    <3> SUFFICES ASSUME NEW i \in Impls, bundle'[i] # Nothing, bundle'[i].index > 0, Verifies(log)
                 PROVE  /\ bundle'[i].index <= Size(log)
                        /\ LET e == Entry(log, bundle'[i].index)
                           IN e.kind = "rekor" /\ e.impl = i /\ e.payload = bundle'[i].payload
      BY <2>1 DEF BundleNamesItsLine
    <3>1. CASE i = Mine(c)
      <4>1. bundle'[i] = [payload |-> call[c].payload, index |-> call[c].index]
        BY <1>2, <2>1, <3>1
      <4>2. call[c].index \in 1 .. Size(log) /\ IsLineOf(c, Entry(log, call[c].index))
        BY <2>2 DEF Numbers
      <4>3. Size(log) \in Nat
        BY <1>3, <2>1
      <4> QED BY <2>2, <3>1, <4>1, <4>2, <4>3 DEF IsLineOf
    <3>2. CASE i # Mine(c)
      <4>1. bundle'[i] = bundle[i]
        BY <1>2, <2>1, <3>2
      <4> QED BY <4>1 DEF LoggedInv, BundleNamesItsLine
    <3> QED BY <3>1, <3>2
  <2>4. LoggedOf(c)'
    BY <1>29, <2>1 DEF LoggedOf
  <2> QED BY <1>6, <2>3, <2>4 DEF LoggedInv
<1>33. CASE End(c)
  <2>1. /\ bundle' = bundle /\ call[c].step = "end" /\ call'[c].step = "ok"
        /\ call'[c].payload = call[c].payload /\ call'[c].req = call[c].req
    BY <1>1, <1>9, <1>33 DEF End, registry
  <2>2. LoggedOf(c)'
    BY <1>29, <2>1 DEF LoggedOf
  <2> QED BY <1>6, <1>7, <2>1, <2>2 DEF LoggedInv
<1> QED
  BY <1>12, <1>13, <1>14, <1>15, <1>16, <1>17, <1>18, <1>19, <1>20, <1>21, <1>22, <1>23, <1>26,
     <1>27, <1>28, <1>30, <1>31, <1>32, <1>33 DEF Step

-----------------------------------------------------------------------------
(* Promotions and their artifacts *)

\* Nothing that a manifest says stands in the way of a promotion.
Sound(m) == m.adapter /\ ~AnyFail(m.axes)

\* Only the suites fail in an artifact.
Unfailing(e) == \A a \in Axes \ {"conformance"} : e[a] # "fail"

JustifiedBy(m, e) == ~Overclaims(m.status, JustifiedByArtifact(m.adapter, e, TRUE, TRUE))

\* A promotion of i is between its lock and its manifest, or has died.
BeforeManifest == {"truncate_artifact", "fill_artifact", "manifest", "crashed"}
Replacing(i) == lock # Nothing /\ Mine(lock) = i /\ call[lock].step \in BeforeManifest

\* The commands write manifests without a failing axis, and artifacts where none
\* but conformance fails; a promotion writes artifacts that justify its manifests.
FileTruth(i) ==
  /\ manifest[i] # Torn => Sound(manifest[i])
  /\ artifact[i] \notin {Nothing, Torn} => Unfailing(artifact[i])
  /\ by[i].artifact = "mint" => artifact[i] \in Evidence \cup {Torn}
  /\ /\ ~Replacing(i) /\ manifest[i] # Torn /\ artifact[i] # Torn
     /\ by[i].manifest = "promote" /\ by[i].artifact = "promote"
     /\ NeedsArtifact(manifest[i].status)
     => artifact[i] \in Evidence /\ JustifiedBy(manifest[i], artifact[i])

CallTruth(c) ==
  /\ Sound(call[c].imp) /\ Unfailing(call[c].art)
  /\ /\ Cmd(c) = "promote"
     /\ call[c].step \in {"lock", "truncate_artifact", "fill_artifact", "manifest"}
     => JustifiedBy(call[c].imp, call[c].art)
  /\ /\ Cmd(c) = "promote" /\ call[c].step = "manifest"
     /\ artifact[Mine(c)] # Torn /\ by[Mine(c)].artifact = "promote"
     => artifact[Mine(c)] = call[c].art

TruthInv ==
  /\ by \in [Impls -> [manifest : Commands \cup {"promote"}, artifact : Commands \cup {"promote"}]]
  /\ \A i \in Impls : FileTruth(i)
  /\ \A c \in Callers : CallTruth(c)

LEMMA NoOverclaim ==
  ASSUME NEW declared \in {"conformant", "admitted"}, NEW justified \in {"conformant", "admitted"},
         declared = "conformant" \/ justified = "admitted"
  PROVE  ~Overclaims(declared, justified)
<1>1. StatusRank("conformant") = 2 /\ StatusRank("admitted") = 3
  BY DEF StatusRank
<1> QED BY <1>1 DEF Overclaims

\* Axes without a failure are worth conformant in an artifact from green suites,
\* and admitted if all the others pass.
LEMMA ArtifactIsWorth ==
  ASSUME NEW e \in Evidence, ~AnyFail(e), NEW declared \in {"conformant", "admitted"},
         declared = "admitted" => \A a \in Axes \ {"conformance"} : e[a] = "pass"
  PROVE  ~Overclaims(declared, JustifiedByArtifact(TRUE, e, TRUE, TRUE))
<1> DEFINE b == BySuites(e, TRUE)
           j == JustifiedByArtifact(TRUE, e, TRUE, TRUE)
<1>1. /\ b["conformance"] = "pass"
      /\ \A a \in Axes \ {"conformance"} : b[a] = e[a]
  BY DEF BySuites, Evidence, Axes, AnyFail
<1> HIDE DEF b
<1>2. ~AnyFail(b)
  BY <1>1 DEF AnyFail
<1>3. declared = "admitted" => AllPass(b)
  BY <1>1 DEF AllPass
<1>4. j = IF AllPass(b) THEN "admitted" ELSE "conformant"
  BY <1>1, <1>2 DEF JustifiedByArtifact, JustifiedFromAxes, b
<1> HIDE DEF j
<1>5. ~Overclaims(declared, j)
  BY <1>3, <1>4, NoOverclaim
<1> QED BY <1>5 DEF j

\* A promotion mints what justifies the status it writes.
LEMMA PromotionEarned ==
  ASSUME NEW m \in Manifest, Sound(m), NEW target \in {"conformant", "admitted"},
         NEW passed \in SUBSET {"benchmark", "security"},
         target = "admitted" => passed = {"benchmark", "security"}
  PROVE  LET e == PromotedAxes(m.axes, passed)
             p == PromotedManifest(m, e, target)
         IN Sound(p) /\ Unfailing(e) /\ JustifiedBy(p, e)
<1> DEFINE e == PromotedAxes(m.axes, passed)
           p == PromotedManifest(m, e, target)
           f == [a \in Axes |-> IF a \in {"build", "license"} \cup passed THEN "pass" ELSE m.axes[a]]
<1>1. m.axes \in Evidence /\ e \in Evidence /\ m.adapter = TRUE
  BY Constants DEF Manifest, Sound
<1>2. \A a \in Axes : f[a] # "fail" /\ (a \in {"build", "license"} \cup passed => f[a] = "pass")
  BY DEF Sound, AnyFail
<1>3. \A a \in Axes : e[a] = f[a] \/ e[a] = "pass"
  BY <1>2 DEF PromotedAxes, MintedAxes, BySuites, Axes
<1>4. p.status = target /\ p.adapter = TRUE /\ \A a \in Axes : p.axes[a] \in {e[a], "pass"}
  BY <1>1 DEF PromotedManifest, Manifest
<1> HIDE DEF e, p, f
<1>5. ~AnyFail(e) /\ Unfailing(e)
  BY <1>2, <1>3 DEF AnyFail, Unfailing
<1>6. Sound(p)
  BY <1>4, <1>5 DEF Sound, AnyFail
<1>7. target = "admitted" => \A a \in Axes \ {"conformance"} : e[a] = "pass"
  BY <1>2, <1>3 DEF Axes
<1>8. JustifiedBy(p, e)
  BY <1>1, <1>4, <1>5, <1>7, ArtifactIsWorth DEF JustifiedBy
<1> QED BY <1>5, <1>6, <1>8 DEF e, p

LEMMA OthersSound ==
  /\ Sound(Draft) /\ Sound(Vouched) /\ Sound(Conformant) /\ Unfailing(Passing({}))
  /\ \A m \in Manifest : Sound(m) =>
       Sound(AdmittedManifest(m)) /\ \A ok \in BOOLEAN : Unfailing(MeasuredAxes(m.axes, ok))
<1>1. \A as : \A a \in Axes : Passing(as)[a] \in {"pass", "absent"}
  BY DEF Passing
<1>2. Sound(Draft) /\ Sound(Vouched) /\ Sound(Conformant) /\ Unfailing(Passing({}))
  BY <1>1 DEF Sound, AnyFail, Unfailing, Draft, Vouched, Conformant
<1>3. ASSUME NEW m \in Manifest, Sound(m)
      PROVE  Sound(AdmittedManifest(m)) /\ \A ok \in BOOLEAN : Unfailing(MeasuredAxes(m.axes, ok))
  BY <1>3 DEF Sound, AnyFail, Unfailing, AdmittedManifest, MeasuredAxes, Manifest, Evidence, Axes
<1> QED BY <1>2, <1>3

\* What a call is going to write is what it was, or no longer anything.
Kept(c) ==
  \/ call'[c].imp = call[c].imp /\ call'[c].art = call[c].art
  \/ call'[c].imp = Draft /\ call'[c].art = Passing({})

LEMMA TruthStep ==
  ASSUME Typed, LockInv, LoggedInv, TruthInv, NEW c \in Callers, Step(c) \/ Crash(c)
  PROVE  TruthInv'
<1>1. /\ \A d \in Callers \ {c} : call'[d] = call[d] /\ held'[d] = held[d]
      /\ call[c].step # "idle" => call'[c].req = call[c].req
  BY OneCall
<1>2. /\ DOMAIN manifest = Impls /\ DOMAIN artifact = Impls /\ DOMAIN by = Impls
      /\ call \in [Callers -> Call] /\ call[c] \in Call
      /\ \A d \in Callers : call[d].step # "idle" => Mine(d) \in Impls /\ Cmd(d) \in Commands
      /\ lock \in Callers \cup {Nothing} /\ Nothing \notin Callers
  BY NothingIsNoCaller DEF Typed, FilesType, CallsType, Mine, Cmd, TruthInv, Request
<1>3. ASSUME NEW s, Goto(c, s)
      PROVE  call'[c].step = s /\ call'[c].imp = call[c].imp /\ call'[c].art = call[c].art
  BY <1>2, <1>3 DEF Goto, Call
<1>4. ASSUME NEW s, Return(c, s)
      PROVE  call'[c].step = s /\ call'[c].imp = Draft /\ call'[c].art = Passing({})
  BY <1>2, <1>4 DEF Return, Call
\* The other commands, as long as no promotion has written an artifact.
<1>5. ASSUME NEW d \in Callers \ {c},
             \A i \in Impls : artifact'[i] # Torn /\ by'[i].artifact = "promote" =>
               artifact'[i] = artifact[i] /\ by[i].artifact = "promote"
      PROVE  CallTruth(d)'
  BY <1>1, <1>2, <1>5 DEF TruthInv, CallTruth, Mine, Cmd
\* A promotion leaves BeforeManifest with its manifest only.
<1>6. ASSUME \/ lock' = lock /\ (call[c].step \in BeforeManifest => call'[c].step \in BeforeManifest)
             \/ lock = Nothing
             \/ lock = c /\ call[c].step \notin BeforeManifest,
             call[c].step # "idle"
      PROVE  \A i : Replacing(i) => Replacing(i)'
  BY <1>1, <1>2, <1>6 DEF Replacing, Mine
<1>7. ASSUME UNCHANGED <<manifest, artifact, by>>, \A i : Replacing(i) => Replacing(i)',
             CallTruth(c)'
      PROVE  TruthInv'
  <2>1. \A i \in Impls : FileTruth(i)'
    BY <1>7 DEF TruthInv, FileTruth
  <2>2. \A d \in Callers : CallTruth(d)'
    BY <1>5, <1>7
  <2> QED BY <1>7, <2>1, <2>2 DEF TruthInv
<1>8. ASSUME Sound(call'[c].imp), Unfailing(call'[c].art),
             call'[c].step \notin {"lock", "truncate_artifact", "fill_artifact", "manifest"}
      PROVE  CallTruth(c)'
  BY <1>8 DEF CallTruth
<1>9. CallTruth(c)
  BY DEF TruthInv
<1>10. Cmd(c) = call[c].req.cmd /\ Cmd(c)' = call'[c].req.cmd /\ Mine(c) = call[c].req.impl
       /\ Mine(c)' = call'[c].req.impl
  BY DEF Cmd, Mine
<1> USE DEF At, Kept
<1>11. CASE Arrive(c)
  <2>1. PICK r \in Request :
          call' = [call EXCEPT ![c].req = r,
                               ![c].step = IF r.cmd = "install" THEN "truncate_manifest" ELSE "find"]
    BY <1>11 DEF Arrive
  <2>2. call'[c].step \in {"find", "truncate_manifest"} /\ call'[c].imp = call[c].imp
        /\ call'[c].art = call[c].art
    BY <1>2, <2>1 DEF Call
  <2>3. CallTruth(c)'
    BY <1>8, <1>9, <2>2 DEF CallTruth
  <2>4. UNCHANGED <<manifest, artifact, by, lock>> /\ call[c].step = "idle"
    BY <1>11 DEF Arrive, registry
  <2>5. \A i : Replacing(i) => Replacing(i)'
    <3> SUFFICES ASSUME NEW i, Replacing(i) PROVE Replacing(i)'
      OBVIOUS
    <3>1. lock \in Callers \ {c}
      BY <1>2, <2>4 DEF Replacing, BeforeManifest
    <3> QED BY <1>1, <2>4, <3>1 DEF Replacing, Mine
  <2> QED BY <1>7, <2>3, <2>4, <2>5
<1>12. CASE Find(c)
  <2>1. /\ UNCHANGED <<manifest, artifact, by>> /\ call[c].step = "find"
        /\ call'[c].req = call[c].req
        /\ Fail(c) \/ UNCHANGED lock
    BY <1>1, <1>12 DEF Find, registry
  <2>2. \A i : Replacing(i) => Replacing(i)'
    BY <1>6, <2>1 DEF Fail, Unlock, BeforeManifest
  <2>3. ASSUME NEW s, NEW m, NEW e, FoundBy(c, s, m, e) 
        PROVE  call'[c].step = s /\ call'[c].imp = m /\ call'[c].art = e
    BY <1>2, <2>3 DEF FoundBy, Call
  <2>4. CASE Fail(c)
    <3>1. CallTruth(c)'
      BY <1>4, <1>8, <2>4, OthersSound DEF Fail
    <3> QED BY <1>7, <2>1, <2>2, <3>1
  <2>5. CASE Accepts(c)
    <3> DEFINE m == manifest[Mine(c)]
    <3>1. m \in Manifest /\ Sound(m) /\ call[c].req.target \in {"conformant", "admitted"}
          /\ Mine(c) \in Impls
      <4>1. Mine(c) \in Impls /\ call[c].req \in Request
        BY <1>2, <2>1 DEF Typed, CallsType
      <4>2. m \in Manifest /\ m # Torn
        BY <2>5, <4>1 DEF Accepts, Listable, Typed, FilesType
      <4> QED BY <4>1, <4>2, RequestType DEF TruthInv, FileTruth
    <3>2. CASE FoundByPromote(c, m)
      <4>1. PICK passed \in SUBSET {"benchmark", "security"} :
              LET e == PromotedAxes(m.axes, passed)
              IN /\ call[c].req.target = "admitted" => passed = {"benchmark", "security"}
                 /\ FoundBy(c, "lock", PromotedManifest(m, e, call[c].req.target), e)
        BY <3>2 DEF FoundByPromote
      <4>2. /\ call'[c].step = "lock" /\ call'[c].art = PromotedAxes(m.axes, passed)
            /\ call'[c].imp = PromotedManifest(m, PromotedAxes(m.axes, passed), call[c].req.target)
        BY <2>3, <4>1
      <4>3. /\ JustifiedBy(call'[c].imp, call'[c].art)
            /\ Sound(call'[c].imp) /\ Unfailing(call'[c].art)
        <5> HIDE DEF m
        <5> QED BY <3>1, <4>1, <4>2, PromotionEarned
      <4>4. CallTruth(c)'
        BY <4>2, <4>3 DEF CallTruth
      <4> QED BY <1>7, <2>1, <2>2, <4>4
    <3>3. CASE FoundByAdmit(c, m)
      <4>1. call'[c].step = "provenance" /\ call'[c].imp = AdmittedManifest(m)
            /\ call'[c].art = Passing({})
        BY <2>3, <3>3 DEF FoundByAdmit
      <4>2. CallTruth(c)'
        BY <1>8, <3>1, <4>1, OthersSound
      <4> QED BY <1>7, <2>1, <2>2, <4>2
    <3>4. CASE FoundByMint(c, m)
      <4>1. Cmd(c) = "mint"
        BY <3>4 DEF FoundByMint
      <4>2. PICK ok \in BOOLEAN : 
              FoundBy(c, "truncate_artifact", Draft, MeasuredAxes(m.axes, ok))
        BY <3>4 DEF FoundByMint
      <4>3. Sound(call'[c].imp) /\ Unfailing(call'[c].art)
        BY <2>3, <3>1, <4>2, OthersSound
      <4>4. CallTruth(c)'
        BY <1>10, <2>1, <4>1, <4>3 DEF CallTruth
      <4> QED BY <1>7, <2>1, <2>2, <4>4
    <3>5. CASE FoundByAttesting(c)
      <4>1. call'[c].step \in {"log", "publish", "ok"}
            /\ Kept(c)
        <5>1. CASE call[c].req.apply
          <6>1. PICK now \in Seconds :
                  call' = [call EXCEPT ![c].step = IF Cmd(c) = "rekor" THEN "log" ELSE "publish",
                                       ![c].payload = Signed(c, now)]
            BY <3>5, <5>1 DEF FoundByAttesting
          <6> QED BY <1>2, <6>1 DEF Call
        <5>2. CASE ~call[c].req.apply
          BY <1>4, <3>5, <5>2 DEF FoundByAttesting
        <5> QED BY <5>1, <5>2
      <4>2. CallTruth(c)'
        BY <1>8, <1>9, <4>1, OthersSound DEF CallTruth
      <4> QED BY <1>7, <2>1, <2>2, <4>2
    <3> QED BY <1>12, <2>4, <3>2, <3>3, <3>4, <3>5 DEF Find
  <2> QED BY <1>12, <2>4, <2>5 DEF Find
<1>13. CASE Acquire(c)
  <2>1. /\ UNCHANGED <<manifest, artifact, by>> /\ call[c].step = "lock"
        /\ Fail(c) \/ (lock = Nothing /\ Goto(c, "truncate_artifact"))
    BY <1>13 DEF Acquire, registry
  <2>2. \A i : Replacing(i) => Replacing(i)'
    BY <1>6, <2>1 DEF Fail, Unlock, BeforeManifest
  <2>3. CASE Fail(c)
    <3>1. CallTruth(c)'
      BY <1>4, <1>8, <2>3, OthersSound DEF Fail
    <3> QED BY <1>7, <2>1, <2>2, <3>1
  <2>4. CASE Goto(c, "truncate_artifact")
    <3>1. CallTruth(c)'
      BY <1>1, <1>3, <1>9, <1>10, <2>1, <2>4 DEF CallTruth
    <3> QED BY <1>7, <2>1, <2>2, <3>1
  <2> QED BY <2>1, <2>3, <2>4
<1>14. CASE TruncateArtifact(c)
  <2>1. /\ UNCHANGED <<manifest, by, lock>> /\ call[c].step = "truncate_artifact"
        /\ artifact' = [artifact EXCEPT ![Mine(c)] = Torn]
        /\ Goto(c, "fill_artifact")
    BY <1>14 DEF TruncateArtifact
  <2>2. call'[c].step = "fill_artifact" /\ call'[c].imp = call[c].imp /\ call'[c].art = call[c].art
    BY <1>3, <2>1
  <2>3. \A i : Replacing(i) => Replacing(i)'
    BY <1>6, <2>1, <2>2 DEF BeforeManifest
  <2>4. \A i \in Impls : artifact'[i] # Torn => artifact'[i] = artifact[i]
    BY <1>2, <2>1
  <2>5. CallTruth(c)'
    BY <1>1, <1>9, <1>10, <2>1, <2>2 DEF CallTruth
  <2>6. \A d \in Callers : CallTruth(d)'
    BY <1>5, <2>1, <2>4, <2>5
  <2>7. \A i \in Impls : FileTruth(i)'
    BY <2>1, <2>3, <2>4 DEF TruthInv, FileTruth
  <2> QED BY <2>1, <2>6, <2>7 DEF TruthInv
<1>15. CASE FillArtifact(c)
  <2>1. /\ UNCHANGED <<manifest, lock>> /\ call[c].step = "fill_artifact"
        /\ artifact' = [artifact EXCEPT ![Mine(c)] = call[c].art]
        /\ by' = [by EXCEPT ![Mine(c)].artifact = Cmd(c)]
        /\ IF Cmd(c) = "promote" THEN Goto(c, "manifest") ELSE Return(c, "ok")
        /\ Mine(c) \in Impls /\ Cmd(c) \in Commands
    BY <1>2, <1>15 DEF FillArtifact
  <2>2. /\ by' \in [Impls -> [manifest : Commands \cup {"promote"},
                              artifact : Commands \cup {"promote"}]]
        /\ by'[Mine(c)].artifact = Cmd(c)
        /\ artifact'[Mine(c)] = call[c].art
        /\ \A i \in Impls : by'[i].manifest = by[i].manifest
        /\ \A i \in Impls \ {Mine(c)} : by'[i] = by[i] /\ artifact'[i] = artifact[i]
    BY <1>2, <2>1 DEF TruthInv
  <2>3. CASE Cmd(c) = "promote"
    <3>1. /\ call'[c].step = "manifest" /\ lock = c
          /\ call'[c].imp = call[c].imp /\ call'[c].art = call[c].art
      BY <1>3, <2>1, <2>3 DEF LockInv, InLock
    <3>2. CallTruth(c)'
      <4>1. Sound(call'[c].imp) /\ Unfailing(call'[c].art)
        BY <1>9, <3>1 DEF CallTruth
      <4>2. JustifiedBy(call'[c].imp, call'[c].art)
        BY <1>9, <2>1, <2>3, <3>1 DEF CallTruth
      <4>3. Mine(c)' = Mine(c)
        BY <1>1, <1>10, <2>1
      <4>4. artifact'[Mine(c)'] = call'[c].art
        BY <2>2, <3>1, <4>3
      <4> QED BY <4>1, <4>2, <4>4 DEF CallTruth
    <3>3. ASSUME NEW d \in Callers \ {c} PROVE CallTruth(d)'
      <4>1. CallTruth(d) /\ call'[d] = call[d]
        BY <1>1 DEF TruthInv
      <4>2. ~(Cmd(d) = "promote" /\ call[d].step = "manifest")
        BY <3>1, <3>3 DEF LockInv, InLock
      <4> QED BY <4>1, <4>2 DEF CallTruth, Cmd
    <3>4. \A i : Replacing(i) => Replacing(i)'
      BY <1>6, <2>1, <3>1 DEF BeforeManifest
    <3>5. \A i : i = Mine(c) => Replacing(i)'
      BY <1>1, <1>2, <2>1, <3>1 DEF Replacing, BeforeManifest, Mine
    <3>6. ASSUME NEW i \in Impls PROVE FileTruth(i)'
      <4>1. FileTruth(i)
        BY DEF TruthInv
      <4>2. CASE i = Mine(c)
        <5>1. /\ Unfailing(artifact'[i]) /\ by'[i].artifact = "promote" /\ Replacing(i)'
              /\ manifest'[i] = manifest[i]
          BY <1>9, <2>1, <2>2, <2>3, <3>5, <4>2 DEF CallTruth
        <5> QED BY <4>1, <5>1 DEF FileTruth
      <4>3. CASE i # Mine(c)
        BY <2>1, <2>2, <3>4, <4>1, <4>3 DEF FileTruth
      <4> QED BY <4>2, <4>3
    <3> QED BY <2>2, <3>2, <3>3, <3>6 DEF TruthInv
  <2>4. CASE Cmd(c) # "promote"
    <3>1. call'[c].step = "ok" /\ call'[c].imp = Draft /\ call'[c].art = Passing({})
      BY <1>4, <2>1, <2>4
    <3>2. CallTruth(c)'
      BY <1>8, <3>1, OthersSound
    <3>3. \A i \in Impls : by'[i].artifact = "promote" =>
            artifact'[i] = artifact[i] /\ by[i].artifact = "promote"
      BY <2>2, <2>4
    <3>4. \A d \in Callers : CallTruth(d)'
      BY <1>5, <3>2, <3>3
    <3>5. \A i : Replacing(i) => Replacing(i)'
      <4> SUFFICES ASSUME NEW i, Replacing(i) PROVE Replacing(i)'
        OBVIOUS
      <4>1. lock # c
        BY <2>1, <2>4 DEF Replacing, LockInv
      <4> QED BY <1>1, <1>2, <2>1, <4>1 DEF Replacing, Mine
    <3>6. \A i \in Impls : FileTruth(i)'
      <4> SUFFICES ASSUME NEW i \in Impls PROVE FileTruth(i)'
        OBVIOUS
      <4>1. FileTruth(i)
        BY DEF TruthInv
      <4>2. CASE i = Mine(c)
        <5>1. /\ artifact'[i] \in Evidence /\ Unfailing(artifact'[i])
              /\ by'[i].artifact # "promote" /\ manifest'[i] = manifest[i]
          BY <1>2, <1>9, <2>1, <2>2, <2>4, <4>2 DEF CallTruth, Call
        <5> QED BY <4>1, <5>1 DEF FileTruth
      <4>3. CASE i # Mine(c)
        BY <2>1, <2>2, <3>5, <4>1, <4>3 DEF FileTruth
      <4> QED BY <4>2, <4>3
    <3> QED BY <2>2, <3>4, <3>6 DEF TruthInv
  <2> QED BY <2>3, <2>4
<1>16. CASE ReplaceManifest(c)
  <2>1. /\ UNCHANGED <<artifact, lock>> /\ call[c].step = "manifest"
        /\ manifest' = [manifest EXCEPT ![Mine(c)] = call[c].imp]
        /\ by' = [by EXCEPT ![Mine(c)].manifest = Cmd(c)]
        /\ Mine(c) \in Impls /\ Cmd(c) = "promote" /\ lock = c
    BY <1>2, <1>16 DEF ReplaceManifest, LockInv, InLock
  <2>2. /\ by' \in [Impls -> [manifest : Commands \cup {"promote"},
                              artifact : Commands \cup {"promote"}]]
        /\ manifest'[Mine(c)] = call[c].imp
        /\ \A i \in Impls : by'[i].artifact = by[i].artifact
        /\ \A i \in Impls \ {Mine(c)} : by'[i] = by[i] /\ manifest'[i] = manifest[i]
    BY <1>2, <2>1 DEF TruthInv
  <2>3. call'[c].step \in {"provenance", "log"} /\ call'[c].imp = call[c].imp
        /\ call'[c].art = call[c].art
    BY <1>2, <1>16 DEF ReplaceManifest, Call
  <2>4. CallTruth(c)'
    BY <1>8, <1>9, <2>3 DEF CallTruth
  <2>5. \A d \in Callers : CallTruth(d)'
    BY <1>5, <2>1, <2>2, <2>4
  <2>6. ASSUME NEW i \in Impls PROVE FileTruth(i)'
    <3>1. CASE i = Mine(c)
      <4>1. FileTruth(i) /\ call[c].art \in Evidence
        BY <1>2 DEF TruthInv, Call
      <4>2. manifest'[i] = call[c].imp /\ artifact'[i] = artifact[i] /\ by'[i].artifact = by[i].artifact
        BY <2>1, <2>2, <3>1
      <4>3. /\ Sound(call[c].imp) /\ JustifiedBy(call[c].imp, call[c].art)
            /\ artifact[i] # Torn /\ by[i].artifact = "promote" => artifact[i] = call[c].art
        BY <1>9, <2>1, <3>1 DEF CallTruth
      <4> QED BY <4>1, <4>2, <4>3 DEF FileTruth
    <3>2. CASE i # Mine(c)
      <4>1. ~Replacing(i)
        BY <2>1, <3>2 DEF Replacing
      <4> QED BY <2>1, <2>2, <3>2, <4>1 DEF TruthInv, FileTruth
    <3> QED BY <3>1, <3>2
  <2> QED BY <2>2, <2>5, <2>6 DEF TruthInv
<1>17. CASE WriteProvenance(c)
  <2>1. /\ UNCHANGED <<manifest, artifact, by, lock>> /\ call[c].step = "provenance"
        /\ Goto(c, "log") \/ Goto(c, "truncate_manifest") \/ Return(c, "ok")
    BY <1>17 DEF WriteProvenance
  <2>2. call'[c].step \in {"log", "truncate_manifest", "ok"}
        /\ Kept(c)
    BY <1>3, <1>4, <2>1
  <2>3. CallTruth(c)'
    BY <1>8, <1>9, <2>2, OthersSound DEF CallTruth
  <2>4. \A i : Replacing(i) => Replacing(i)'
    BY <1>6, <2>1 DEF BeforeManifest
  <2> QED BY <1>7, <2>1, <2>3, <2>4
\* The commands that write manifests without the lock are not promotions.
<1>18. CASE TruncateManifest(c) \/ FillManifest(c)
  <2>1. /\ UNCHANGED <<artifact, lock>> /\ call[c].step \in {"truncate_manifest", "fill_manifest"}
        /\ Mine(c) \in Impls /\ Cmd(c) # "promote" /\ Cmd(c) \in Commands
        /\ call[c].step \notin BeforeManifest
    BY <1>2, <1>18 DEF TruncateManifest, FillManifest, LoggedInv, LoggedOf, BeforeManifest
  <2>2. /\ by' \in [Impls -> [manifest : Commands \cup {"promote"},
                              artifact : Commands \cup {"promote"}]]
        /\ \A i \in Impls : by'[i].artifact = by[i].artifact
        /\ \A i \in Impls \ {Mine(c)} : by'[i] = by[i] /\ manifest'[i] = manifest[i]
        /\ \/ manifest'[Mine(c)] = Torn
           \/ manifest'[Mine(c)] = call[c].imp /\ by'[Mine(c)].manifest = Cmd(c)
    BY <1>2, <1>18, <2>1 DEF TruncateManifest, FillManifest, TruthInv
  <2>3. call'[c].step \in {"fill_manifest", "ok"}
        /\ Kept(c)
    BY <1>3, <1>4, <1>18 DEF TruncateManifest, FillManifest
  <2>4. CallTruth(c)'
    BY <1>8, <1>9, <2>3, OthersSound DEF CallTruth
  <2>5. \A d \in Callers : CallTruth(d)'
    BY <1>5, <2>1, <2>2, <2>4
  <2>6. \A i : Replacing(i) => Replacing(i)'
    BY <1>6, <2>1 DEF BeforeManifest
  <2>7. ASSUME NEW i \in Impls PROVE FileTruth(i)'
    <3>1. CASE i = Mine(c)
      <4>1. FileTruth(i) /\ Sound(call[c].imp)
        BY <1>9 DEF TruthInv, CallTruth
      <4> QED BY <2>1, <2>2, <2>6, <3>1, <4>1 DEF FileTruth
    <3>2. CASE i # Mine(c)
      BY <2>1, <2>2, <2>6, <3>2 DEF TruthInv, FileTruth
    <3> QED BY <3>1, <3>2
  <2> QED BY <2>2, <2>5, <2>7 DEF TruthInv
<1>19. CASE \/ PublishAttestation(c) \/ PublishBundle(c) \/ BeginLog(c) \/ LogLine(c)
            \/ CheckLine(c) \/ PublishRekor(c) \/ LogRefused(c) \/ End(c) \/ LogNewline(c)
  <2>1. /\ UNCHANGED <<manifest, artifact, by>>
        /\ call[c].step \in {"publish", "log", "line", "newline", "check", "publish_rekor", "end"}
        /\ lock' = lock \/ Unlock(c)
    BY <1>19 DEF PublishAttestation, PublishBundle, BeginLog, LogLine, CheckLine, PublishRekor,
       LogRefused, End, LogNewline, Fail, registry
  <2>2. /\ call'[c].step \in {"log", "line", "newline", "check", "publish_rekor", "end", "ok",
                             "failed"}
        /\ Kept(c)
    <3>1. CASE LogNewline(c)
      BY <1>2, <3>1 DEF LogNewline, Call
    <3>2. CASE ~LogNewline(c)
      BY <1>3, <1>4, <1>19, <3>2 DEF PublishAttestation, PublishBundle, BeginLog, LogLine, CheckLine,
         PublishRekor, LogRefused, End, Fail
    <3> QED BY <3>1, <3>2
  <2>3. CallTruth(c)'
    BY <1>8, <1>9, <2>2, OthersSound DEF CallTruth
  <2>4. \A i : Replacing(i) => Replacing(i)'
    BY <1>6, <2>1 DEF Unlock, BeforeManifest
  <2> QED BY <1>7, <2>1, <2>3, <2>4
<1>20. CASE Crash(c)
  <2>1. UNCHANGED <<manifest, artifact, by, lock>> /\ Return(c, "crashed") /\ call[c].step # "idle"
    BY <1>20 DEF Crash, registry
  <2>2. CallTruth(c)'
    BY <1>4, <1>8, <2>1, OthersSound
  <2>3. \A i : Replacing(i) => Replacing(i)'
    BY <1>4, <1>6, <2>1 DEF BeforeManifest
  <2> QED BY <1>7, <2>1, <2>2, <2>3
<1> QED
  BY <1>11, <1>12, <1>13, <1>14, <1>15, <1>16, <1>17, <1>18, <1>19, <1>20 DEF Step

-----------------------------------------------------------------------------
(* The registry *)

RegistryInv == Typed /\ LockInv /\ RaceInv /\ ReviewInv /\ LoggedInv /\ TruthInv /\ ChainInv

LEMMA RegistryInvInit == Init => RegistryInv
<1> SUFFICES ASSUME Init PROVE RegistryInv
  OBVIOUS
<1>1. Typed /\ ChainInv
  BY TypedInit, ChainInit DEF Init
<1>2. \A c \in Callers : call[c] = Idle /\ held[c].writing = "none"
  BY DEF Init, LogInit, NotAppending
<1>3. LockInv
  BY <1>2 DEF Init, LockInv, InLock, Idle
<1>4. RaceInv
  BY <1>2 DEF Init, LogInit, RaceInv, Appending
<1>5. ReviewInv
  <2>1. \A i \in Impls : manifest[i].status # "admitted"
    BY DEF Init, Draft, Vouched, Conformant
  <2> QED BY <1>2, <2>1 DEF ReviewInv, Unreviewed, Idle
<1>6. LoggedInv
  BY <1>2 DEF Init, LoggedInv, LoggedOf, BundleNamesItsLine, Idle
<1>7. TruthInv
  <2>1. by \in [Impls -> [manifest : Commands \cup {"promote"}, artifact : Commands \cup {"promote"}]]
    BY DEF Init
  <2>2. ASSUME NEW i \in Impls PROVE FileTruth(i)
    <3>1. manifest[i] \in {Draft, Vouched, Conformant}
      BY DEF Init
    <3>2. /\ Sound(manifest[i]) /\ manifest[i].axes \in Evidence /\ Unfailing(manifest[i].axes)
          /\ manifest[i].status # "admitted"
      <4>1. Sound(manifest[i])
        BY <3>1, OthersSound
      <4>2. Unfailing(manifest[i].axes)
        BY <4>1 DEF Sound, AnyFail, Unfailing
      <4>3. manifest[i].axes \in Evidence
        BY <3>1, Constants
      <4>4. manifest[i].status # "admitted"
        BY <3>1 DEF Draft, Vouched, Conformant
      <4> QED BY <4>1, <4>2, <4>3, <4>4
    <3>3. artifact[i] = IF NeedsArtifact(manifest[i].status) THEN manifest[i].axes ELSE Nothing
      BY DEF Init
    <3>4. NeedsArtifact(manifest[i].status) => JustifiedBy(manifest[i], artifact[i])
      <4> SUFFICES ASSUME NeedsArtifact(manifest[i].status)
                   PROVE  JustifiedBy(manifest[i], artifact[i])
        OBVIOUS
      <4>1. manifest[i] = Conformant
        BY <3>1 DEF NeedsArtifact, Draft, Vouched
      <4>2. /\ manifest[i].adapter = TRUE /\ manifest[i].status = "conformant"
            /\ ~AnyFail(manifest[i].axes)
        BY <3>2, <4>1 DEF Sound, Conformant
      <4> QED BY <3>2, <3>3, <4>2, ArtifactIsWorth DEF JustifiedBy
    <3>5. by[i].artifact = "promote"
      BY DEF Init
    <3> QED BY <3>2, <3>3, <3>4, <3>5 DEF FileTruth
  <2>3. \A c \in Callers : CallTruth(c)
    BY <1>2, OthersSound DEF CallTruth, Idle
  <2> QED BY <2>1, <2>2, <2>3 DEF TruthInv
<1> QED BY <1>1, <1>3, <1>4, <1>5, <1>6, <1>7 DEF RegistryInv

LEMMA RegistryInvStep == RegistryInv /\ [Next]_vars => RegistryInv'
<1> SUFFICES ASSUME RegistryInv, [Next]_vars PROVE RegistryInv'
  OBVIOUS
<1> USE DEF RegistryInv
<1>1. Typed'
  BY TypedStep
<1>2. ASSUME NEW c \in Callers, Step(c) \/ Crash(c) PROVE RegistryInv'
  <2>1. LockInv' /\ RaceInv' /\ ReviewInv' /\ LoggedInv' /\ TruthInv'
    BY <1>2, LockStep, RaceStep, ReviewStep, LoggedStep, TruthStep
  <2>2. ChainInv'
    <3>1. CASE LogStep(c)
      BY <3>1, ChainStep DEF Typed
    <3>2. CASE UNCHANGED logVars
      BY <3>2 DEF logVars, ChainInv, Appending
    <3> QED BY <1>2, <3>1, <3>2, OneActs
  <2> QED BY <1>1, <2>1, <2>2
<1>3. CASE UNCHANGED vars
  <2>1. LockInv'
    BY <1>3 DEF vars, LockInv, Cmd
  <2>2. RaceInv'
    BY <1>3 DEF vars, logVars, RaceInv, Appending, Cmd
  <2>3. ReviewInv'
    BY <1>3 DEF vars, registry, ReviewInv, Unreviewed, Mine, Cmd
  <2>4. ChainInv'
    BY <1>3 DEF vars, logVars, ChainInv, Appending
  <2>5. LoggedInv'
    BY <1>3 DEF vars, registry, logVars, LoggedInv, LoggedOf, Numbers, IsLineOf,
                BundleNamesItsLine, Mine, Cmd
  <2>6. TruthInv'
    BY <1>3 DEF vars, registry, TruthInv, FileTruth, CallTruth, Replacing, Mine, Cmd
  <2> QED BY <1>1, <2>1, <2>2, <2>3, <2>4, <2>5, <2>6
<1> QED BY <1>2, <1>3 DEF Next

LEMMA RegistryInvAlways == Spec => []RegistryInv
BY RegistryInvInit, RegistryInvStep, PTL DEF Spec

\* THEOREM: when the log no longer verifies, a process died in the middle of
\* its line, or one of two overlapping appends was not a promotion's.
THEOREM ChainOutsideTheLock == Spec => []ChainBreaksOutsideTheLock
<1>1. RegistryInv => ChainBreaksOutsideTheLock
  BY DEF RegistryInv, ChainInv, RaceInv, ChainBreaksOutsideTheLock
<1> QED BY <1>1, RegistryInvAlways, PTL

\* THEOREM: no settled manifest is admitted without its review record.
THEOREM AdmittedAreReviewed == Spec => []AdmissionsAreReviewed
<1>1. RegistryInv => AdmissionsAreReviewed
  <2> SUFFICES ASSUME RegistryInv, NEW i \in Impls, Settled(i), Unreviewed(i) PROVE FALSE
    BY DEF AdmissionsAreReviewed, Unreviewed
  <2> QED BY DEF RegistryInv, ReviewInv, Settled, Mine
<1> QED BY <1>1, RegistryInvAlways, PTL

\* THEOREM: a command that reports success has its line in the log, whatever
\* the others append in between.
THEOREM SuccessIsLogged == Spec => []OkIsLogged
<1>1. RegistryInv => OkIsLogged
  BY DEF RegistryInv, LoggedInv, LoggedOf, IsLineOf, OkIsLogged, At
<1> QED BY <1>1, RegistryInvAlways, PTL

\* THEOREM: while the log verifies, a published bundle names its own line.
THEOREM BundlesNameTheirLines == Spec => []BundleNamesItsLine
<1>1. RegistryInv => BundleNamesItsLine
  BY DEF RegistryInv, LoggedInv
<1> QED BY <1>1, RegistryInvAlways, PTL

\* THEOREM: neither drafts nor attestations nor admissions, nor the death of any
\* of them, make a promoted manifest claim more than its artifact justifies, and
\* evidence minted beside it takes at most an admission away.
THEOREM PromotedAreTruthful == Spec => []PromotedStaysTruthful
<1>1. RegistryInv => PromotedStaysTruthful
  <2> SUFFICES ASSUME RegistryInv, NEW i \in Impls,
                      Settled(i), manifest[i] # Torn, NeedsArtifact(manifest[i].status),
                      by[i].manifest = "promote", artifact[i] # Torn,
                      \/ by[i].artifact = "promote"
                      \/ /\ by[i].artifact = "mint" /\ manifest[i].status = "conformant"
                         /\ artifact[i]["conformance"] = "pass"
               PROVE  artifact[i] # Nothing /\ JustifiedBy(manifest[i], artifact[i])
    BY DEF PromotedStaysTruthful, JustifiedBy
  <2>1. ~Replacing(i)
    BY DEF Settled, Replacing, Mine
  <2>2. FileTruth(i) /\ Typed
    BY DEF RegistryInv, TruthInv
  <2>3. CASE by[i].artifact = "promote"
    BY <2>1, <2>2, <2>3, NothingIsNoEvidence DEF FileTruth
  <2>4. CASE by[i].artifact = "mint" /\ manifest[i].status = "conformant"
             /\ artifact[i]["conformance"] = "pass"
    <3>1. artifact[i] \in Evidence /\ artifact[i] # Nothing
      BY <2>2, <2>4, NothingIsNoEvidence DEF FileTruth
    <3>2. ~AnyFail(artifact[i])
      BY <2>2, <2>4, <3>1 DEF FileTruth, Unfailing, AnyFail
    <3>3. manifest[i].adapter = TRUE
      BY <2>2 DEF FileTruth, Sound, Typed, FilesType, Manifest
    <3> QED BY <2>4, <3>1, <3>2, <3>3, ArtifactIsWorth DEF JustifiedBy
  <2> QED BY <2>3, <2>4
<1> QED BY <1>1, RegistryInvAlways, PTL

-----------------------------------------------------------------------------
(* The commands as writers of the log *)

\* What a command holds when it is not appending, and who appends.
WriterInv ==
  /\ torn \in BOOLEAN
  /\ \A c \in Callers : ~Appending(c) => held[c] = NotAppending
  /\ \A c \in Callers : At(c, "log") => Cmd(c) \in Logging

LEMMA WriterInit == Init => WriterInv
<1> SUFFICES ASSUME Init PROVE WriterInv
  OBVIOUS
<1>1. torn = FALSE /\ \A c \in Callers : held[c] = NotAppending /\ call[c] = Idle
  BY DEF Init, LogInit
<1>2. Idle.step # "log"
  BY DEF Idle
<1> QED BY <1>1, <1>2 DEF WriterInv, At

LEMMA WriterStep ==
  ASSUME RegistryInv, WriterInv, NEW c \in Callers, Step(c) \/ Crash(c)
  PROVE  WriterInv'
<1>1. /\ \A d \in Callers \ {c} : call'[d] = call[d] /\ held'[d] = held[d]
      /\ call[c].step # "idle" => call'[c].req = call[c].req
      /\ Typed /\ LockInv
  BY OneCall DEF RegistryInv
<1>2. call \in [Callers -> Call] /\ call[c] \in Call /\ DOMAIN held = Callers
  BY <1>1 DEF Typed, CallsType, LogShape, HeldShape
<1>3. LogStep(c) \/ UNCHANGED logVars
  BY OneActs
<1>4. torn' \in BOOLEAN
  BY <1>3 DEF WriterInv, LogStep, ReadLog, WriteLine, WriteNewline, AbandonAppend, logVars
<1>5. ASSUME ~Appending(c)' PROVE held'[c] = NotAppending
  <2>1. CASE UNCHANGED logVars
    BY <1>5, <2>1 DEF logVars, Appending, WriterInv
  <2>2. CASE WriteNewline(c) \/ AbandonAppend(c)
    BY <1>2, <2>2 DEF WriteNewline, AbandonAppend
  <2>3. CASE WriteLine(c)
    <3>1. held'[c] = [held[c] EXCEPT !.writing = "newline"] /\ held[c].writing = "line"
      BY <1>2, <2>3 DEF WriteLine
    <3>2. \E E : held[c] \in [entry : E, writing : {"none", "line", "newline"}]
      BY <1>1 DEF Typed, LogShape, HeldShape
    <3> QED BY <1>5, <3>1, <3>2 DEF Appending
  <2>4. CASE \E kind, impl, payload : ReadLog(c, kind, impl, payload)
    <3>1. held'[c].writing = "line"
      BY <1>2, <2>4 DEF ReadLog
    <3> QED BY <1>5, <3>1 DEF Appending
  <2> QED BY <1>3, <2>1, <2>2, <2>3, <2>4 DEF LogStep
<1>6. ASSUME At(c, "log")' PROVE Cmd(c)' \in Logging
  <2> USE DEF At, Cmd, Goto, Logging, Attesting
  <2>0. /\ \A result \in Over : ~Return(c, result)
        /\ ~ \E step \in Steps \ {"log"} : Goto(c, step)
    <3>1. ASSUME NEW step \in Steps,
                 Goto(c, step) \/ call' = [call EXCEPT ![c].step = step, ![c].imp = Draft, ![c].art = Passing({})]
          PROVE  call'[c].step = step
      BY <1>2, <3>1 DEF Call
    <3> QED BY <1>6, <3>1 DEF Return, Over, Steps
  <2>1. \/ call[c].step = "provenance" /\ Cmd(c) = "promote"
        \/ call[c].step = "manifest" /\ Cmd(c) = "promote"
        \/ call[c].step = "publish" /\ Cmd(c) \in Attesting
        \/ call[c].step = "find" /\ Cmd(c) \in Attesting
    <3>1. CASE Find(c)
      <4>1. ASSUME NEW step \in {"lock", "provenance", "truncate_artifact"}, NEW m, NEW e,
                   FoundBy(c, step, m, e)
            PROVE  call'[c].step = step
        BY <1>2, <4>1 DEF FoundBy, Call
      <4>2. ~FoundByPromote(c, manifest[Mine(c)]) /\ ~FoundByAdmit(c, manifest[Mine(c)])
              /\ ~FoundByMint(c, manifest[Mine(c)])
        BY <1>6, <4>1 DEF FoundByPromote, FoundByAdmit, FoundByMint
      <4>3. FoundByAttesting(c)
        BY <2>0, <3>1, <4>2 DEF Find, Fail, Over
      <4> QED BY <3>1, <4>3 DEF Find, FoundByAttesting
    <3>2. CASE ReplaceManifest(c)
      BY <1>1, <3>2 DEF ReplaceManifest, LockInv
    <3>3. CASE WriteProvenance(c)
      BY <2>0, <3>3 DEF WriteProvenance, Over, Steps
    <3>4. CASE PublishAttestation(c) \/ PublishBundle(c)
      BY <3>4 DEF PublishAttestation, PublishBundle
    <3>5. ~Arrive(c)
      <4>1. ASSUME NEW q, NEW step \in {"find", "truncate_manifest"},
                   call' = [call EXCEPT ![c].req = q, ![c].step = step]
            PROVE  call'[c].step = step
        BY <1>2, <4>1 DEF Call
      <4> QED BY <1>6, <4>1 DEF Arrive
    <3>6. ~LogNewline(c)
      <4>1. ASSUME NEW n, NEW step \in {"check", "end"},
                   call' = [call EXCEPT ![c].step = step, ![c].index = n]
            PROVE  call'[c].step = step
        BY <1>2, <4>1 DEF Call
      <4> QED BY <1>6, <4>1 DEF LogNewline
    <3>7. ~ (\/ Acquire(c) \/ TruncateArtifact(c) \/ FillArtifact(c) \/ TruncateManifest(c)
             \/ FillManifest(c) \/ BeginLog(c) \/ LogRefused(c) \/ LogLine(c) \/ CheckLine(c)
             \/ PublishRekor(c) \/ End(c) \/ Crash(c))
      <4> HIDE DEF Goto
      <4> QED BY <2>0
          DEF Acquire, Fail, TruncateArtifact, FillArtifact, TruncateManifest, FillManifest,
              BeginLog, LogRefused, LogLine, CheckLine, PublishRekor, End, Crash, Over, Steps
    <3> QED BY <3>1, <3>2, <3>3, <3>4, <3>5, <3>6, <3>7 DEF Step
  <2> QED BY <1>1, <2>1
<1>7. ASSUME NEW d \in Callers \ {c}
      PROVE  /\ ~Appending(d)' => held'[d] = NotAppending
             /\ At(d, "log")' => Cmd(d)' \in Logging
  BY <1>1, <1>7 DEF WriterInv, Appending, At, Cmd
<1> QED BY <1>4, <1>5, <1>6, <1>7 DEF WriterInv

\* THEOREM: to the transparency log the commands are appenders and nothing else.
\* Whatever else they do, with the lock or without, and wherever they die, what
\* becomes of the log is what becomes of it when any processes append to it.
THEOREM CommandsOnlyAppend ==
  ASSUME Kinds = Logging, Subjects = Impls, Payload \subseteq Payloads
  PROVE  Spec => LogSpec
<1>1. Init => LogInit
  BY DEF Init
<1>2. RegistryInv /\ WriterInv /\ [Next]_vars => WriterInv'
  <2> SUFFICES ASSUME RegistryInv, WriterInv, [Next]_vars PROVE WriterInv'
    OBVIOUS
  <2>1. CASE Next
    BY <2>1, WriterStep DEF Next
  <2>2. CASE UNCHANGED vars
    BY <2>2 DEF vars, logVars, WriterInv, Appending, At, Cmd
  <2> QED BY <2>1, <2>2
<1>3. RegistryInv /\ WriterInv /\ [Next]_vars => [LogNext]_logVars
  <2> SUFFICES ASSUME RegistryInv, WriterInv, Next, ~UNCHANGED logVars PROVE LogNext
    BY DEF vars
  <2>1. PICK c \in Callers : Step(c) \/ Crash(c)
    BY DEF Next
  <2>2. CASE BeginLog(c)
    <3>1. Cmd(c) \in Kinds
      BY <2>2 DEF BeginLog, WriterInv
    <3>2. Mine(c) \in Subjects /\ call[c].payload \in Payloads
      BY <2>2, RequestType DEF BeginLog, RegistryInv, Typed, CallsType, Carries, At, Mine
    <3> QED BY <2>2, <3>1, <3>2 DEF BeginLog, LogNext
  <2>3. CASE LogLine(c) \/ LogNewline(c)
    BY <2>3 DEF LogLine, LogNewline, LogNext
  <2>4. CASE Crash(c)
    <3>1. AbandonAppend(c)
      BY <2>4 DEF Crash
    <3>2. Appending(c)
      <4> SUFFICES ASSUME ~Appending(c) PROVE FALSE
        OBVIOUS
      <4>1. held[c] = NotAppending /\ torn \in BOOLEAN
        BY DEF WriterInv
      <4>2. held' = held
        <5>1. \E E, W : held \in [Callers -> [entry : E, writing : W]]
          BY DEF RegistryInv, Typed, LogShape, HeldShape
        <5> QED BY <3>1, <4>1, <5>1 DEF AbandonAppend
      <4>3. torn' = torn
        BY <3>1, <4>1 DEF AbandonAppend, NotAppending
      <4> QED BY <3>1, <4>2, <4>3 DEF AbandonAppend, logVars
    <3> QED BY <3>1, <3>2 DEF LogNext
  <2>5. CASE Step(c) /\ ~BeginLog(c) /\ ~LogLine(c) /\ ~LogNewline(c)
    BY <2>5 DEF Step, Arrive, Find, Acquire, TruncateArtifact, FillArtifact, ReplaceManifest,
       WriteProvenance, TruncateManifest, FillManifest, PublishAttestation, PublishBundle,
       LogRefused, CheckLine, PublishRekor, End
  <2> QED BY <2>1, <2>2, <2>3, <2>4, <2>5
<1> QED BY <1>1, <1>2, <1>3, WriterInit, RegistryInvAlways, PTL DEF Spec, LogSpec
=============================================================================
