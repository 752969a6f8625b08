---------------------------- MODULE Transparency ----------------------------
(***************************************************************************)
(* The transparency log of the registry (attestation.rs): a file of JSON   *)
(* lines, each with the hash of the one before it.                         *)
(*                                                                         *)
(* append_transparency takes no lock.  It reads and verifies the whole     *)
(* log, computes the next entry, opens the file for appending and calls    *)
(* writeln!, which writes the line and its newline with one system call    *)
(* each.  Between any two of these three steps another process may do one  *)
(* of its own, or the appending process may die.                           *)
(***************************************************************************)
EXTENDS Naturals, Sequences

CONSTANTS
  Callers,    \* processes that append
  Kinds,      \* what an entry is about: a promotion, an attestation, ...
  Subjects,   \* implementation ids
  Payloads,   \* payload digests
  Genesis,    \* the prev_hash of the first entry
  Nothing     \* no entry computed, no caller

ASSUME NothingIsNoCaller == Nothing \notin Callers

VARIABLES
  log,     \* the lines of the file, each the entries written without a newline
           \* between them; open: the last line has no newline yet
  held,    \* the entry an appender has computed and not finished writing, and
           \* whether it is still to write, "line", or its newline only, "newline"
  raced,   \* the pairs of kinds whose appends have overlapped (history)
  torn     \* an appender died between its line and its newline (history)

logVars == <<log, held, raced, torn>>

\* entry_hash covers every field but the time.
Hash(e) == <<e.seq, e.kind, e.impl, e.payload, e.prev>>

Size(l) == Len(l.lines)
Line(l, n) == l.lines[n]
Entry(l, n) == Line(l, n)[1]

\* read_transparency_log: every line must parse as one entry (blank lines are
\* skipped, so they are left out of lines).
Readable(l) == \A n \in 1..Size(l) : Len(Line(l, n)) = 1

PrevHash(l, n) == IF n = 1 THEN Genesis ELSE Hash(Entry(l, n - 1))

\* read_transparency_log and verify_transparency_log.
Verifies(l) ==
  /\ Readable(l)
  /\ \A n \in 1..Size(l) : Entry(l, n).seq = n /\ Entry(l, n).prev = PrevHash(l, n)

\* Mutant: the number of the last entry, not of the next.
NextEntryOffByOne(l, kind, impl, payload) ==
  [seq |-> IF Size(l) = 0 THEN 1 ELSE Size(l), kind |-> kind, impl |-> impl,
   payload |-> payload, prev |-> PrevHash(l, Size(l) + 1)]

NextEntry(l, kind, impl, payload) ==
  [seq |-> Size(l) + 1, kind |-> kind, impl |-> impl, payload |-> payload,
   prev |-> PrevHash(l, Size(l) + 1)]

EmptyLog == [lines |-> <<>>, open |-> FALSE]
NotAppending == [entry |-> Nothing, writing |-> "none"]

LogInit ==
  /\ log = EmptyLog
  /\ held = [c \in Callers |-> NotAppending]
  /\ raced = {}
  /\ torn = FALSE

Appending(c) == held[c].writing # "none"

\* The log does not verify: append_transparency fails.
Refused == ~Verifies(log)

\* The log is read and found whole, and the next entry is computed.
ReadLog(c, kind, impl, payload) ==
  /\ ~Appending(c)
  /\ ~Refused
  /\ held' = [held EXCEPT ![c] = [entry |-> NextEntry(log, kind, impl, payload),
                                  writing |-> "line"]]
  /\ raced' = raced \cup {{kind, held[d].entry.kind} : d \in {d \in Callers : Appending(d)}}
  /\ UNCHANGED <<log, torn>>

\* Mutant: the file is opened for writing at its start.
WithLineRewritten(l, e) == [lines |-> <<<<e>>>>, open |-> TRUE]

\* O_APPEND: the line goes to the end of the file as it is now, and joins a
\* line whose newline is not there yet.
WithLine(l, e) ==
  [lines |-> IF l.open THEN [l.lines EXCEPT ![Size(l)] = Append(@, e)]
             ELSE Append(l.lines, <<e>>),
   open |-> TRUE]

WriteLine(c) ==
  /\ held[c].writing = "line"
  /\ log' = WithLine(log, held[c].entry)
  /\ held' = [held EXCEPT ![c].writing = "newline"]
  /\ UNCHANGED <<raced, torn>>

\* The newline; after another appender's newline it makes a blank line.
WriteNewline(c) ==
  /\ held[c].writing = "newline"
  /\ log' = [log EXCEPT !.open = FALSE]
  /\ held' = [held EXCEPT ![c] = NotAppending]
  /\ UNCHANGED <<raced, torn>>

\* The process of an appender dies.
AbandonAppend(c) ==
  /\ torn' = (torn \/ held[c].writing = "newline")
  /\ held' = [held EXCEPT ![c] = NotAppending]
  /\ UNCHANGED <<log, raced>>

LogNext ==
  \E c \in Callers :
    \/ \E kind \in Kinds, impl \in Subjects, payload \in Payloads :
         ReadLog(c, kind, impl, payload)
    \/ WriteLine(c) \/ WriteNewline(c)
    \/ Appending(c) /\ AbandonAppend(c)

LogSpec == LogInit /\ [][LogNext]_logVars
----------------------------------------------------------------------------
\* Every entry in the file, also those in lines that do not parse.
Entries(l) ==
  UNION {{Line(l, n)[m] : m \in 1..Len(Line(l, n))} : n \in 1..Size(l)}

(* The chain breaks only where two appends overlapped or one of them died  *)
(* before its newline: alone, append_transparency keeps the log "an        *)
(* append-only transparency log" (attestation.rs:1) that verifies.         *)
ChainBreaksByOverlap == Verifies(log) \/ raced # {} \/ torn

(* What is damaged stays damaged: no append mends a log that does not      *)
(* verify, so every promotion and attestation after it fails.              *)
DamageIsPermanent == [][~Verifies(log) => ~Verifies(log')]_logVars
============================================================================
