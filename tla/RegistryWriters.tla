-------------------------- MODULE RegistryWriters --------------------------
(***************************************************************************)
(* The commands that write to one file-backed registry, running at the     *)
(* same time: promotion, which takes .locks/promote.lock (its own steps    *)
(* are the module Promotion; here it is one actor among others), and the   *)
(* commands that take no lock at all: human admission (admit.rs), the      *)
(* registration of Forge drafts (lib.rs), mint-evidence (command bus), and *)
(* the attestations of the CLI (attest, sigstore, rekor).                  *)
(*                                                                         *)
(* Every one of them lists all manifests first, keeps what it read in      *)
(* memory, and later writes whole files.  fs::write truncates a file and   *)
(* then fills it; a promotion renames its manifest into place.             *)
(***************************************************************************)
EXTENDS Admission, Transparency, FiniteSets

CONSTANTS
  Impls,      \* implementation ids
  Commands,   \* the commands a caller may be
  Seconds,    \* clock readings that go into signatures
  MayCrash,   \* whether processes die
  Torn        \* a file that was truncated and not filled yet

ASSUME CommandsAssumption ==
  Commands \subseteq {"promote", "admit", "install", "mint", "attest", "sigstore", "rekor"}

ASSUME NothingIsNoEvidence == Nothing \notin Evidence

Logging == {"promote", "attest", "sigstore", "rekor"}
Attesting == {"attest", "sigstore", "rekor"}

Manifest == [status : LifecycleStatus, adapter : BOOLEAN, axes : Evidence]

\* What a signature or a log line is about: the identity of an implementation
\* (subject_digest), for the attesting commands with the time.  The evidence in
\* the artifact is not part of it.
Payload == [impl : Impls, at : Seconds \cup {Nothing}]

VARIABLES
  manifest,     \* implementations/{id}.json
  artifact,     \* evidence/artifacts/{id}.json: its axes
  provenance,   \* evidence/{id}.provenance.json is there
  attestation,  \* evidence/attestations/{id}.json
  bundle,       \* evidence/sigstore/{id}.bundle.json
  lock,         \* .locks/promote.lock
  by,           \* the commands that last wrote manifest and artifact (history)
  call          \* each caller: its request, next step and memory

registry == <<manifest, artifact, provenance, attestation, bundle>>
vars == <<registry, lock, by, call, logVars>>

Passing(as) == [a \in Axes |-> IF a \in as THEN "pass" ELSE "absent"]

\* What a Forge draft is registered as; one promoted earlier; a candidate with
\* a conformance pass in its manifest and no artifact.
Draft == [status |-> "candidate", adapter |-> TRUE, axes |-> Passing({})]
Vouched == [Draft EXCEPT !.axes = Passing({"build", "conformance"})]
Conformant == [status |-> "conformant", adapter |-> TRUE,
               axes |-> Passing({"build", "conformance", "license"})]

\* Only a promotion has a target; registration and mint-evidence always write.
Request == {r \in [cmd : Commands, impl : Impls, apply : BOOLEAN,
                   target : {"conformant", "admitted"}] :
              /\ r.cmd # "promote" => r.target = "conformant"
              /\ r.cmd \in {"promote", "install", "mint"} => r.apply}

\* Of what a call writes: imp to the manifest, art to the artifact.
Idle == [step |-> "idle", req |-> Nothing, imp |-> Draft, art |-> Passing({}),
         payload |-> Nothing, index |-> 0]

Steps == {"idle", "find", "lock", "truncate_artifact", "fill_artifact", "manifest",
          "provenance", "truncate_manifest", "fill_manifest", "publish", "log", "line",
          "newline", "check", "publish_rekor", "end", "ok", "failed", "crashed"}
Over == {"ok", "failed", "crashed"}

Init ==
  /\ manifest \in [Impls -> {Draft, Vouched, Conformant}]
  /\ artifact = [i \in Impls |-> IF NeedsArtifact(manifest[i].status)
                                 THEN manifest[i].axes ELSE Nothing]
  /\ provenance = [i \in Impls |-> FALSE]
  /\ attestation = [i \in Impls |-> Nothing]
  /\ bundle = [i \in Impls |-> Nothing]
  /\ lock = Nothing
  /\ by = [i \in Impls |-> [manifest |-> "promote", artifact |-> "promote"]]
  /\ call = [c \in Callers |-> Idle]
  /\ LogInit

At(c, step) == call[c].step = step
Cmd(c) == call[c].req.cmd
Mine(c) == call[c].req.impl
Goto(c, step) == call' = [call EXCEPT ![c].step = step]

\* A call ends; its request and payload are kept for the properties.
Return(c, result) ==
  call' = [call EXCEPT ![c].step = result, ![c].imp = Draft, ![c].art = Passing({})]

\* A process that holds the lock file deletes it when it returns.
Unlock(c) == lock' = IF lock = c THEN Nothing ELSE lock
Fail(c) == Return(c, "failed") /\ Unlock(c)

Arrive(c) ==
  /\ At(c, "idle")
  /\ \E r \in Request :
       call' = [call EXCEPT ![c].req = r,
                            ![c].step = IF r.cmd = "install" THEN "truncate_manifest" ELSE "find"]
  /\ UNCHANGED <<registry, lock, by, logVars>>
----------------------------------------------------------------------------
\* Reading

\* find_implementation lists every manifest, and one that does not parse makes
\* the listing an error.
Listable == \A i \in Impls : manifest[i] # Torn

\* promote_implementation, when its collectors find nothing wrong: the axes it
\* mints, and the manifest, where conformance is overwritten and an admission
\* signs for benchmark and security.  What else it collects, and what fails on
\* the way, is the module Promotion.
PromotedAxes(e, passed) ==
  MintedAxes([a \in Axes |-> IF a \in {"build", "license"} \cup passed THEN "pass" ELSE e[a]])

PromotedManifest(m, e, target) ==
  [m EXCEPT !.status = target,
            !.axes = [a \in Axes |->
               IF \/ a = "conformance"
                  \/ target = "admitted" /\ a \in {"benchmark", "security"}
               THEN "pass" ELSE e[a]]]

\* admit_implementation, once the acknowledgements are there, asks for an
\* adapter and a conformance pass, sets benchmark and security, and build and
\* license where they are absent, and checks the policy on the result.
AdmittedManifest(m) ==
  [m EXCEPT !.status = "admitted",
            !.axes = [a \in Axes |-> IF a \in {"benchmark", "security"} THEN "pass"
                                     ELSE IF a \in {"build", "license"} /\ @[a] = "absent"
                                     THEN "pass" ELSE @[a]]]

Admissible(m) ==
  /\ m.adapter /\ m.axes["conformance"] = "pass"
  /\ JustifiedStatus(m.adapter, AdmittedManifest(m).axes) = "admitted"

\* registry_mint_evidence: the axes of the manifest with the outcome of the suite
\* (a suite that fails is an error; one without cases is recorded as a failure).
MeasuredAxes(e, suiteOk) ==
  [e EXCEPT !["conformance"] = IF suiteOk THEN "pass" ELSE "fail",
            !["build"] = IF @ = "absent" THEN "pass" ELSE @]

\* The attesting commands need an artifact that parses.
Attestable(i) == artifact[i] \notin {Nothing, Torn}

Accepts(c) ==
  /\ Listable
  /\ Cmd(c) = "promote" => manifest[Mine(c)].adapter
  /\ Cmd(c) = "admit" => Admissible(manifest[Mine(c)])
  /\ Cmd(c) \in Attesting => Attestable(Mine(c))

\* A command goes on with what it is going to write.
FoundBy(c, step, m, e) ==
  call' = [call EXCEPT ![c].step = step, ![c].imp = m, ![c].art = e]

\* An admission needs a pass from the benchmark and from the security check.
FoundByPromote(c, m) ==
  /\ Cmd(c) = "promote"
  /\ \E passed \in SUBSET {"benchmark", "security"} :
       LET e == PromotedAxes(m.axes, passed)
           target == call[c].req.target
       IN /\ target = "admitted" => passed = {"benchmark", "security"}
          /\ FoundBy(c, "lock", PromotedManifest(m, e, target), e)

FoundByAdmit(c, m) ==
  Cmd(c) = "admit" /\ FoundBy(c, "provenance", AdmittedManifest(m), Passing({}))

FoundByMint(c, m) ==
  /\ Cmd(c) = "mint"
  /\ \E suiteOk \in BOOLEAN :
       FoundBy(c, "truncate_artifact", Draft, MeasuredAxes(m.axes, suiteOk))

\* sign_attestation.
Signed(c, now) == [impl |-> Mine(c), at |-> now]

\* Mutant: the file is published before there is a signature to put into it.
FoundByAttestingUnsigned(c) ==
  /\ Cmd(c) \in Attesting
  /\ IF call[c].req.apply
     THEN Goto(c, IF Cmd(c) = "rekor" THEN "log" ELSE "publish")
     ELSE Return(c, "ok")

\* Without --apply a signature is only printed.  attest and sigstore write
\* their file first and then log it, rekor the other way round.
FoundByAttesting(c) ==
  /\ Cmd(c) \in Attesting
  /\ IF call[c].req.apply
     THEN \E now \in Seconds :
            call' = [call EXCEPT ![c].step = IF Cmd(c) = "rekor" THEN "log" ELSE "publish",
                                 ![c].payload = Signed(c, now)]
     ELSE Return(c, "ok")

Find(c) ==
  /\ At(c, "find")
  /\ \/ ~Accepts(c) /\ Fail(c)
     \/ /\ Accepts(c)
        /\ \/ FoundByPromote(c, manifest[Mine(c)])
           \/ FoundByAdmit(c, manifest[Mine(c)])
           \/ FoundByMint(c, manifest[Mine(c)])
           \/ FoundByAttesting(c)
        /\ UNCHANGED lock
  /\ UNCHANGED <<registry, by, logVars>>
----------------------------------------------------------------------------
\* Writing

\* Mutant: the lock file is created, or truncated if it is there.
AcquireByTruncation(c) ==
  /\ At(c, "lock")
  /\ lock' = c
  /\ Goto(c, "truncate_artifact")
  /\ UNCHANGED <<registry, by, logVars>>

\* PromoteLock::acquire.
Acquire(c) ==
  /\ At(c, "lock")
  /\ \/ lock # Nothing /\ Fail(c)
     \/ lock = Nothing /\ lock' = c /\ Goto(c, "truncate_artifact")
  /\ UNCHANGED <<registry, by, logVars>>

\* write_artifact is fs::write, for a promotion as for mint-evidence.
TruncateArtifact(c) ==
  /\ At(c, "truncate_artifact") /\ Goto(c, "fill_artifact")
  /\ artifact' = [artifact EXCEPT ![Mine(c)] = Torn]
  /\ UNCHANGED <<manifest, provenance, attestation, bundle, lock, by, logVars>>

FillArtifact(c) ==
  /\ At(c, "fill_artifact")
  /\ artifact' = [artifact EXCEPT ![Mine(c)] = call[c].art]
  /\ by' = [by EXCEPT ![Mine(c)].artifact = Cmd(c)]
  /\ IF Cmd(c) = "promote" THEN Goto(c, "manifest") ELSE Return(c, "ok")
  /\ UNCHANGED <<manifest, provenance, attestation, bundle, lock, logVars>>

\* atomic_write_json as one step: its renames are the module Promotion.
ReplaceManifest(c) ==
  /\ At(c, "manifest")
  /\ manifest' = [manifest EXCEPT ![Mine(c)] = call[c].imp]
  /\ by' = [by EXCEPT ![Mine(c)].manifest = Cmd(c)]
  /\ call' = [call EXCEPT
       ![c].step = IF call[c].req.target = "admitted" THEN "provenance" ELSE "log",
       ![c].payload = [impl |-> Mine(c), at |-> Nothing]]
  /\ UNCHANGED <<artifact, provenance, attestation, bundle, lock, logVars>>

\* Mutant: an applied admission leaves its record to a later step.
RecordReviewOfPromotion(c) ==
  provenance' = IF Cmd(c) = "admit" /\ call[c].req.apply THEN provenance
                ELSE [provenance EXCEPT ![Mine(c)] = TRUE]

\* write_provenance.  A promotion writes it after the manifest; an admission
\* before, and in a dry run too.
RecordReview(c) == provenance' = [provenance EXCEPT ![Mine(c)] = TRUE]

WriteProvenance(c) ==
  /\ At(c, "provenance")
  /\ RecordReview(c)
  /\ IF Cmd(c) = "promote" THEN Goto(c, "log")
     ELSE IF call[c].req.apply THEN Goto(c, "truncate_manifest") ELSE Return(c, "ok")
  /\ UNCHANGED <<manifest, artifact, attestation, bundle, lock, by, logVars>>

\* write_implementation_manifest and install_forge_draft_candidate: fs::write
\* over whatever manifest is there.
TruncateManifest(c) ==
  /\ At(c, "truncate_manifest") /\ Goto(c, "fill_manifest")
  /\ manifest' = [manifest EXCEPT ![Mine(c)] = Torn]
  /\ UNCHANGED <<artifact, provenance, attestation, bundle, lock, by, logVars>>

FillManifest(c) ==
  /\ At(c, "fill_manifest")
  /\ manifest' = [manifest EXCEPT ![Mine(c)] = call[c].imp]
  /\ by' = [by EXCEPT ![Mine(c)].manifest = Cmd(c)]
  /\ Return(c, "ok")
  /\ UNCHANGED <<artifact, provenance, attestation, bundle, lock, logVars>>

\* attest writes its file and logs it afterwards ...
PublishAttestation(c) ==
  /\ At(c, "publish") /\ Cmd(c) = "attest" /\ Goto(c, "log")
  /\ attestation' = [attestation EXCEPT ![Mine(c)] = call[c].payload]
  /\ UNCHANGED <<manifest, artifact, provenance, bundle, lock, by, logVars>>

\* ... and so does sigstore, with a bundle that has no tlog entry.
PublishBundle(c) ==
  /\ At(c, "publish") /\ Cmd(c) = "sigstore" /\ Goto(c, "log")
  /\ bundle' = [bundle EXCEPT ![Mine(c)] = [payload |-> call[c].payload, index |-> 0]]
  /\ UNCHANGED <<manifest, artifact, provenance, attestation, lock, by, logVars>>
----------------------------------------------------------------------------
\* The transparency line of a command

BeginLog(c) ==
  /\ At(c, "log")
  /\ ReadLog(c, Cmd(c), Mine(c), call[c].payload)
  /\ Goto(c, "line")
  /\ UNCHANGED <<registry, lock, by>>

\* Mutant: a log that does not verify is not an error, but nothing is logged.
LogRefusedSilently(c) ==
  /\ At(c, "log") /\ Refused
  /\ Goto(c, "end")
  /\ UNCHANGED <<registry, lock, by, logVars>>

\* The log does not verify.  What was written before stays: Promotion shows the
\* rollback that restores nothing.
LogRefused(c) ==
  /\ At(c, "log") /\ Refused
  /\ Fail(c)
  /\ UNCHANGED <<registry, by, logVars>>

LogLine(c) ==
  /\ At(c, "line") /\ Goto(c, "newline")
  /\ WriteLine(c)
  /\ UNCHANGED <<registry, lock, by>>

LogNewline(c) ==
  /\ At(c, "newline")
  /\ WriteNewline(c)
  /\ call' = [call EXCEPT ![c].step = IF Cmd(c) = "rekor" THEN "check" ELSE "end",
                          ![c].index = held[c].entry.seq]
  /\ UNCHANGED <<registry, lock, by>>

\* verify_tlog_entries on a second reading of the log, which need only parse:
\* the first entry with this number must be a rekor entry, of whatever.
IndexIsRekor(index) ==
  \E n \in 1..Size(log) :
    /\ Entry(log, n).seq = index /\ Entry(log, n).kind = "rekor"
    /\ \A m \in 1..(n - 1) : Entry(log, m).seq # index

CheckLine(c) ==
  /\ At(c, "check")
  /\ \/ ~(Readable(log) /\ IndexIsRekor(call[c].index)) /\ Fail(c)
     \/ Readable(log) /\ IndexIsRekor(call[c].index) /\ Goto(c, "publish_rekor")
        /\ UNCHANGED lock
  /\ UNCHANGED <<registry, by, logVars>>

\* Mutant: the bundle names the last line of the log.
RekorBundleOfLastLine(c) == [payload |-> call[c].payload, index |-> Size(log)]

\* attach_local_tlog.
RekorBundle(c) == [payload |-> call[c].payload, index |-> call[c].index]

PublishRekor(c) ==
  /\ At(c, "publish_rekor")
  /\ bundle' = [bundle EXCEPT ![Mine(c)] = RekorBundle(c)]
  /\ Goto(c, "end")
  /\ UNCHANGED <<manifest, artifact, provenance, attestation, lock, by, logVars>>

End(c) ==
  /\ At(c, "end")
  /\ Return(c, "ok") /\ Unlock(c)
  /\ UNCHANGED <<registry, by, logVars>>

\* A process dies: its lock file and its truncated files stay.
Crash(c) ==
  /\ MayCrash
  /\ call[c].step \notin Over \cup {"idle"}
  /\ Return(c, "crashed")
  /\ AbandonAppend(c)
  /\ UNCHANGED <<registry, lock, by>>

Step(c) ==
  \/ Arrive(c) \/ Find(c) \/ Acquire(c) \/ TruncateArtifact(c) \/ FillArtifact(c)
  \/ ReplaceManifest(c) \/ WriteProvenance(c) \/ TruncateManifest(c) \/ FillManifest(c)
  \/ PublishAttestation(c) \/ PublishBundle(c) \/ BeginLog(c) \/ LogRefused(c) \/ LogLine(c) \/ LogNewline(c)
  \/ CheckLine(c) \/ PublishRekor(c) \/ End(c)

Next == \E c \in Callers : Step(c) \/ Crash(c)

Spec == Init /\ [][Next]_vars
----------------------------------------------------------------------------
\* Properties

TypeOK ==
  /\ manifest \in [Impls -> Manifest \cup {Torn}]
  /\ artifact \in [Impls -> Evidence \cup {Nothing, Torn}]
  /\ provenance \in [Impls -> BOOLEAN]
  /\ attestation \in [Impls -> Payload \cup {Nothing}]
  /\ bundle \in [Impls -> [payload : Payload, index : Nat] \cup {Nothing}]
  /\ lock \in Callers \cup {Nothing}
  /\ \A c \in Callers :
       /\ call[c].step \in Steps
       /\ call[c].step # "idle" => call[c].req \in Request
       /\ call[c].imp \in Manifest /\ call[c].art \in Evidence
       /\ call[c].payload \in Payload \cup {Nothing}
       /\ held[c].writing = IF call[c].step \in {"line", "newline"} THEN call[c].step ELSE "none"

\* No promotion of i is between its lock and its end, or died there.
Settled(i) == lock = Nothing \/ call[lock].req.impl # i

(* Promotions alone never break the hash chain: the lock keeps their       *)
(* appends apart.  When the log no longer verifies, one of two overlapping *)
(* appends was an attesting command, which takes no lock, or a process     *)
(* died between its line and its newline.                                  *)
ChainBreaksOutsideTheLock ==
  Verifies(log) \/ torn \/ \E pair \in raced : pair # {"promote"}

(* A command that reports ok has its line in the file, whatever was        *)
(* appended at the same time and even if the chain is broken by it.        *)
OkIsLogged ==
  \A c \in Callers :
    At(c, "ok") /\ Cmd(c) \in Logging /\ call[c].req.apply =>
      \E e \in Entries(log) :
        e.kind = Cmd(c) /\ e.impl = Mine(c) /\ e.payload = call[c].payload

(* The log index that a published bundle carries is that of its own rekor  *)
(* line, of the same implementation and payload, as long as the log        *)
(* verifies at all, although verify_tlog_entries compares only the kind.   *)
BundleNamesItsLine ==
  \A i \in Impls :
    bundle[i] # Nothing /\ bundle[i].index > 0 /\ Verifies(log) =>
      /\ bundle[i].index <= Size(log)
      /\ LET e == Entry(log, bundle[i].index)
         IN e.kind = "rekor" /\ e.impl = i /\ e.payload = bundle[i].payload

(* Neither drafts nor attestations nor admissions make a promotion         *)
(* untruthful: a settled manifest above candidate that a promotion wrote   *)
(* is justified by the artifact a promotion wrote beside it.  And where    *)
(* mint-evidence has replaced that artifact, without the lock and from     *)
(* what it read of the manifest before, it can cost an admission, but not  *)
(* the status conformant, unless its suite had no cases.                   *)
PromotedStaysTruthful ==
  \A i \in Impls :
    /\ Settled(i) /\ manifest[i] # Torn /\ NeedsArtifact(manifest[i].status)
    /\ by[i].manifest = "promote" /\ artifact[i] # Torn
    /\ \/ by[i].artifact = "promote"
       \/ /\ by[i].artifact = "mint" /\ manifest[i].status = "conformant"
          /\ artifact[i]["conformance"] = "pass"
    => /\ artifact[i] # Nothing
       /\ ~Overclaims(manifest[i].status,
                      JustifiedByArtifact(manifest[i].adapter, artifact[i], TRUE, TRUE))

(* No admission without a review record, whichever of the two commands     *)
(* made it, in whatever order they write manifest and record, and whatever *)
(* other commands replace in between.                                      *)
AdmissionsAreReviewed ==
  \A i \in Impls :
    Settled(i) /\ manifest[i] # Torn /\ manifest[i].status = "admitted" => provenance[i]
============================================================================
