----------------------------- MODULE Promotion -----------------------------
(***************************************************************************)
(* `registry promote` (promote.rs, called by registry_promote of the       *)
(* command bus): concurrent promotions over one file-backed registry.      *)
(*                                                                         *)
(* A promoter is one call.  It reads the manifest without a lock, collects *)
(* evidence or takes signed reports, mints the artifact in memory, checks  *)
(* policy, and only then takes .locks/promote.lock and writes the          *)
(* artifact, the manifest, the provenance record and a transparency line,  *)
(* file by file.  Readers take no lock.  Every write that another process  *)
(* can observe half done, or that a crash or an I/O error can cut short,   *)
(* is a step of its own.                                                   *)
(***************************************************************************)
EXTENDS Admission, Sequences, FiniteSets

CONSTANTS
  Impls,          \* implementation ids in the registry
  Promoters,      \* calls of `registry promote`
  InitManifests,  \* manifests the registry may start with
  SignedReports,  \* HMAC-verified reports a request may carry
  Faults,         \* which of "crash" and "io" may happen
  Contents,       \* what a file that digests are computed from may hold
  Editable,       \* which of those files are edited: "adapter", "contract"
  Workspace,      \* whether a cargo workspace is found near the registry
  None,           \* no file, no lock holder
  Torn            \* a file whose content was cut short: it does not parse

Manifest == [status : LifecycleStatus, adapter : BOOLEAN, axes : Evidence]

\* The files of an implementation that digests are computed from: the sources of
\* its adapter crate, and the contract of its capability, which stands for the
\* files whose digest is "absent" when they are (Cargo.lock is another).
SourceFiles == [adapter : Contents, contract : Contents \cup {None}]

\* None is a digest of no file.
Digests == [adapter : Contents \cup {None}, contract : Contents \cup {None}]
Artifact == [axes : Evidence, digest : Digests]

\* What collection yields: build, benchmark, license and security facts, and
\* whether a step that does not stop the promotion reported a failure.
Collected == [build : AxisFacts, benchmark : AxisFacts, license : AxisFacts,
              security : AxisFacts, flagged : BOOLEAN]

\* The human signature is looked at only for the target admitted.
Request == {r \in [impl : Impls, target : {"conformant", "admitted"}, apply : BOOLEAN,
                   human : BOOLEAN, reports : SignedReports \cup {None}] :
              r.target = "conformant" => ~r.human}

ASSUME NoneNotPromoter == None \notin Promoters
ASSUME EditableFiles == Editable \subseteq {"adapter", "contract"} /\ Workspace \in BOOLEAN
ASSUME FaultKinds == Faults \subseteq {"crash", "io"}
ASSUME SignedReportsTyped == SignedReports \subseteq Collected
ASSUME FilesDistinct ==
  /\ None # Torn
  /\ None \notin Manifest \cup Artifact \cup SignedReports \cup Contents
  /\ Torn \notin Artifact \cup Impls
\* The registry starts truthful: `registry truthful` gates every commit.
ASSUME InitManifestsTruthful ==
  /\ InitManifests \subseteq Manifest
  /\ \A m \in InitManifests :
       /\ NeedsArtifact(m.status) => m.adapter
       /\ ~Overclaims(m.status, JustifiedStatus(m.adapter, m.axes))

VARIABLES
  manifest,    \* implementations/{id}.json
  bak,         \* implementations/{id}.json.bak
  artifact,    \* evidence/artifacts/{id}.json
  provenance,  \* the human review record of {id}
  log,         \* transparency/log.jsonl: the implementation of each line
  lock,        \* .locks/promote.lock: the promoter that created it
  source,      \* the files of the implementation that are hashed
  pc,          \* the next step of each promoter
  req,         \* its request
  imp,         \* its copy of the manifest
  got,         \* the evidence it collected
  art,         \* the artifact it minted
  clean,       \* no step has failed so far
  before,      \* the files as a dry run found them
  seen         \* the manifests its audit listed

disk == <<manifest, bak, artifact, provenance, log>>
files == <<disk, lock>>
mem == <<req, imp, got, art, clean, before, seen>>
vars == <<disk, lock, source, pc, mem>>

Busy == {"find", "collect", "mint", "lock", "trunc_art", "write_art", "stage", "backup",
         "install", "drop_bak", "write_prov", "append_log", "rollback", "unlock",
         "dry_run", "verify", "audit_list", "audit_check"}
Ended == {"ok", "failed", "crashed"}
\* The steps between PromoteLock::acquire and the drop of the lock.
Critical == {"trunc_art", "write_art", "stage", "backup", "install", "drop_bak",
             "write_prov", "append_log", "rollback", "unlock"}

\* Placeholders for the memory of a promoter that has not got that far.
NoEvidence == [a \in Axes |-> "absent"]
NoManifest == [status |-> "inventory_only", adapter |-> FALSE, axes |-> NoEvidence]
NoArtifact == [axes |-> NoEvidence, digest |-> [adapter |-> None, contract |-> None]]
NothingCollected == [build |-> "absent", benchmark |-> "absent", license |-> "absent",
                     security |-> "absent", flagged |-> FALSE]

----------------------------------------------------------------------------
\* The checks

\* compute_digests.  Without a workspace the sources of the adapter are not
\* hashed, only the names its manifest gives.
DigestsOf(hashed) == IF Workspace THEN hashed ELSE [hashed EXCEPT !.adapter = None]

\* check_digest, for each digest: one recomputed as absent is not compared.
SameDigests(recorded, hashed) ==
  LET now == DigestsOf(hashed)
  IN \A part \in DOMAIN now : now[part] \in {recorded[part], None}

\* Mutant: the digests are not recomputed.
VerifiedByAxesOnly(m, a, hashed) ==
  ~Overclaims(m.status, JustifiedByArtifact(m.adapter, a.axes, TRUE, TRUE))

\* verify_loaded_artifact on an artifact minted from green suites.
VerifiedBy(m, a, hashed) ==
  /\ SameDigests(a.digest, hashed)
  /\ ~Overclaims(m.status, JustifiedByArtifact(m.adapter, a.axes, TRUE, TRUE))

\* verify_artifact: the file is there, parses, and verifies.
ArtifactOk(i, m) ==
  /\ artifact[i] \in Artifact
  /\ VerifiedBy(m, artifact[i], source[i])

\* audit_truthful_registry over manifests listed earlier.  Below conformant an
\* artifact is optional, but one that is there still bounds the status.
AuditOk(ms) ==
  \A i \in Impls : ms[i] # None =>
    IF NeedsArtifact(ms[i].status) THEN ArtifactOk(i, ms[i])
    ELSE ~Overclaims(ms[i].status,
           IF artifact[i] = None THEN JustifiedStatus(ms[i].adapter, ms[i].axes)
           ELSE IF artifact[i] = Torn THEN "inventory_only"
           ELSE JustifiedByArtifact(ms[i].adapter, artifact[i].axes, TRUE,
                                    SameDigests(artifact[i].digest, source[i])))
----------------------------------------------------------------------------
Init ==
  /\ manifest \in [Impls -> InitManifests]
  /\ source \in [Impls -> [adapter : Contents, contract : Contents]]
  /\ bak = [i \in Impls |-> None]
  /\ artifact = [i \in Impls |->
       IF NeedsArtifact(manifest[i].status)
       THEN [axes |-> manifest[i].axes, digest |-> DigestsOf(source[i])] ELSE None]
  /\ provenance = [i \in Impls |->
       IF manifest[i].status = "admitted" THEN "reviewed" ELSE None]
  /\ log = <<>>
  /\ lock = None
  /\ pc = [p \in Promoters |-> "idle"]
  /\ req = [p \in Promoters |-> None]
  /\ imp = [p \in Promoters |-> NoManifest]
  /\ got = [p \in Promoters |-> NothingCollected]
  /\ art = [p \in Promoters |-> NoArtifact]
  /\ clean = [p \in Promoters |-> TRUE]
  /\ before = [p \in Promoters |-> None]
  /\ seen = [p \in Promoters |-> None]

At(p, step) == pc[p] = step
Goto(p, step) == pc' = [pc EXCEPT ![p] = step]

\* The call ends, or its process dies.  Of the memory only the request of a
\* dead process is kept, to tell which files it was writing.
Return(p, result) ==
  /\ Goto(p, result)
  /\ req' = [req EXCEPT ![p] = IF result = "crashed" THEN @ ELSE None]
  /\ imp' = [imp EXCEPT ![p] = NoManifest]
  /\ got' = [got EXCEPT ![p] = NothingCollected]
  /\ art' = [art EXCEPT ![p] = NoArtifact]
  /\ clean' = [clean EXCEPT ![p] = TRUE]
  /\ before' = [before EXCEPT ![p] = None]
  /\ seen' = [seen EXCEPT ![p] = None]

Fail(p) == Return(p, "failed") /\ UNCHANGED <<disk, lock, source>>
MyImpl(p) == req[p].impl

\* list_implementations reads the directory, then each file: a manifest that
\* is renamed away in between is an error.
Vanishing == \E q \in Promoters : At(q, "install") /\ bak[MyImpl(q)] # None

\* A call arrives.
Call(p) ==
  /\ At(p, "idle")
  /\ \E r \in Request : req' = [req EXCEPT ![p] = r]
  /\ Goto(p, "find")
  /\ UNCHANGED <<disk, lock, source, imp, got, art, clean, before, seen>>

\* find_implementation, then the checks that need only the manifest.  The
\* manifest is read here, long before the lock is taken.
Promotable(m) == m # None /\ m.adapter

Find(p) ==
  /\ At(p, "find")
  /\ \/ (Vanishing \/ ~Promotable(manifest[MyImpl(p)])) /\ Fail(p)
     \/ /\ Promotable(manifest[MyImpl(p)])
        /\ imp' = [imp EXCEPT ![p] = manifest[MyImpl(p)]]
        /\ before' = [before EXCEPT ![p] = IF req[p].apply THEN None ELSE files]
        /\ Goto(p, "collect")
        /\ UNCHANGED <<disk, lock, source, req, got, art, clean, seen>>

\* Signed reports are taken as they are; their suites must be green, or the
\* verification of the artifact fails.
TakeReports(p) ==
  /\ At(p, "collect") /\ req[p].reports # None
  /\ got' = [got EXCEPT ![p] = req[p].reports]
  /\ Goto(p, "mint")
  /\ UNCHANGED <<disk, lock, source, req, imp, art, clean, before, seen>>

\* Live collection.  Build, profile suite and license must pass; benchmark and
\* security must pass for admitted, and for conformant a missing benchmark or
\* a security failure is recorded and promotion goes on.
CollectLive(p) ==
  /\ At(p, "collect") /\ req[p].reports = None
  /\ \E benchmark \in {"pass", "absent"}, security \in {"pass", "absent", "fail"},
        benchError \in BOOLEAN :
       /\ benchError => benchmark = "absent"
       /\ req[p].target = "admitted" => benchmark = "pass" /\ security = "pass"
       /\ got' = [got EXCEPT ![p] =
            [build |-> "pass", benchmark |-> benchmark, license |-> "pass",
             security |-> security, flagged |-> benchError \/ security = "fail"]]
  /\ Goto(p, "mint")
  /\ UNCHANGED <<disk, lock, source, req, imp, art, clean, before, seen>>

\* A collector refuses, or the reports do not verify: nothing was written.
CollectFails(p) == At(p, "collect") /\ Fail(p)

\* Mutant: benchmark and security are left to the human signature.
WithCollectedPartly(e, c) == [e EXCEPT !["build"] = c.build, !["license"] = c.license]

\* The manifest's axes with the collected ones: a benchmark or security fact
\* replaces the manifest's only when it is a pass.
WithCollected(e, c) ==
  [e EXCEPT !["build"] = c.build,
            !["license"] = c.license,
            !["benchmark"] = IF c.benchmark = "pass" THEN "pass" ELSE @,
            !["security"] = IF c.security = "pass" THEN "pass" ELSE @]

\* Mutant: the new axes are written under the old status.
PromotedManifestOldStatus(m, e, target) == [m EXCEPT !.axes = e]

\* The axes and status written to the manifest: conformance is overwritten, and
\* the human signature of an admission sets benchmark and security.
PromotedManifest(m, e, target) ==
  [m EXCEPT !.status = target,
            !.axes = [e EXCEPT
               !["conformance"] = "pass",
               !["benchmark"] = IF target = "admitted" THEN "pass" ELSE @,
               !["security"] = IF target = "admitted" THEN "pass" ELSE @]]

\* mint_artifact with green cases.
Minted(p) ==
  [axes |-> MintedAxes(WithCollected(imp[p].axes, got[p])),
   digest |-> DigestsOf(source[MyImpl(p)])]

\* artifact_verify, human signature and policy: what promotion checks between
\* minting and writing.
Passes(p) ==
  LET a == Minted(p)
      m == PromotedManifest(imp[p], a.axes, req[p].target)
  IN /\ VerifiedBy(imp[p], a, source[MyImpl(p)])
     /\ req[p].target = "admitted" => req[p].human
     /\ ~Overclaims(m.status, JustifiedStatus(m.adapter, m.axes))

Mint(p) ==
  /\ At(p, "mint")
  /\ \/ ~Passes(p) /\ Fail(p)
     \/ /\ Passes(p)
        /\ art' = [art EXCEPT ![p] = Minted(p)]
        /\ imp' = [imp EXCEPT ![p] =
                     PromotedManifest(@, Minted(p).axes, req[p].target)]
        /\ clean' = [clean EXCEPT ![p] = ~got[p].flagged]
        /\ got' = [got EXCEPT ![p] = NothingCollected]
        /\ Goto(p, IF req[p].apply THEN "lock" ELSE "dry_run")
        /\ UNCHANGED <<disk, lock, source, req, before, seen>>

\* Mutant: the lock file is created, or truncated if it is there.
AcquireLockByTruncation(p) ==
  /\ At(p, "lock")
  /\ lock' = p
  /\ Goto(p, "trunc_art")
  /\ UNCHANGED <<disk, source, mem>>

\* PromoteLock::acquire: create_new; an existing lock file is an error at once.
AcquireLock(p) ==
  /\ At(p, "lock")
  /\ \/ lock # None /\ Fail(p)
     \/ /\ lock = None
        /\ lock' = p
        /\ Goto(p, "trunc_art")
        /\ UNCHANGED <<disk, source, mem>>

\* write_artifact is fs::write: it truncates, then writes.
TruncateArtifact(p) ==
  /\ At(p, "trunc_art")
  /\ artifact' = [artifact EXCEPT ![MyImpl(p)] = Torn]
  /\ Goto(p, "write_art")
  /\ UNCHANGED <<manifest, bak, provenance, log, lock, source, mem>>

WriteArtifact(p) ==
  /\ At(p, "write_art")
  /\ artifact' = [artifact EXCEPT ![MyImpl(p)] = art[p]]
  /\ Goto(p, "stage")
  /\ UNCHANGED <<manifest, bak, provenance, log, lock, source, mem>>

\* atomic_write_json: write {id}.json.staging (no reader looks at it) ...
StageManifest(p) ==
  /\ At(p, "stage")
  /\ Goto(p, "backup")
  /\ UNCHANGED <<disk, lock, source, mem>>

\* Mutant: the old manifest is removed to make room for the new one.
RemoveManifest(p) ==
  /\ At(p, "backup")
  /\ manifest' = [manifest EXCEPT ![MyImpl(p)] = None]
  /\ Goto(p, "install")
  /\ UNCHANGED <<bak, artifact, provenance, log, lock, source, mem>>

\* ... rename the current manifest, if any, to .bak ...
BackupManifest(p) ==
  /\ At(p, "backup")
  /\ IF manifest[MyImpl(p)] # None
     THEN /\ bak' = [bak EXCEPT ![MyImpl(p)] = manifest[MyImpl(p)]]
          /\ manifest' = [manifest EXCEPT ![MyImpl(p)] = None]
     ELSE UNCHANGED <<bak, manifest>>
  /\ Goto(p, "install")
  /\ UNCHANGED <<artifact, provenance, log, lock, source, mem>>

\* Mutant: the manifest is written in place, truncated first.
InstallInPlace(p) ==
  /\ At(p, "install")
  /\ IF manifest[MyImpl(p)] = None
     THEN manifest' = [manifest EXCEPT ![MyImpl(p)] = Torn] /\ UNCHANGED pc
     ELSE manifest' = [manifest EXCEPT ![MyImpl(p)] = imp[p]] /\ Goto(p, "drop_bak")
  /\ UNCHANGED <<bak, artifact, provenance, log, lock, source, mem>>

\* ... rename the staging file into place ...
InstallManifest(p) ==
  /\ At(p, "install")
  /\ manifest' = [manifest EXCEPT ![MyImpl(p)] = imp[p]]
  /\ Goto(p, "drop_bak")
  /\ UNCHANGED <<bak, artifact, provenance, log, lock, source, mem>>

\* Mutant: the review record is forgotten.
DropBackupUnreviewed(p) ==
  /\ At(p, "drop_bak")
  /\ bak' = [bak EXCEPT ![MyImpl(p)] = None]
  /\ Goto(p, "append_log")
  /\ UNCHANGED <<manifest, artifact, provenance, log, lock, source, mem>>

\* ... and delete the .bak.
DropBackup(p) ==
  /\ At(p, "drop_bak")
  /\ bak' = [bak EXCEPT ![MyImpl(p)] = None]
  /\ Goto(p, IF req[p].target = "admitted" THEN "write_prov" ELSE "append_log")
  /\ UNCHANGED <<manifest, artifact, provenance, log, lock, source, mem>>

WriteProvenance(p) ==
  /\ At(p, "write_prov")
  /\ provenance' = [provenance EXCEPT ![MyImpl(p)] = "reviewed"]
  /\ Goto(p, "append_log")
  /\ UNCHANGED <<manifest, bak, artifact, log, lock, source, mem>>

\* append_transparency reads the whole log first and fails on a line that does
\* not parse.
LogReadable == Torn \notin {log[n] : n \in 1..Len(log)}

\* Mutant: the append is tried again until the log can be read.
AppendLogRetrying(p) ==
  /\ At(p, "append_log")
  /\ LogReadable
  /\ log' = Append(log, MyImpl(p))
  /\ Goto(p, "unlock")
  /\ UNCHANGED <<manifest, bak, artifact, provenance, lock, source, mem>>

AppendLog(p) ==
  /\ At(p, "append_log")
  /\ \/ /\ LogReadable
        /\ log' = Append(log, MyImpl(p))
        /\ Goto(p, "unlock")
     \/ /\ ~LogReadable
        /\ Goto(p, "rollback")
        /\ UNCHANGED log
  /\ UNCHANGED <<manifest, bak, artifact, provenance, lock, source, mem>>

\* Mutant: the failing path leaks the lock.
RollbackLeakingLock(p) ==
  /\ At(p, "rollback")
  /\ Return(p, "failed")
  /\ UNCHANGED <<disk, lock, source>>

\* PromotionTxn::rollback restores its list of backups, which nothing ever
\* fills; then the lock is dropped.
Rollback(p) ==
  /\ At(p, "rollback")
  /\ lock' = None
  /\ Return(p, "failed")
  /\ UNCHANGED <<disk, source>>

Unlock(p) ==
  /\ At(p, "unlock")
  /\ lock' = None
  /\ Goto(p, "verify")
  /\ UNCHANGED <<disk, source, mem>>

\* A dry run compares the snapshot of its start with the files now; equal
\* lengths hide a change of content, so a change may or may not be noticed.
DryRun(p) ==
  /\ At(p, "dry_run")
  /\ \E noticed \in BOOLEAN :
       /\ noticed => before[p] # files
       /\ clean' = [clean EXCEPT ![p] = @ /\ ~noticed]
  /\ before' = [before EXCEPT ![p] = None]
  /\ Goto(p, "audit_list")
  /\ UNCHANGED <<disk, lock, source, req, imp, got, art, seen>>

\* verify_implementation reads the artifact back, after the lock is gone.
Verify(p) ==
  /\ At(p, "verify")
  /\ clean' = [clean EXCEPT ![p] = @ /\ ArtifactOk(MyImpl(p), imp[p])]
  /\ Goto(p, "audit_list")
  /\ UNCHANGED <<disk, lock, source, req, imp, got, art, before, seen>>

\* The truthful audit of the whole registry: first every manifest is read,
\* then every artifact.
AuditList(p) ==
  /\ At(p, "audit_list")
  /\ \/ Vanishing /\ Fail(p)
     \/ /\ seen' = [seen EXCEPT ![p] = manifest]
        /\ Goto(p, "audit_check")
        /\ UNCHANGED <<disk, lock, source, req, imp, got, art, clean, before>>

AuditCheck(p) ==
  /\ At(p, "audit_check")
  /\ Return(p, IF clean[p] /\ AuditOk(seen[p]) THEN "ok" ELSE "failed")
  /\ UNCHANGED <<disk, lock, source>>
----------------------------------------------------------------------------
\* What goes wrong

\* An I/O error inside the commit closure.  fs::write leaves a truncated file;
\* a failed final rename is answered by renaming the .bak back, which may
\* itself fail unnoticed; a failed append may leave part of a line.
IoError(p) ==
  /\ "io" \in Faults
  /\ At(p, "trunc_art") \/ At(p, "write_art") \/ At(p, "stage") \/ At(p, "backup")
     \/ At(p, "install") \/ At(p, "write_prov") \/ At(p, "append_log")
  /\ Goto(p, "rollback")
  /\ \/ At(p, "install") /\ bak[MyImpl(p)] # None
        /\ manifest' = [manifest EXCEPT ![MyImpl(p)] = bak[MyImpl(p)]]
        /\ bak' = [bak EXCEPT ![MyImpl(p)] = None]
        /\ UNCHANGED <<artifact, provenance, log>>
     \/ At(p, "write_prov")
        /\ provenance' = [provenance EXCEPT ![MyImpl(p)] = Torn]
        /\ UNCHANGED <<manifest, bak, artifact, log>>
     \/ At(p, "append_log")
        /\ log' = Append(log, Torn)
        /\ UNCHANGED <<manifest, bak, artifact, provenance>>
     \/ UNCHANGED disk
  /\ UNCHANGED <<lock, source, mem>>

\* The process dies.  Drop does not run: the lock file stays.  A write in
\* progress is cut short.
Crash(p) ==
  /\ "crash" \in Faults
  /\ pc[p] \in Busy
  /\ Return(p, "crashed")
  /\ \/ At(p, "write_prov")
        /\ provenance' = [provenance EXCEPT ![MyImpl(p)] = Torn]
        /\ UNCHANGED <<manifest, bak, artifact, log>>
     \/ At(p, "append_log")
        /\ log' = Append(log, Torn)
        /\ UNCHANGED <<manifest, bak, artifact, provenance>>
     \/ UNCHANGED disk
  /\ UNCHANGED <<lock, source>>

\* A developer changes the adapter, or changes, deletes or restores the contract.
EditSource(i) ==
  /\ \E part \in Editable, content \in Contents \cup {None} :
       source' = [source EXCEPT ![i] = [@ EXCEPT ![part] = content]]
  /\ source'[i] \in SourceFiles \ {source[i]}
  /\ UNCHANGED <<disk, lock, pc, mem>>
----------------------------------------------------------------------------
\* The next step of one promoter.
Step(p) ==
  \/ Call(p) \/ Find(p) \/ TakeReports(p) \/ CollectLive(p) \/ CollectFails(p) \/ Mint(p)
  \/ AcquireLock(p) \/ TruncateArtifact(p) \/ WriteArtifact(p)
  \/ StageManifest(p) \/ BackupManifest(p) \/ InstallManifest(p) \/ DropBackup(p)
  \/ WriteProvenance(p) \/ AppendLog(p) \/ Rollback(p) \/ Unlock(p)
  \/ DryRun(p) \/ Verify(p) \/ AuditList(p) \/ AuditCheck(p)

Next ==
  \/ \E p \in Promoters : Step(p) \/ IoError(p) \/ Crash(p)
  \/ \E i \in Impls : EditSource(i)

Spec == Init /\ [][Next]_vars

\* A call that has arrived runs on a thread of its own to its end: no step of it
\* waits for another.  Nothing makes a call arrive, edits sources or breaks.
Fairness == \A p \in Promoters : WF_vars(~At(p, "idle") /\ Step(p))
FairSpec == Spec /\ Fairness
----------------------------------------------------------------------------
\* Properties

\* A manifest is only ever renamed into place: it is there whole or not at all.
FilesTypeOK ==
  /\ manifest \in [Impls -> Manifest \cup {None}]
  /\ bak \in [Impls -> Manifest \cup {None}]
  /\ artifact \in [Impls -> Artifact \cup {None, Torn}]
  /\ provenance \in [Impls -> {"reviewed", None, Torn}]
  /\ log \in Seq(Impls \cup {Torn})
  /\ lock \in Promoters \cup {None}
  /\ source \in [Impls -> SourceFiles]

MemoryTypeOK ==
  /\ pc \in [Promoters -> {"idle"} \cup Busy \cup Ended]
  /\ req \in [Promoters -> Request \cup {None}]
  /\ \A p \in Promoters : pc[p] \in Busy \cup {"crashed"} => req[p] \in Request
  /\ imp \in [Promoters -> Manifest]
  /\ got \in [Promoters -> Collected]
  /\ art \in [Promoters -> Artifact]
  /\ clean \in [Promoters -> BOOLEAN]
  /\ seen \in [Promoters -> [Impls -> Manifest \cup {None}] \cup {None}]

TypeOK == FilesTypeOK /\ MemoryTypeOK

(* At most one promotion is between PromoteLock::acquire and the drop of   *)
(* its lock, whatever crashes: only its files are in flux.                 *)
MutualExclusion ==
  \A p, q \in Promoters : pc[p] \in Critical /\ pc[q] \in Critical => p = q

\* No promotion is writing, or died writing, the files of i.
Settled(i) == lock = None \/ req[lock].impl # i

\* The artifact on file justifies the status the manifest claims.
Justified(i) ==
  /\ artifact[i] \in Artifact
  /\ ~Overclaims(manifest[i].status,
                 JustifiedByArtifact(manifest[i].adapter, artifact[i].axes, TRUE, TRUE))

(* Outside the critical section of a promotion of i, a manifest of i that  *)
(* claims conformant or admitted is justified by the artifact of i on      *)
(* disk, however promotions that read the manifest before the lock         *)
(* interleave and crash (the truthful-registry rule).                      *)
TruthfulWhenSettled ==
  \A i \in Impls :
    Settled(i) /\ manifest[i] # None /\ NeedsArtifact(manifest[i].status)
      => Justified(i)

(* The manifest is never gone without a copy: if {id}.json is missing, its *)
(* previous content is in {id}.json.bak, after any crash or I/O error      *)
(* inside atomic_write_json.                                               *)
ManifestRecoverable ==
  \A i \in Impls : manifest[i] = None => bak[i] # None

(* Outside a promotion of i, an admitted manifest has its review record:   *)
(* the manifest is written first, so only the lock keeps them together.    *)
AdmittedIsReviewed ==
  \A i \in Impls :
    Settled(i) /\ manifest[i] # None /\ manifest[i].status = "admitted"
      => provenance[i] = "reviewed"

(* Every call ends, and a lock that is taken is given back, provided no    *)
(* process dies: acquire fails at once instead of waiting.                 *)
CallsEnd == \A p \in Promoters : At(p, "find") ~> pc[p] \in Ended
LockIsReleased == (lock # None) ~> (lock = None)

(* A line of the transparency log is evidence of a promotion: the          *)
(* implementation it names has been written as conformant or admitted, and *)
(* never falls below that again, also when promotions of it die or fail    *)
(* half way.                                                               *)
LoggedIsPromoted ==
  \A n \in 1..Len(log) : log[n] # Torn =>
    LET m == manifest[log[n]]
    IN m # None => NeedsArtifact(m.status)

\* The artifact of i is about the files of i as they are now, apart from a
\* contract that has been deleted and from adapter sources nobody hashes.
CurrentEvidence(i) ==
  /\ artifact[i] \in Artifact
  /\ source[i].contract # None => artifact[i].digest.contract = source[i].contract
  /\ Workspace => artifact[i].digest.adapter = source[i].adapter

\* The step in which a call of apply reports ok.
SaysOk(p) == At(p, "audit_check") /\ pc'[p] = "ok" /\ req[p].apply

(* A call of apply that reports ok leaves an artifact about the hashed     *)
(* files as they are now, whatever was edited, deleted or restored while   *)
(* it ran and whoever else wrote, provided its audit saw the               *)
(* implementation at all.  Two changes pass unnoticed: of a contract that  *)
(* is gone when the audit looks, and of any adapter without a workspace.   *)
OkIsAboutHashedFiles ==
  [][\A p \in Promoters :
       SaysOk(p) /\ seen[p][MyImpl(p)] # None => CurrentEvidence(MyImpl(p))]_vars

(* The same without the proviso, as the comment of audit_truthful_registry *)
(* says: "Full truthful audit: every impl, artifact rules for status >=    *)
(* conformant."                                                            *)
AuditSeesEveryImplementation ==
  [][\A p \in Promoters : SaysOk(p) => CurrentEvidence(MyImpl(p))]_vars
============================================================================
