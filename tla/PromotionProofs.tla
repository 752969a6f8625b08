-------------------------- MODULE PromotionProofs --------------------------
(***************************************************************************)
(* Proofs about Promotion, for every set of implementations and promoters, *)
(* every registry the code may start with and every choice of faults:      *)
(* types, mutual exclusion, no manifest lost, a log that only names        *)
(* promoted implementations, what a call that reports ok has achieved and  *)
(* when its audit can have missed its own implementation, and that a call  *)
(* has a bounded number of steps.                                          *)
(***************************************************************************)
EXTENDS Promotion, TLAPS

(* Adding facts to axes, or overwriting some, leaves axes.                 *)
LEMMA AxesTyped ==
  /\ \A e \in Evidence, c \in Collected : WithCollected(e, c) \in Evidence
  /\ \A e \in Evidence : MintedAxes(e) \in Evidence
  /\ \A m \in Manifest, e \in Evidence, t \in {"conformant", "admitted"} :
       PromotedManifest(m, e, t) \in Manifest
<1>1. \A e \in Evidence, c \in Collected : WithCollected(e, c) \in Evidence
  BY DEF WithCollected, Evidence, Collected, Axes, AxisFacts
<1>2. \A e \in Evidence : MintedAxes(e) \in Evidence
  BY DEF MintedAxes, BySuites, Evidence, Axes, AxisFacts
<1>3. ASSUME NEW m \in Manifest, NEW e \in Evidence, NEW t \in {"conformant", "admitted"}
      PROVE  PromotedManifest(m, e, t) \in Manifest
  <2>1. [e EXCEPT !["conformance"] = "pass",
                  !["benchmark"] = IF t = "admitted" THEN "pass" ELSE @,
                  !["security"] = IF t = "admitted" THEN "pass" ELSE @] \in Evidence
    BY DEF Evidence, Axes, AxisFacts
  <2>2. t \in LifecycleStatus
    BY DEF LifecycleStatus
  <2>3. QED
    BY <2>1, <2>2 DEF PromotedManifest, Manifest
<1>4. QED
  BY <1>1, <1>2, <1>3

(* Digests of files, and of no file, are digests.                          *)
LEMMA DigestsTyped ==
  /\ \A hashed \in SourceFiles : DigestsOf(hashed) \in Digests
  /\ [adapter |-> None, contract |-> None] \in Digests
BY DEF DigestsOf, SourceFiles, Digests

(* The placeholders are values of their types.                             *)
LEMMA PlaceholdersTyped ==
  NoManifest \in Manifest /\ NoArtifact \in Artifact /\ NothingCollected \in Collected
<1>1. NoEvidence \in Evidence
  BY DEF NoEvidence, Evidence, AxisFacts
<1>2. [adapter |-> None, contract |-> None] \in Digests
  BY DigestsTyped
<1>3. QED
  BY <1>1, <1>2 DEF NoManifest, NoArtifact, NothingCollected, Manifest, Artifact, Collected,
     LifecycleStatus, AxisFacts

(* However a call ends, its memory stays well typed.                       *)
LEMMA ReturnTyped ==
  ASSUME MemoryTypeOK, NEW p \in Promoters, pc[p] \in Busy,
         NEW result \in Ended, Return(p, result)
  PROVE  MemoryTypeOK'
<1>1. pc' \in [Promoters -> {"idle"} \cup Busy \cup Ended]
  BY DEF Return, Goto, MemoryTypeOK
<1>2. req' \in [Promoters -> Request \cup {None}]
  BY DEF Return, MemoryTypeOK
<1>3. \A q \in Promoters : pc'[q] \in Busy \cup {"crashed"} => req'[q] \in Request
  BY DEF Return, Goto, MemoryTypeOK, Ended, Busy
<1>4. /\ imp' \in [Promoters -> Manifest]
      /\ got' \in [Promoters -> Collected]
      /\ art' \in [Promoters -> Artifact]
  BY PlaceholdersTyped DEF Return, MemoryTypeOK
<1>5. /\ clean' \in [Promoters -> BOOLEAN]
      /\ seen' \in [Promoters -> [Impls -> Manifest \cup {None}] \cup {None}]
  BY DEF Return, MemoryTypeOK
<1>6. QED
  BY <1>1, <1>2, <1>3, <1>4, <1>5 DEF MemoryTypeOK

(* A step that only moves on keeps the memory well typed.                  *)
LEMMA GotoTyped ==
  ASSUME MemoryTypeOK, NEW p \in Promoters, pc[p] \in Busy,
         NEW step \in Busy, Goto(p, step), UNCHANGED mem
  PROVE  MemoryTypeOK'
  BY DEF MemoryTypeOK, Goto, mem

(* The files of a step that touches none of them stay well typed.          *)
LEMMA FilesUnchanged ==
  ASSUME FilesTypeOK, UNCHANGED <<disk, lock, source>>
  PROVE  FilesTypeOK'
  BY DEF FilesTypeOK, disk

(* Failing keeps everything well typed.                                    *)
LEMMA FailTyped ==
  ASSUME TypeOK, NEW p \in Promoters, pc[p] \in Busy, Fail(p)
  PROVE  TypeOK'
<1>1. "failed" \in Ended
  BY DEF Ended
<1>2. MemoryTypeOK'
  BY <1>1, ReturnTyped DEF Fail, TypeOK
<1>3. FilesTypeOK'
  BY FilesUnchanged DEF Fail, TypeOK
<1>4. QED
  BY <1>2, <1>3 DEF TypeOK

(* The steps up to the lock: they touch no file.                           *)
LEMMA PrepareTyped ==
  ASSUME TypeOK, NEW p \in Promoters,
         Call(p) \/ Find(p) \/ TakeReports(p) \/ CollectLive(p) \/ CollectFails(p) \/ Mint(p)
  PROVE  TypeOK'
<1> USE DEF At, Goto
<1>1. CASE Call(p)
  <2>1. MemoryTypeOK'
    BY <1>1 DEF Call, TypeOK, MemoryTypeOK, Busy, Ended
  <2>2. QED
    BY <1>1, <2>1, FilesUnchanged DEF Call, TypeOK
<1>2. CASE Find(p)
  <2>1. pc[p] \in Busy /\ req[p] \in Request
    BY <1>2 DEF Find, Busy, TypeOK, MemoryTypeOK
  <2>2. CASE Fail(p)
    BY <2>1, <2>2, FailTyped
  <2>3. CASE ~Fail(p)
    <3>1. manifest[MyImpl(p)] \in Manifest
      BY <1>2, <2>1, <2>3 DEF Find, Promotable, TypeOK, FilesTypeOK, MyImpl, Request
    <3>2. MemoryTypeOK'
      BY <1>2, <2>1, <2>3, <3>1 DEF Find, TypeOK, MemoryTypeOK, Busy
    <3>3. QED
      BY <1>2, <2>3, <3>2, FilesUnchanged DEF Find, TypeOK
  <2>4. QED
    BY <2>2, <2>3
<1>3. CASE TakeReports(p)
  <2>1. req[p].reports \in Collected
    BY <1>3, SignedReportsTyped
    DEF TakeReports, TypeOK, MemoryTypeOK, Busy, Request
  <2>2. MemoryTypeOK'
    BY <1>3, <2>1 DEF TakeReports, TypeOK, MemoryTypeOK, Busy
  <2>3. QED
    BY <1>3, <2>2, FilesUnchanged DEF TakeReports, TypeOK
<1>4. CASE CollectLive(p)
  <2>1. PICK benchmark \in {"pass", "absent"}, security \in {"pass", "absent", "fail"},
             benchError \in BOOLEAN :
          got' = [got EXCEPT ![p] =
            [build |-> "pass", benchmark |-> benchmark, license |-> "pass",
             security |-> security, flagged |-> benchError \/ security = "fail"]]
    BY <1>4 DEF CollectLive
  <2>2. got' \in [Promoters -> Collected]
    BY <2>1 DEF TypeOK, MemoryTypeOK, Collected, AxisFacts
  <2>3. MemoryTypeOK'
    BY <1>4, <2>2 DEF CollectLive, TypeOK, MemoryTypeOK, Busy
  <2>4. QED
    BY <1>4, <2>3, FilesUnchanged DEF CollectLive, TypeOK
<1>5. CASE CollectFails(p)
  BY <1>5, FailTyped DEF CollectFails, Busy
<1>6. CASE Mint(p)
  <2>1. pc[p] \in Busy /\ req[p] \in Request
    BY <1>6 DEF Mint, Busy, TypeOK, MemoryTypeOK
  <2>2. CASE Fail(p)
    BY <2>1, <2>2, FailTyped
  <2>3. CASE ~Fail(p)
    <3>1. WithCollected(imp[p].axes, got[p]) \in Evidence
      BY AxesTyped DEF TypeOK, MemoryTypeOK, Manifest
    <3>2. Minted(p) \in Artifact /\ Minted(p).axes \in Evidence
      <4>1. source[MyImpl(p)] \in SourceFiles
        BY <2>1 DEF TypeOK, FilesTypeOK, MyImpl, Request
      <4>2. QED
        BY <3>1, <4>1, AxesTyped, DigestsTyped DEF Minted, Artifact
    <3>3. PromotedManifest(imp[p], Minted(p).axes, req[p].target) \in Manifest
      BY <2>1, <3>2, AxesTyped DEF TypeOK, MemoryTypeOK, Request
    <3>4. clean' \in [Promoters -> BOOLEAN]
      <4>1. got[p].flagged \in BOOLEAN
        BY DEF TypeOK, MemoryTypeOK, Collected
      <4>2. QED
        BY <1>6, <2>3, <4>1 DEF Mint, TypeOK, MemoryTypeOK
    <3>5. /\ pc' \in [Promoters -> {"idle"} \cup Busy \cup Ended]
          /\ imp' \in [Promoters -> Manifest]
          /\ art' \in [Promoters -> Artifact]
          /\ got' \in [Promoters -> Collected]
      BY <1>6, <2>3, <3>2, <3>3, PlaceholdersTyped
      DEF Mint, TypeOK, MemoryTypeOK, Busy
    <3>6. MemoryTypeOK'
      BY <1>6, <2>1, <2>3, <3>4, <3>5 DEF Mint, TypeOK, MemoryTypeOK, Busy
    <3>7. QED
      BY <1>6, <2>3, <3>6, FilesUnchanged DEF Mint, TypeOK
  <2>4. QED
    BY <2>2, <2>3
<1>7. QED
  BY <1>1, <1>2, <1>3, <1>4, <1>5, <1>6

(* A step of a call in progress is a step on a well-typed request.         *)
LEMMA InProgress ==
  ASSUME TypeOK, NEW p \in Promoters, pc[p] \in Busy
  PROVE  /\ req[p] \in Request
         /\ MyImpl(p) \in Impls
         /\ imp[p] \in Manifest
         /\ art[p] \in Artifact
  BY DEF TypeOK, MemoryTypeOK, Request, MyImpl

(* The steps under the lock, and the two that release it.                  *)
LEMMA CommitTyped ==
  ASSUME TypeOK, NEW p \in Promoters,
         \/ AcquireLock(p) \/ TruncateArtifact(p) \/ WriteArtifact(p)
         \/ StageManifest(p) \/ BackupManifest(p) \/ InstallManifest(p) \/ DropBackup(p)
         \/ WriteProvenance(p) \/ AppendLog(p) \/ Rollback(p) \/ Unlock(p)
  PROVE  TypeOK'
<1>1. CASE AcquireLock(p)
  <2>1. CASE Fail(p)
    BY <1>1, <2>1, FailTyped DEF AcquireLock, At, Busy
  <2>2. CASE ~Fail(p)
    <3>1. MemoryTypeOK'
      BY <1>1, <2>2, GotoTyped DEF AcquireLock, At, Busy, TypeOK
    <3>2. FilesTypeOK'
      BY <1>1, <2>2 DEF AcquireLock, TypeOK, FilesTypeOK, disk
    <3>3. QED
      BY <3>1, <3>2 DEF TypeOK
  <2>3. QED
    BY <2>1, <2>2
<1>2. CASE TruncateArtifact(p)
  <2>1. MemoryTypeOK'
    BY <1>2, GotoTyped DEF TruncateArtifact, At, Busy, TypeOK
  <2>2. FilesTypeOK'
    BY <1>2 DEF TruncateArtifact, TypeOK, FilesTypeOK
  <2>3. QED
    BY <2>1, <2>2 DEF TypeOK
<1>3. CASE WriteArtifact(p)
  <2>1. MemoryTypeOK'
    BY <1>3, GotoTyped DEF WriteArtifact, At, Busy, TypeOK
  <2>2. FilesTypeOK'
    BY <1>3 DEF WriteArtifact, TypeOK, FilesTypeOK, MemoryTypeOK
  <2>3. QED
    BY <2>1, <2>2 DEF TypeOK
<1>4. CASE StageManifest(p)
  BY <1>4, GotoTyped, FilesUnchanged DEF StageManifest, At, Busy, TypeOK
<1>5. CASE BackupManifest(p)
  <2>1. MemoryTypeOK'
    BY <1>5, GotoTyped DEF BackupManifest, At, Busy, TypeOK
  <2>2. MyImpl(p) \in Impls
    BY <1>5, InProgress DEF BackupManifest, At, Busy
  <2>3. FilesTypeOK'
    BY <1>5, <2>2 DEF BackupManifest, TypeOK, FilesTypeOK
  <2>4. QED
    BY <2>1, <2>3 DEF TypeOK
<1>6. CASE InstallManifest(p)
  <2>1. MemoryTypeOK'
    BY <1>6, GotoTyped DEF InstallManifest, At, Busy, TypeOK
  <2>2. FilesTypeOK'
    BY <1>6 DEF InstallManifest, TypeOK, FilesTypeOK, MemoryTypeOK
  <2>3. QED
    BY <2>1, <2>2 DEF TypeOK
<1>7. CASE DropBackup(p)
  <2>1. MemoryTypeOK'
    BY <1>7, GotoTyped DEF DropBackup, At, Busy, TypeOK
  <2>2. FilesTypeOK'
    BY <1>7 DEF DropBackup, TypeOK, FilesTypeOK
  <2>3. QED
    BY <2>1, <2>2 DEF TypeOK
<1>8. CASE WriteProvenance(p)
  <2>1. MemoryTypeOK'
    BY <1>8, GotoTyped DEF WriteProvenance, At, Busy, TypeOK
  <2>2. FilesTypeOK'
    BY <1>8 DEF WriteProvenance, TypeOK, FilesTypeOK
  <2>3. QED
    BY <2>1, <2>2 DEF TypeOK
<1>9. CASE AppendLog(p)
  <2>1. MemoryTypeOK'
    BY <1>9, GotoTyped DEF AppendLog, At, Busy, TypeOK
  <2>2. MyImpl(p) \in Impls
    BY <1>9, InProgress DEF AppendLog, At, Busy
  <2>3. log' \in Seq(Impls \cup {Torn})
    <3>1. /\ log \in Seq(Impls \cup {Torn})
          /\ Append(log, MyImpl(p)) \in Seq(Impls \cup {Torn})
      BY <2>2 DEF TypeOK, FilesTypeOK
    <3>2. log' = Append(log, MyImpl(p)) \/ log' = log
      BY <1>9 DEF AppendLog
    <3>3. QED
      BY <3>1, <3>2
  <2>4. FilesTypeOK'
    BY <1>9, <2>3 DEF AppendLog, TypeOK, FilesTypeOK
  <2>5. QED
    BY <2>1, <2>4 DEF TypeOK
<1>10. CASE Rollback(p)
  <2>1. MemoryTypeOK'
    BY <1>10, ReturnTyped DEF Rollback, At, Busy, Ended, TypeOK
  <2>2. FilesTypeOK'
    BY <1>10 DEF Rollback, TypeOK, FilesTypeOK, disk
  <2>3. QED
    BY <2>1, <2>2 DEF TypeOK
<1>11. CASE Unlock(p)
  <2>1. MemoryTypeOK'
    BY <1>11, GotoTyped DEF Unlock, At, Busy, TypeOK
  <2>2. FilesTypeOK'
    BY <1>11 DEF Unlock, TypeOK, FilesTypeOK, disk
  <2>3. QED
    BY <2>1, <2>2 DEF TypeOK
<1>12. QED
  BY <1>1, <1>2, <1>3, <1>4, <1>5, <1>6, <1>7, <1>8, <1>9, <1>10, <1>11

(* The checks at the end of a call write no file.                          *)
LEMMA ReportTyped ==
  ASSUME TypeOK, NEW p \in Promoters,
         DryRun(p) \/ Verify(p) \/ AuditList(p) \/ AuditCheck(p)
  PROVE  TypeOK'
<1> USE DEF At, Goto
<1>1. CASE DryRun(p)
  <2>1. clean' \in [Promoters -> BOOLEAN]
    BY <1>1 DEF DryRun, TypeOK, MemoryTypeOK
  <2>2. MemoryTypeOK'
    BY <1>1, <2>1 DEF DryRun, TypeOK, MemoryTypeOK, Busy
  <2>3. QED
    BY <1>1, <2>2, FilesUnchanged DEF DryRun, TypeOK
<1>2. CASE Verify(p)
  <2>1. clean' \in [Promoters -> BOOLEAN]
    BY <1>2 DEF Verify, TypeOK, MemoryTypeOK
  <2>2. MemoryTypeOK'
    BY <1>2, <2>1 DEF Verify, TypeOK, MemoryTypeOK, Busy
  <2>3. QED
    BY <1>2, <2>2, FilesUnchanged DEF Verify, TypeOK
<1>3. CASE AuditList(p)
  <2>1. CASE Fail(p)
    BY <1>3, <2>1, FailTyped DEF AuditList, Busy
  <2>2. CASE ~Fail(p)
    <3>1. MemoryTypeOK'
      BY <1>3, <2>2 DEF AuditList, TypeOK, MemoryTypeOK, FilesTypeOK, Busy
    <3>2. QED
      BY <1>3, <2>2, <3>1, FilesUnchanged DEF AuditList, TypeOK
  <2>3. QED
    BY <2>1, <2>2
<1>4. CASE AuditCheck(p)
  <2>1. PICK result \in {"ok", "failed"} : Return(p, result)
    BY <1>4 DEF AuditCheck
  <2>2. MemoryTypeOK'
    BY <1>4, <2>1, ReturnTyped DEF AuditCheck, TypeOK, Busy, Ended
  <2>3. QED
    BY <1>4, <2>2, FilesUnchanged DEF AuditCheck, TypeOK
<1>5. QED
  BY <1>1, <1>2, <1>3, <1>4

(* Errors, crashes and edits leave files and memory well typed.            *)
LEMMA FaultTyped ==
  ASSUME TypeOK,
         \/ \E p \in Promoters : IoError(p) \/ Crash(p)
         \/ \E i \in Impls : EditSource(i)
  PROVE  TypeOK'
<1>1. ASSUME NEW p \in Promoters, IoError(p)
      PROVE  TypeOK'
  <2>1. pc[p] \in Busy
    BY <1>1 DEF IoError, At, Busy
  <2>2. MemoryTypeOK'
    BY <1>1, <2>1, GotoTyped DEF IoError, Busy, TypeOK
  <2>3. MyImpl(p) \in Impls
    BY <2>1, InProgress
  <2>4. Append(log, Torn) \in Seq(Impls \cup {Torn})
    BY DEF TypeOK, FilesTypeOK
  <2>5. FilesTypeOK'
    BY <1>1, <2>3, <2>4 DEF IoError, TypeOK, FilesTypeOK, disk
  <2>6. QED
    BY <2>2, <2>5 DEF TypeOK
<1>2. ASSUME NEW p \in Promoters, Crash(p)
      PROVE  TypeOK'
  <2>1. MemoryTypeOK'
    BY <1>2, ReturnTyped DEF Crash, Ended, TypeOK
  <2>2. Append(log, Torn) \in Seq(Impls \cup {Torn})
    BY DEF TypeOK, FilesTypeOK
  <2>3. FilesTypeOK'
    BY <1>2, <2>2 DEF Crash, TypeOK, FilesTypeOK, disk
  <2>4. QED
    BY <2>1, <2>3 DEF TypeOK
<1>3. ASSUME NEW i \in Impls, EditSource(i)
      PROVE  TypeOK'
  <2>1. source' \in [Impls -> SourceFiles]
    BY <1>3 DEF EditSource, TypeOK, FilesTypeOK
  <2>2. QED
    BY <1>3, <2>1 DEF EditSource, TypeOK, FilesTypeOK, MemoryTypeOK, disk, mem
<1>4. QED
  BY <1>1, <1>2, <1>3

LEMMA InitTyped == Init => TypeOK
<1> SUFFICES ASSUME Init PROVE TypeOK
  OBVIOUS
<1>1. source \in [Impls -> SourceFiles]
  BY DEF Init, SourceFiles
<1>2. ASSUME NEW i \in Impls PROVE artifact[i] \in Artifact \cup {None}
  <2>1. manifest[i].axes \in Evidence /\ DigestsOf(source[i]) \in Digests
    BY <1>1, DigestsTyped, InitManifestsTruthful DEF Init, Manifest
  <2>2. QED
    BY <2>1 DEF Init, Artifact
<1>3. FilesTypeOK
  BY <1>1, <1>2, InitManifestsTruthful DEF Init, FilesTypeOK
<1>4. MemoryTypeOK
  BY PlaceholdersTyped DEF Init, MemoryTypeOK, Busy, Ended
<1>5. QED
  BY <1>3, <1>4 DEF TypeOK

LEMMA NextTyped == TypeOK /\ [Next]_vars => TypeOK'
<1> SUFFICES ASSUME TypeOK, [Next]_vars PROVE TypeOK'
  OBVIOUS
<1>1. CASE UNCHANGED vars
  BY <1>1 DEF vars, disk, mem, TypeOK, FilesTypeOK, MemoryTypeOK
<1>2. CASE \E p \in Promoters : Step(p)
  BY <1>2, PrepareTyped, CommitTyped, ReportTyped DEF Step
<1>3. CASE \/ \E p \in Promoters : IoError(p) \/ Crash(p)
           \/ \E i \in Impls : EditSource(i)
  BY <1>3, FaultTyped
<1>4. QED
  BY <1>1, <1>2, <1>3 DEF Next

(* Every file and every promoter's memory always hold a value of their     *)
(* type; in particular a manifest is never there half written.             *)
THEOREM TypeCorrect == Spec => []TypeOK
  BY InitTyped, NextTyped, PTL DEF Spec

----------------------------------------------------------------------------
(* The files and the lock *)

\* A promotion in its critical section is the one whose lock file exists.
LockHeld == \A p \in Promoters : pc[p] \in Critical => lock = p

\* Steps between InstallManifest and the end of the critical section.
Installed == {"drop_bak", "write_prov", "append_log", "unlock"}
InstalledIsMine ==
  \A p \in Promoters :
    /\ pc[p] \in Installed => manifest[MyImpl(p)] = imp[p]
    /\ pc[p] \in Installed \ {"drop_bak"} => bak[MyImpl(p)] = None

\* What a promotion is about to write has the status it was asked for.
StatusIsTarget ==
  \A p \in Promoters :
    pc[p] \in Critical \cup {"lock"} => imp[p].status = req[p].target

\* Of a logged implementation neither the manifest nor its copy is unpromoted.
LoggedCopies ==
  \A n \in 1..Len(log) : log[n] # Torn =>
    /\ manifest[log[n]] # None => NeedsArtifact(manifest[log[n]].status)
    /\ bak[log[n]] # None => NeedsArtifact(bak[log[n]].status)

FInv ==
  /\ LockHeld
  /\ ManifestRecoverable
  /\ InstalledIsMine
  /\ StatusIsTarget
  /\ LoggedCopies

LEMMA FInvInit == Init => FInv
  BY InitManifestsTruthful, FilesDistinct
  DEF Init, FInv, LockHeld, ManifestRecoverable, InstalledIsMine, StatusIsTarget,
      LoggedCopies, Critical, Installed, Manifest

(* A step of p outside its critical section that writes no file.           *)
LEMMA QuietStep ==
  ASSUME TypeOK, FInv, NEW p \in Promoters, NEW s,
         UNCHANGED <<disk, lock>>, Goto(p, s), s \notin Critical,
         s = "lock" => imp'[p].status = req'[p].target,
         \A q \in Promoters \ {p} : req'[q] = req[q] /\ imp'[q] = imp[q]
  PROVE  FInv'
<1>1. \A q \in Promoters : q # p => pc'[q] = pc[q]
  BY DEF Goto, TypeOK, MemoryTypeOK
<1>2. pc'[p] = s
  BY DEF Goto, TypeOK, MemoryTypeOK
<1>3. LockHeld'
  BY <1>1, <1>2 DEF FInv, LockHeld
<1>4. InstalledIsMine' /\ StatusIsTarget'
  BY <1>1, <1>2 DEF FInv, InstalledIsMine, StatusIsTarget, Installed, Critical, MyImpl, disk
<1>5. ManifestRecoverable' /\ LoggedCopies'
  BY DEF FInv, ManifestRecoverable, LoggedCopies, disk
<1>6. QED
  BY <1>3, <1>4, <1>5 DEF FInv

(* A call that ends without touching a file.                               *)
LEMMA QuietReturn ==
  ASSUME TypeOK, FInv, NEW p \in Promoters, NEW result \in Ended,
         Return(p, result), UNCHANGED <<disk, lock>>
  PROVE  FInv'
<1>1. \A q \in Promoters \ {p} : req'[q] = req[q] /\ imp'[q] = imp[q]
  BY DEF Return, TypeOK, MemoryTypeOK
<1>2. result \notin Critical /\ result # "lock"
  BY DEF Ended, Critical
<1>3. QED
  BY <1>1, <1>2, QuietStep DEF Return

(* The steps of a call that write nothing keep the invariant.              *)
LEMMA QuietSteps ==
  ASSUME TypeOK, FInv, NEW p \in Promoters,
         \/ Call(p) \/ Find(p) \/ TakeReports(p) \/ CollectLive(p) \/ CollectFails(p)
         \/ Mint(p) \/ DryRun(p) \/ Verify(p) \/ AuditList(p) \/ AuditCheck(p)
  PROVE  FInv'
<1>1. CASE Fail(p)
  BY <1>1, QuietReturn DEF Fail, Ended
<1>2. CASE AuditCheck(p)
  <2>1. PICK result \in {"ok", "failed"} : Return(p, result)
    BY <1>2 DEF AuditCheck
  <2>2. QED
    BY <1>2, <2>1, QuietReturn DEF AuditCheck, Ended
<1>3. CASE Mint(p) /\ ~Fail(p)
  <2>1. \A q \in Promoters \ {p} : req'[q] = req[q] /\ imp'[q] = imp[q]
    BY <1>3 DEF Mint, TypeOK, MemoryTypeOK
  <2>2. imp'[p].status = req'[p].target
    <3>1. imp'[p] = PromotedManifest(imp[p], Minted(p).axes, req[p].target)
      BY <1>3 DEF Mint, TypeOK, MemoryTypeOK
    <3>2. imp[p] \in Manifest
      BY DEF TypeOK, MemoryTypeOK
    <3>3. imp'[p].status = req[p].target
      BY <3>1, <3>2 DEF PromotedManifest, Manifest
    <3>4. req' = req
      BY <1>3 DEF Mint
    <3>5. QED
      BY <3>3, <3>4
  <2>3. PICK s \in {"lock", "dry_run"} : Goto(p, s)
    BY <1>3 DEF Mint
  <2>4. QED
    BY <1>3, <2>1, <2>2, <2>3, QuietStep DEF Mint, Critical
<1>4. CASE ~Fail(p) /\ (Call(p) \/ Find(p) \/ TakeReports(p) \/ CollectLive(p)
                          \/ CollectFails(p) \/ DryRun(p) \/ Verify(p) \/ AuditList(p))
  <2>1. \A q \in Promoters \ {p} : req'[q] = req[q] /\ imp'[q] = imp[q]
    BY <1>4 DEF Call, Find, TakeReports, CollectLive, CollectFails, DryRun, Verify,
       AuditList, TypeOK, MemoryTypeOK
  <2>2. PICK s \in {"find", "collect", "mint", "audit_list", "audit_check"} : Goto(p, s)
    BY <1>4 DEF Call, Find, TakeReports, CollectLive, CollectFails, DryRun, Verify, AuditList
  <2>3. UNCHANGED <<disk, lock>>
    BY <1>4 DEF Call, Find, TakeReports, CollectLive, CollectFails, DryRun, Verify, AuditList
  <2>4. QED
    BY <2>1, <2>2, <2>3, QuietStep DEF Critical
<1>5. QED
  BY <1>1, <1>2, <1>3, <1>4

(* A step that stays in the critical section: only p can be in it.         *)
LEMMA CriticalAlone ==
  ASSUME TypeOK, FInv, NEW p \in Promoters, pc[p] \in Critical, NEW s \in Critical,
         Goto(p, s), UNCHANGED <<lock, req, imp>>,
         s \in Installed => manifest'[MyImpl(p)] = imp[p],
         s \in Installed \ {"drop_bak"} => bak'[MyImpl(p)] = None,
         ManifestRecoverable', LoggedCopies'
  PROVE  FInv'
<1>1. \A q \in Promoters : pc'[q] = IF q = p THEN s ELSE pc[q]
  BY DEF Goto, TypeOK, MemoryTypeOK
<1>2. \A q \in Promoters : pc[q] \in Critical => q = p
  BY DEF FInv, LockHeld
<1>3. LockHeld'
  BY <1>1, <1>2 DEF FInv, LockHeld
<1>4. InstalledIsMine'
  BY <1>1, <1>2 DEF InstalledIsMine, Installed, Critical, MyImpl
<1>5. StatusIsTarget'
  BY <1>1, <1>2 DEF FInv, StatusIsTarget
<1>6. QED
  BY <1>3, <1>4, <1>5 DEF FInv

(* A step that writes neither a manifest, its copy nor the log.            *)
LEMMA CopiesUnchanged ==
  ASSUME FInv, UNCHANGED <<manifest, bak, log>>
  PROVE  ManifestRecoverable' /\ LoggedCopies'
  BY DEF FInv, ManifestRecoverable, LoggedCopies

(* The steps under the lock, and the two that release it.                  *)
LEMMA CommitSteps ==
  ASSUME TypeOK, TypeOK', FInv, NEW p \in Promoters,
         \/ AcquireLock(p) \/ TruncateArtifact(p) \/ WriteArtifact(p)
         \/ StageManifest(p) \/ BackupManifest(p) \/ InstallManifest(p) \/ DropBackup(p)
         \/ WriteProvenance(p) \/ AppendLog(p) \/ Rollback(p) \/ Unlock(p)
  PROVE  FInv'
<1> USE DEF At
<1>0. pc[p] \in Busy => MyImpl(p) \in Impls /\ imp[p] \in Manifest /\ req[p] \in Request
  BY InProgress
<1>1. CASE AcquireLock(p)
  <2>1. CASE Fail(p)
    BY <2>1, QuietReturn DEF Fail, Ended
  <2>2. CASE ~Fail(p)
    <3>1. \A q \in Promoters : pc'[q] = IF q = p THEN "trunc_art" ELSE pc[q]
      BY <1>1, <2>2 DEF AcquireLock, Goto, TypeOK, MemoryTypeOK
    <3>2. \A q \in Promoters : pc[q] \notin Critical
      BY <1>1, <2>2, NoneNotPromoter DEF AcquireLock, FInv, LockHeld
    <3>3. LockHeld'
      BY <1>1, <2>2, <3>1, <3>2 DEF AcquireLock, LockHeld
    <3>4. InstalledIsMine' /\ StatusIsTarget'
      BY <1>1, <2>2, <3>1, <3>2
      DEF AcquireLock, FInv, InstalledIsMine, StatusIsTarget, Installed, Critical, mem
    <3>5. ManifestRecoverable' /\ LoggedCopies'
      BY <1>1, <2>2, CopiesUnchanged DEF AcquireLock, disk
    <3>6. QED
      BY <3>3, <3>4, <3>5 DEF FInv
  <2>3. QED
    BY <2>1, <2>2
<1>2. CASE TruncateArtifact(p)
  <2>1. ManifestRecoverable' /\ LoggedCopies'
    BY <1>2, CopiesUnchanged DEF TruncateArtifact
  <2>2. QED
    BY <1>2, <2>1, CriticalAlone DEF TruncateArtifact, Critical, Installed, mem
<1>3. CASE WriteArtifact(p)
  <2>1. ManifestRecoverable' /\ LoggedCopies'
    BY <1>3, CopiesUnchanged DEF WriteArtifact
  <2>2. QED
    BY <1>3, <2>1, CriticalAlone DEF WriteArtifact, Critical, Installed, mem
<1>4. CASE StageManifest(p)
  <2>1. ManifestRecoverable' /\ LoggedCopies'
    BY <1>4, CopiesUnchanged DEF StageManifest, disk
  <2>2. QED
    BY <1>4, <2>1, CriticalAlone DEF StageManifest, Critical, Installed, mem
<1>5. CASE BackupManifest(p)
  <2>1. MyImpl(p) \in Impls
    BY <1>0, <1>5 DEF BackupManifest, Busy
  <2>2. ManifestRecoverable'
    BY <1>5, <2>1
    DEF BackupManifest, FInv, ManifestRecoverable, TypeOK, FilesTypeOK
  <2>3. LoggedCopies'
    BY <1>5, <2>1 DEF BackupManifest, FInv, LoggedCopies, TypeOK, FilesTypeOK
  <2>4. QED
    BY <1>5, <2>2, <2>3, CriticalAlone DEF BackupManifest, Critical, Installed, mem
<1>6. CASE InstallManifest(p)
  <2>1. MyImpl(p) \in Impls /\ imp[p] \in Manifest /\ req[p] \in Request
    BY <1>0, <1>6 DEF InstallManifest, Busy
  <2>2. NeedsArtifact(imp[p].status)
    BY <1>6, <2>1 DEF InstallManifest, FInv, StatusIsTarget, Critical, NeedsArtifact, Request
  <2>3. imp[p] # None
    BY <2>1, FilesDistinct
  <2>4. manifest'[MyImpl(p)] = imp[p]
    BY <1>6, <2>1 DEF InstallManifest, TypeOK, FilesTypeOK
  <2>5. ManifestRecoverable'
    BY <1>6, <2>1, <2>3 DEF InstallManifest, FInv, ManifestRecoverable, TypeOK, FilesTypeOK
  <2>6. LoggedCopies'
    BY <1>6, <2>1, <2>2 DEF InstallManifest, FInv, LoggedCopies, TypeOK, FilesTypeOK
  <2>7. QED
    BY <1>6, <2>4, <2>5, <2>6, CriticalAlone DEF InstallManifest, Critical, Installed, mem
<1>7. CASE DropBackup(p)
  <2>1. MyImpl(p) \in Impls /\ imp[p] \in Manifest
    BY <1>0, <1>7 DEF DropBackup, Busy
  <2>2. manifest[MyImpl(p)] = imp[p] /\ imp[p] # None
    BY <1>7, <2>1, FilesDistinct DEF DropBackup, FInv, InstalledIsMine, Installed
  <2>3. ManifestRecoverable'
    BY <1>7, <2>1, <2>2 DEF DropBackup, FInv, ManifestRecoverable, TypeOK, FilesTypeOK
  <2>4. LoggedCopies'
    BY <1>7, <2>1 DEF DropBackup, FInv, LoggedCopies, TypeOK, FilesTypeOK
  <2>5. bak'[MyImpl(p)] = None
    BY <1>7, <2>1 DEF DropBackup, TypeOK, FilesTypeOK
  <2>6. PICK s \in {"write_prov", "append_log"} : Goto(p, s)
    BY <1>7 DEF DropBackup
  <2>7. QED
    BY <1>7, <2>2, <2>3, <2>4, <2>5, <2>6, CriticalAlone DEF DropBackup, Critical, mem
<1>8. CASE WriteProvenance(p)
  <2>1. ManifestRecoverable' /\ LoggedCopies'
    BY <1>8, CopiesUnchanged DEF WriteProvenance
  <2>2. manifest'[MyImpl(p)] = imp[p] /\ bak'[MyImpl(p)] = None
    BY <1>8 DEF WriteProvenance, FInv, InstalledIsMine, Installed
  <2>3. QED
    BY <1>8, <2>1, <2>2, CriticalAlone DEF WriteProvenance, Critical, mem
<1>9. CASE AppendLog(p)
  <2>1. MyImpl(p) \in Impls /\ imp[p] \in Manifest /\ req[p] \in Request
    BY <1>0, <1>9 DEF AppendLog, Busy
  <2>2. manifest[MyImpl(p)] = imp[p] /\ bak[MyImpl(p)] = None
    BY <1>9 DEF AppendLog, FInv, InstalledIsMine, Installed
  <2>3. NeedsArtifact(imp[p].status)
    BY <1>9, <2>1 DEF AppendLog, FInv, StatusIsTarget, Critical, NeedsArtifact, Request
  <2>4. log \in Seq(Impls \cup {Torn})
    BY DEF TypeOK, FilesTypeOK
  <2>5. log' = Append(log, MyImpl(p)) \/ log' = log
    BY <1>9 DEF AppendLog
  <2>6. LoggedCopies'
    BY <1>9, <2>1, <2>2, <2>3, <2>4, <2>5 DEF AppendLog, FInv, LoggedCopies
  <2>7. ManifestRecoverable'
    BY <1>9 DEF AppendLog, FInv, ManifestRecoverable
  <2>8. PICK s \in {"unlock", "rollback"} : Goto(p, s)
    BY <1>9 DEF AppendLog
  <2>9. QED
    BY <1>9, <2>2, <2>6, <2>7, <2>8, CriticalAlone DEF AppendLog, Critical, mem
<1>10. CASE Rollback(p) \/ Unlock(p)
  <2>1. \A q \in Promoters : q # p => pc[q] \notin Critical
    BY <1>10 DEF Rollback, Unlock, FInv, LockHeld, Critical
  <2>2. \A q \in Promoters : pc'[q] = IF q = p THEN pc'[p] ELSE pc[q]
    BY <1>10 DEF Rollback, Unlock, Return, Goto, TypeOK, MemoryTypeOK
  <2>3. pc'[p] \in {"failed", "verify"}
    BY <1>10 DEF Rollback, Unlock, Return, Goto, TypeOK, MemoryTypeOK
  <2>4. \A q \in Promoters \ {p} : req'[q] = req[q] /\ imp'[q] = imp[q]
    BY <1>10 DEF Rollback, Unlock, Return, mem, TypeOK, MemoryTypeOK
  <2>5. LockHeld' /\ InstalledIsMine'
    BY <2>1, <2>2, <2>3 DEF LockHeld, InstalledIsMine, Installed, Critical
  <2>6. StatusIsTarget'
    BY <2>1, <2>2, <2>3, <2>4 DEF FInv, StatusIsTarget, Critical
  <2>7. ManifestRecoverable' /\ LoggedCopies'
    BY <1>10, CopiesUnchanged DEF Rollback, Unlock, disk
  <2>8. QED
    BY <2>5, <2>6, <2>7 DEF FInv
<1>11. QED
  BY <1>1, <1>2, <1>3, <1>4, <1>5, <1>6, <1>7, <1>8, <1>9, <1>10

\* Appending a torn line to the log.
LEMMA TornLine ==
  ASSUME TypeOK, FInv, UNCHANGED <<manifest, bak>>, log' = log \/ log' = Append(log, Torn)
  PROVE  ManifestRecoverable' /\ LoggedCopies'
<1>1. log \in Seq(Impls \cup {Torn})
  BY DEF TypeOK, FilesTypeOK
<1>2. QED
  BY <1>1 DEF FInv, ManifestRecoverable, LoggedCopies

(* I/O errors, crashes and edits of the sources.                           *)
LEMMA FaultSteps ==
  ASSUME TypeOK, TypeOK', FInv,
         \/ \E p \in Promoters : IoError(p) \/ Crash(p)
         \/ \E i \in Impls : EditSource(i)
  PROVE  FInv'
<1> USE DEF At
<1>1. ASSUME NEW p \in Promoters, IoError(p)
      PROVE  FInv'
  <2>1. pc[p] \in Critical
    BY <1>1 DEF IoError, Critical
  <2>2. MyImpl(p) \in Impls
    BY <2>1, InProgress DEF Critical, Busy
  <2>3. ManifestRecoverable' /\ LoggedCopies'
    <3>1. CASE UNCHANGED <<manifest, bak>>
      <4>1. log' = log \/ log' = Append(log, Torn)
        BY <1>1 DEF IoError, disk
      <4>2. QED
        BY <3>1, <4>1, TornLine
    <3>2. CASE ~UNCHANGED <<manifest, bak>>
      <4>1. /\ bak[MyImpl(p)] # None
            /\ manifest' = [manifest EXCEPT ![MyImpl(p)] = bak[MyImpl(p)]]
            /\ bak' = [bak EXCEPT ![MyImpl(p)] = None]
            /\ log' = log
        BY <1>1, <3>2 DEF IoError, disk
      <4>2. ManifestRecoverable'
        BY <2>2, <4>1 DEF FInv, ManifestRecoverable, TypeOK, FilesTypeOK
      <4>3. ASSUME NEW i \in Impls
            PROVE  /\ manifest'[i] = IF i = MyImpl(p) THEN bak[i] ELSE manifest[i]
                   /\ bak'[i] = IF i = MyImpl(p) THEN None ELSE bak[i]
        BY <2>2, <4>1 DEF TypeOK, FilesTypeOK
      <4>4. ASSUME NEW n \in 1..Len(log), log[n] # Torn
            PROVE  log[n] \in Impls
        BY <4>4 DEF TypeOK, FilesTypeOK
      <4>5. LoggedCopies'
        BY <4>1, <4>3, <4>4 DEF FInv, LoggedCopies
      <4>6. QED
        BY <4>2, <4>5
    <3>3. QED
      BY <3>1, <3>2
  <2>4. QED
    BY <1>1, <2>1, <2>3, CriticalAlone DEF IoError, Critical, Installed, mem
<1>2. ASSUME NEW p \in Promoters, Crash(p)
      PROVE  FInv'
  <2>1. /\ pc'[p] = "crashed"
        /\ \A q \in Promoters \ {p} : pc'[q] = pc[q] /\ req'[q] = req[q] /\ imp'[q] = imp[q]
    BY <1>2 DEF Crash, Return, Goto, TypeOK, MemoryTypeOK
  <2>2. UNCHANGED <<manifest, bak, lock>> /\ (log' = log \/ log' = Append(log, Torn))
    BY <1>2 DEF Crash, disk
  <2>3. ManifestRecoverable' /\ LoggedCopies'
    BY <2>2, TornLine
  <2>4. LockHeld' /\ InstalledIsMine' /\ StatusIsTarget'
    BY <2>1, <2>2
    DEF FInv, LockHeld, InstalledIsMine, StatusIsTarget, Installed, Critical, MyImpl
  <2>5. QED
    BY <2>3, <2>4 DEF FInv
<1>3. ASSUME NEW i \in Impls, EditSource(i)
      PROVE  FInv'
  BY <1>3 DEF EditSource, disk, mem, FInv, LockHeld, ManifestRecoverable, InstalledIsMine,
     StatusIsTarget, LoggedCopies, MyImpl
<1>4. QED
  BY <1>1, <1>2, <1>3

LEMMA FInvNext == TypeOK /\ TypeOK' /\ FInv /\ [Next]_vars => FInv'
<1> SUFFICES ASSUME TypeOK, TypeOK', FInv, [Next]_vars PROVE FInv'
  OBVIOUS
<1>1. CASE UNCHANGED vars
  BY <1>1 DEF vars, disk, mem, FInv, LockHeld, ManifestRecoverable, InstalledIsMine,
     StatusIsTarget, LoggedCopies, MyImpl
<1>2. CASE \E p \in Promoters : Step(p)
  BY <1>2, QuietSteps, CommitSteps DEF Step
<1>3. CASE \/ \E p \in Promoters : IoError(p) \/ Crash(p)
           \/ \E i \in Impls : EditSource(i)
  BY <1>3, FaultSteps
<1>4. QED
  BY <1>1, <1>2, <1>3 DEF Next

THEOREM FInvAlways == Spec => []FInv
  BY TypeCorrect, FInvInit, FInvNext, PTL DEF Spec

(* No two promotions are ever in their critical sections together, however *)
(* calls fail, crash or find the lock taken.                               *)
THEOREM LockExcludes == Spec => []MutualExclusion
<1>1. FInv => MutualExclusion
  BY DEF FInv, LockHeld, MutualExclusion
<1>2. QED
  BY <1>1, FInvAlways, PTL

(* Neither a crash nor an I/O error between the two renames of             *)
(* atomic_write_json loses a manifest: the .bak is there.                  *)
THEOREM NoManifestLost == Spec => []ManifestRecoverable
<1>1. FInv => ManifestRecoverable
  BY DEF FInv
<1>2. QED
  BY <1>1, FInvAlways, PTL

(* The transparency log never names an implementation whose manifest was   *)
(* not promoted, also after half-done and rolled-back promotions.          *)
THEOREM LogIsTruthful == Spec => []LoggedIsPromoted
<1>1. FInv => LoggedIsPromoted
  BY DEF FInv, LoggedCopies, LoggedIsPromoted
<1>2. QED
  BY <1>1, FInvAlways, PTL

----------------------------------------------------------------------------
(* A call of apply that reports ok *)

Logged(i) == \E n \in 1..Len(log) : log[n] = i

\* A call that has written its files and is no dry run has its line in the log,
\* so what its audit saw of its implementation was promoted.
OkOf(p) ==
  /\ pc[p] \in {"unlock", "verify"} => Logged(MyImpl(p))
  /\ pc[p] \in {"audit_list", "audit_check"} /\ req[p].apply => Logged(MyImpl(p))
  /\ pc[p] = "dry_run" => ~req[p].apply
  /\ pc[p] = "audit_check" /\ req[p].apply /\ seen[p][MyImpl(p)] # None
       => NeedsArtifact(seen[p][MyImpl(p)].status)
OkInv == \A p \in Promoters : OkOf(p)

(* No step takes a line out of the log.                                    *)
LEMMA LoggedForGood ==
  ASSUME TypeOK, [Next]_vars, NEW i \in Impls, Logged(i)
  PROVE  Logged(i)'
<1>1. log \in Seq(Impls \cup {Torn})
  BY DEF TypeOK, FilesTypeOK
<1>2. log' = log \/ \E x \in Impls \cup {Torn} : log' = Append(log, x)
  <2>1. CASE UNCHANGED vars
    BY <2>1 DEF vars, disk
  <2>2. ASSUME NEW p \in Promoters, Step(p)
        PROVE  log' = log \/ (log' = Append(log, MyImpl(p)) /\ MyImpl(p) \in Impls)
    <3>1. CASE AppendLog(p)
      BY <3>1, InProgress DEF AppendLog, At, Busy
    <3>2. CASE ~AppendLog(p)
      BY <2>2, <3>2 DEF Step, Call, Find, TakeReports, CollectLive, CollectFails, Mint,
         AcquireLock, TruncateArtifact, WriteArtifact, StageManifest, BackupManifest,
         InstallManifest, DropBackup, WriteProvenance, Rollback, Unlock, DryRun, Verify,
         AuditList, AuditCheck, Fail, disk
    <3> QED BY <3>1, <3>2
  <2>3. ASSUME NEW p \in Promoters, IoError(p) \/ Crash(p)
        PROVE  log' = log \/ log' = Append(log, Torn)
    BY <2>3 DEF IoError, Crash, disk
  <2>4. ASSUME NEW j \in Impls, EditSource(j)
        PROVE  log' = log
    BY <2>4 DEF EditSource, disk
  <2> QED BY <2>1, <2>2, <2>3, <2>4 DEF Next
<1> QED BY <1>1, <1>2 DEF Logged

(* What a step leaves of the calls it is not a step of.                    *)
LEMMA OthersOk ==
  ASSUME TypeOK, OkInv, [Next]_vars, NEW q \in Promoters,
         pc'[q] = pc[q], req'[q] = req[q], seen'[q] = seen[q]
  PROVE  OkOf(q)'
<1>1. OkOf(q)
  BY DEF OkInv
<1>2. MyImpl(q)' = MyImpl(q)
  BY DEF MyImpl
<1>3. pc[q] \in Busy => MyImpl(q) \in Impls
  BY InProgress
<1>4. ASSUME pc[q] \in Busy, Logged(MyImpl(q)) PROVE Logged(MyImpl(q))'
  <2>1. PICK i \in Impls : i = MyImpl(q)
    BY <1>3, <1>4
  <2>2. Logged(i)'
    BY <1>4, <2>1, LoggedForGood
  <2> QED BY <1>2, <2>1, <2>2 DEF Logged
<1> QED BY <1>1, <1>2, <1>4 DEF OkOf, Busy

(* The steps that do not bring a call closer to its report.                *)
LEMMA EarlyOk ==
  ASSUME TypeOK, NEW p \in Promoters,
         pc'[p] \notin {"unlock", "verify", "audit_list", "audit_check", "dry_run"}
  PROVE  OkOf(p)'
  BY DEF OkOf

LEMMA OkInvNext == TypeOK /\ FInv /\ OkInv /\ [Next]_vars => OkInv'
<1> SUFFICES ASSUME TypeOK, FInv, OkInv, [Next]_vars PROVE OkInv'
  OBVIOUS
<1> USE DEF At
<1>1. CASE UNCHANGED <<pc, mem>>
  BY <1>1, OthersOk DEF mem, OkInv
<1>2. ASSUME NEW p \in Promoters, Step(p) \/ IoError(p) \/ Crash(p)
      PROVE  OkInv'
  <2>1. ASSUME NEW q \in Promoters \ {p}
        PROVE  pc'[q] = pc[q] /\ req'[q] = req[q] /\ seen'[q] = seen[q]
    BY <1>2 DEF Step, Call, Find, TakeReports, CollectLive, CollectFails, Mint,
       AcquireLock, TruncateArtifact, WriteArtifact, StageManifest, BackupManifest,
       InstallManifest, DropBackup, WriteProvenance, AppendLog, Rollback, Unlock, DryRun,
       Verify, AuditList, AuditCheck, IoError, Crash, Fail, Return, Goto, mem, TypeOK,
       MemoryTypeOK
  <2>2. OkOf(p)'
    <3>1. OkOf(p)
      BY DEF OkInv
    <3>2. pc[p] \in Busy => MyImpl(p) \in Impls
      BY InProgress
    <3>3. CASE Mint(p) /\ pc'[p] = "dry_run"
      <4>1. ~req[p].apply /\ req' = req
        BY <3>3 DEF Mint, Fail, Return, Goto, TypeOK, MemoryTypeOK
      <4> QED BY <3>3, <4>1 DEF OkOf
    <3>4. CASE AppendLog(p) /\ pc'[p] = "unlock"
      <4>1. log' = Append(log, MyImpl(p)) /\ MyImpl(p)' = MyImpl(p)
        BY <3>4 DEF AppendLog, Goto, TypeOK, MemoryTypeOK, MyImpl, mem
      <4>2. log \in Seq(Impls \cup {Torn}) /\ MyImpl(p) \in Impls
        BY <3>2, <3>4 DEF AppendLog, Busy, TypeOK, FilesTypeOK
      <4>3. Logged(MyImpl(p))'
        BY <4>1, <4>2 DEF Logged
      <4> QED BY <3>4, <4>3 DEF OkOf
    <3>5. CASE Unlock(p) \/ DryRun(p) \/ Verify(p)
      <4>1. /\ pc[p] \in {"unlock", "verify", "dry_run"} /\ req' = req
            /\ pc'[p] \in {"verify", "audit_list"}
            /\ pc[p] = "dry_run" => pc'[p] = "audit_list"
        BY <3>5 DEF Unlock, DryRun, Verify, Goto, mem, TypeOK, MemoryTypeOK
      <4>2. ASSUME pc[p] # "dry_run" PROVE Logged(MyImpl(p))'
        <5>1. log' = log /\ MyImpl(p)' = MyImpl(p)
          BY <3>5, <4>1 DEF Unlock, DryRun, Verify, disk, MyImpl
        <5>2. Logged(MyImpl(p))
          BY <3>1, <4>1, <4>2 DEF OkOf
        <5> QED BY <5>1, <5>2 DEF Logged
      <4> QED BY <3>1, <4>1, <4>2 DEF OkOf, MyImpl
    <3>6. CASE AuditList(p) /\ pc'[p] = "audit_check"
      <4>1. /\ pc[p] = "audit_list" /\ UNCHANGED <<req, manifest, log>>
            /\ seen'[p] = manifest
        BY <3>6 DEF AuditList, Fail, Return, Goto, disk, TypeOK, MemoryTypeOK
      <4>2. req[p].apply => \E n \in 1..Len(log) : log[n] = MyImpl(p) /\ MyImpl(p) # Torn
        BY <3>1, <3>2, <4>1, FilesDistinct DEF OkOf, Logged, Busy
      <4>3. req[p].apply /\ manifest[MyImpl(p)] # None
              => NeedsArtifact(manifest[MyImpl(p)].status)
        BY <4>2 DEF FInv, LoggedCopies
      <4> QED BY <3>6, <4>1, <4>2, <4>3 DEF OkOf, Logged, MyImpl
    <3>7. CASE pc'[p] \notin {"unlock", "verify", "audit_list", "audit_check", "dry_run"}
      BY <3>7, EarlyOk
    <3> QED
      BY <1>2, <3>3, <3>4, <3>5, <3>6, <3>7
      DEF Step, Call, Find, TakeReports, CollectLive, CollectFails, Mint,
          AcquireLock, TruncateArtifact, WriteArtifact, StageManifest, BackupManifest,
          InstallManifest, DropBackup, WriteProvenance, AppendLog, Rollback, AuditList,
          AuditCheck, IoError, Crash, Fail, Return, Goto, TypeOK, MemoryTypeOK, Ended
  <2> QED BY <2>1, <2>2, OthersOk DEF OkInv
<1>3. CASE UNCHANGED vars \/ \E i \in Impls : EditSource(i)
  BY <1>1, <1>3 DEF vars, EditSource
<1> QED BY <1>2, <1>3 DEF Next

(* Digests that are accepted are those of the files, apart from a contract *)
(* that is gone and from an adapter that nobody hashes.                    *)
LEMMA SameDigestsMean ==
  ASSUME NEW recorded \in Digests, NEW hashed \in SourceFiles, SameDigests(recorded, hashed)
  PROVE  /\ hashed.contract # None => recorded.contract = hashed.contract
         /\ Workspace => recorded.adapter = hashed.adapter
<1>1. hashed.adapter # None
  BY FilesDistinct DEF SourceFiles
<1>2. \A part \in {"adapter", "contract"} :
        DigestsOf(hashed)[part] \in {recorded[part], None}
  BY DEF SameDigests, DigestsOf, SourceFiles
<1>3. /\ DigestsOf(hashed).contract = hashed.contract
      /\ Workspace => DigestsOf(hashed).adapter = hashed.adapter
  BY DEF DigestsOf, SourceFiles
<1> QED BY <1>1, <1>2, <1>3

(* THEOREM: a call of apply that reports ok leaves an artifact about the   *)
(* files that are hashed as they are now, if its audit saw the             *)
(* implementation, whatever else failed, crashed or was edited, deleted or *)
(* restored on the way.  A contract that is gone at that moment, and an    *)
(* adapter without a workspace, are the only files it may not be about.    *)
THEOREM OkMeansHashed == Spec => OkIsAboutHashedFiles
<1>1. Init => OkInv
  BY DEF Init, OkInv, OkOf
<1>2. ASSUME TypeOK, OkInv, [Next]_vars
      PROVE  [\A p \in Promoters :
                SaysOk(p) /\ seen[p][MyImpl(p)] # None => CurrentEvidence(MyImpl(p))]_vars
  <2> SUFFICES ASSUME TypeOK, OkInv, [Next]_vars,
                      NEW p \in Promoters, SaysOk(p), seen[p][MyImpl(p)] # None
               PROVE  CurrentEvidence(MyImpl(p))
    BY <1>2
  <2>1. AuditCheck(p) /\ pc[p] = "audit_check" /\ pc'[p] = "ok"
    <3>1. pc[p] = "audit_check" /\ pc'[p] = "ok"
      BY DEF SaysOk, At
    <3>2. ~Crash(p) /\ ~IoError(p) /\ ~(\E i \in Impls : EditSource(i)) /\ vars' # vars
      BY <3>1 DEF Crash, Return, Goto, IoError, At, EditSource, vars, TypeOK, MemoryTypeOK
    <3>3. PICK q \in Promoters : Step(q) \/ IoError(q) \/ Crash(q)
      BY <3>2 DEF Next
    <3>4. q = p
      BY <3>1, <3>3 DEF Step, Call, Find, TakeReports, CollectLive, CollectFails, Mint,
       AcquireLock, TruncateArtifact, WriteArtifact, StageManifest, BackupManifest,
       InstallManifest, DropBackup, WriteProvenance, AppendLog, Rollback, Unlock, DryRun,
       Verify, AuditList, AuditCheck, IoError, Crash, Fail, Return, Goto, TypeOK,
       MemoryTypeOK
    <3>5. Step(p)
      BY <3>2, <3>3, <3>4
    <3> QED
      BY <3>1, <3>5 DEF Step, Call, Find, TakeReports, CollectLive, CollectFails, Mint,
       AcquireLock, TruncateArtifact, WriteArtifact, StageManifest, BackupManifest,
       InstallManifest, DropBackup, WriteProvenance, AppendLog, Rollback, Unlock, DryRun,
       Verify, AuditList, Fail, At
  <2>2. AuditOk(seen[p])
    BY <2>1 DEF AuditCheck, Return, Goto, TypeOK, MemoryTypeOK
  <2>3. MyImpl(p) \in Impls /\ NeedsArtifact(seen[p][MyImpl(p)].status)
    BY <2>1, InProgress DEF Busy, OkInv, OkOf, SaysOk
  <2>4. ArtifactOk(MyImpl(p), seen[p][MyImpl(p)])
    BY <2>2, <2>3 DEF AuditOk
  <2>5. /\ artifact[MyImpl(p)] \in Artifact
        /\ SameDigests(artifact[MyImpl(p)].digest, source[MyImpl(p)])
    BY <2>4 DEF ArtifactOk, VerifiedBy
  <2>6. /\ artifact[MyImpl(p)].digest \in Digests
        /\ source[MyImpl(p)] \in SourceFiles
    BY <2>3, <2>5 DEF Artifact, TypeOK, FilesTypeOK
  <2> QED BY <2>5, <2>6, SameDigestsMean DEF CurrentEvidence
<1> QED
  BY <1>1, <1>2, OkInvNext, TypeCorrect, FInvAlways, PTL DEF Spec, OkIsAboutHashedFiles
----------------------------------------------------------------------------
(* Calls end *)

(* A step of a call leaves the memory of the others alone.                 *)
LEMMA OthersKeep ==
  ASSUME TypeOK, NEW p \in Promoters, Step(p) \/ IoError(p) \/ Crash(p),
         NEW q \in Promoters \ {p}
  PROVE  pc'[q] = pc[q] /\ req'[q] = req[q] /\ imp'[q] = imp[q] /\ seen'[q] = seen[q]
<1>1. CASE Step(p)
  BY <1>1 DEF Step, Call, Find, TakeReports, CollectLive, CollectFails, Mint,
     AcquireLock, TruncateArtifact, WriteArtifact, StageManifest, BackupManifest,
     InstallManifest, DropBackup, WriteProvenance, AppendLog, Rollback, Unlock, DryRun,
     Verify, AuditList, AuditCheck, Fail, Return, Goto, mem, TypeOK, MemoryTypeOK
<1>2. CASE IoError(p) \/ Crash(p)
  BY <1>2 DEF IoError, Crash, Return, Goto, mem, TypeOK, MemoryTypeOK
<1> QED BY <1>1, <1>2

\* How far a call has come.
Place == [idle |-> 0, find |-> 1, collect |-> 2, mint |-> 3, lock |-> 4, trunc_art |-> 5,
          write_art |-> 6, stage |-> 7, backup |-> 8, install |-> 9, drop_bak |-> 10,
          write_prov |-> 11, append_log |-> 12, rollback |-> 13, unlock |-> 13,
          verify |-> 14, dry_run |-> 14, audit_list |-> 15, audit_check |-> 16,
          ok |-> 17, failed |-> 17, crashed |-> 17]

LEMMA Places ==
  /\ Place["idle"] = 0 /\ Place["find"] = 1 /\ Place["collect"] = 2
  /\ Place["mint"] = 3 /\ Place["lock"] = 4 /\ Place["trunc_art"] = 5
  /\ Place["write_art"] = 6 /\ Place["stage"] = 7 /\ Place["backup"] = 8
  /\ Place["install"] = 9 /\ Place["drop_bak"] = 10 /\ Place["write_prov"] = 11
  /\ Place["append_log"] = 12 /\ Place["rollback"] = 13 /\ Place["unlock"] = 13
  /\ Place["verify"] = 14 /\ Place["dry_run"] = 14 /\ Place["audit_list"] = 15
  /\ Place["audit_check"] = 16 /\ Place["ok"] = 17 /\ Place["failed"] = 17
  /\ Place["crashed"] = 17
  BY DEF Place

LEMMA PlacesTyped ==
  /\ \A s \in Busy : Place[s] \in 1 .. 16
  /\ \A s \in {"idle"} \cup Busy \cup Ended : Place[s] \in 0 .. 17
<1>1. \A s \in Busy : Place[s] \in 1 .. 16
  BY Places DEF Busy
<1>2. \A s \in {"idle"} \cup Ended : Place[s] \in 0 .. 17
  BY Places DEF Ended
<1> QED BY <1>1, <1>2

LEMMA StepsGoOn ==
  ASSUME TypeOK, NEW p \in Promoters, Step(p) \/ IoError(p) \/ Crash(p)
  PROVE  Place[pc[p]] < Place[pc'[p]]
<1> USE DEF At
<1>1. \A s : Goto(p, s) => pc'[p] = s
  BY DEF Goto, TypeOK, MemoryTypeOK
<1>2. ASSUME pc[p] \in Busy, pc'[p] \in Ended
      PROVE  Place[pc[p]] < Place[pc'[p]]
  <2>1. Place[pc[p]] \in 1 .. 16
    BY <1>2, PlacesTyped
  <2>2. Place[pc'[p]] = 17
    BY <1>2, Places DEF Ended
  <2> QED BY <2>1, <2>2
<1>3. CASE Fail(p) /\ pc[p] \in Busy
  <2>1. pc'[p] \in Ended
    BY <1>1, <1>3 DEF Fail, Return, Ended
  <2> QED BY <1>2, <1>3, <2>1
<1>4. CASE Call(p) \/ Find(p) \/ TakeReports(p) \/ CollectLive(p) \/ CollectFails(p) \/ Mint(p)
  <2>1. \/ Fail(p) /\ pc[p] \in Busy
        \/ pc[p] = "idle" /\ pc'[p] = "find"
        \/ pc[p] = "find" /\ pc'[p] = "collect"
        \/ pc[p] = "collect" /\ pc'[p] = "mint"
        \/ pc[p] = "mint" /\ pc'[p] \in {"lock", "dry_run"}
    BY <1>1, <1>4 DEF Call, Find, TakeReports, CollectLive, CollectFails, Mint, Busy
  <2> QED BY <1>3, <2>1, Places
<1>5. CASE AcquireLock(p) \/ TruncateArtifact(p) \/ WriteArtifact(p) \/ StageManifest(p)
           \/ BackupManifest(p) \/ InstallManifest(p) \/ DropBackup(p)
  <2>1. \/ Fail(p) /\ pc[p] \in Busy
        \/ pc[p] = "lock" /\ pc'[p] = "trunc_art"
        \/ pc[p] = "trunc_art" /\ pc'[p] = "write_art"
        \/ pc[p] = "write_art" /\ pc'[p] = "stage"
        \/ pc[p] = "stage" /\ pc'[p] = "backup"
        \/ pc[p] = "backup" /\ pc'[p] = "install"
        \/ pc[p] = "install" /\ pc'[p] = "drop_bak"
        \/ pc[p] = "drop_bak" /\ pc'[p] \in {"write_prov", "append_log"}
    BY <1>1, <1>5 DEF AcquireLock, TruncateArtifact, WriteArtifact, StageManifest,
       BackupManifest, InstallManifest, DropBackup, Busy
  <2> QED BY <1>3, <2>1, Places
<1>6. CASE WriteProvenance(p) \/ AppendLog(p) \/ Rollback(p) \/ Unlock(p) \/ DryRun(p)
           \/ Verify(p) \/ AuditList(p) \/ AuditCheck(p)
  <2>1. \/ pc[p] \in Busy /\ pc'[p] \in Ended
        \/ Fail(p) /\ pc[p] \in Busy
        \/ pc[p] = "write_prov" /\ pc'[p] = "append_log"
        \/ pc[p] = "append_log" /\ pc'[p] \in {"unlock", "rollback"}
        \/ pc[p] = "unlock" /\ pc'[p] = "verify"
        \/ pc[p] \in {"dry_run", "verify"} /\ pc'[p] = "audit_list"
        \/ pc[p] = "audit_list" /\ pc'[p] = "audit_check"
    BY <1>1, <1>6 DEF WriteProvenance, AppendLog, Rollback, Unlock, DryRun, Verify,
       AuditList, AuditCheck, Return, Busy, Ended
  <2> QED BY <1>2, <1>3, <2>1, Places
<1>7. CASE IoError(p)
  <2>1. /\ pc'[p] = "rollback"
        /\ pc[p] \in {"trunc_art", "write_art", "stage", "backup", "install", "write_prov",
                      "append_log"}
    BY <1>1, <1>7 DEF IoError
  <2> QED BY <2>1, Places
<1>8. CASE Crash(p)
  <2>1. pc[p] \in Busy /\ pc'[p] \in Ended
    BY <1>1, <1>8 DEF Crash, Return, Ended
  <2> QED BY <1>2, <2>1
<1> QED BY <1>4, <1>5, <1>6, <1>7, <1>8 DEF Step

\* A step of p, and whatever else moves p, takes it further.
GoesOn(p) ==
  Step(p) \/ pc'[p] # pc[p] =>
    /\ Place[pc[p]] < Place[pc'[p]]
    /\ Place[pc[p]] \in 0 .. 17 /\ Place[pc'[p]] \in 0 .. 17

(* THEOREM: a call only goes on.  No step of promote, and nothing another  *)
(* call, an I/O error or an edit does, takes a call back to where it was,  *)
(* and every step of its own takes it further: a call has at most          *)
(* seventeen of them, and none is a wait for the lock to be free or for a  *)
(* log that can be read.  With the fairness of FairSpec this is why calls  *)
(* end.                                                                    *)
THEOREM CallsOnlyGoOn == Spec => [][\A p \in Promoters : GoesOn(p)]_vars
<1>1. ASSUME TypeOK, TypeOK', [Next]_vars, NEW p \in Promoters, Step(p) \/ pc'[p] # pc[p]
      PROVE  /\ Place[pc[p]] < Place[pc'[p]]
             /\ Place[pc[p]] \in 0 .. 17 /\ Place[pc'[p]] \in 0 .. 17
  <2>1. pc[p] \in {"idle"} \cup Busy \cup Ended /\ pc'[p] \in {"idle"} \cup Busy \cup Ended
    BY <1>1 DEF TypeOK, MemoryTypeOK
  <2>2. Step(p) \/ IoError(p) \/ Crash(p)
    <3> SUFFICES ASSUME pc'[p] # pc[p] PROVE Step(p) \/ IoError(p) \/ Crash(p)
      BY <1>1
    <3>1. PICK q \in Promoters : Step(q) \/ IoError(q) \/ Crash(q)
      BY <1>1 DEF Next, EditSource, vars
    <3>2. q = p
      BY <1>1, <3>1, OthersKeep
    <3> QED BY <3>1, <3>2
  <2>3. Place[pc[p]] < Place[pc'[p]]
    BY <1>1, <2>2, StepsGoOn
  <2> QED BY <2>1, <2>3, PlacesTyped
<1>2. TypeOK /\ TypeOK' /\ [Next]_vars => [\A p \in Promoters : GoesOn(p)]_vars
  BY <1>1 DEF GoesOn
<1> QED BY <1>2, TypeCorrect, PTL DEF Spec

----------------------------------------------------------------------------
(* Promotions of different implementations *)

\* No two calls that are under way are about the same implementation.
Apart ==
  \A p, q \in Promoters :
    pc[p] \in Busy /\ pc[q] \in Busy /\ MyImpl(p) = MyImpl(q) => p = q

\* The steps at which the manifest a call is about must be in its place, once
\* nobody else moves it away.
Present == Busy \ {"find", "install", "rollback", "audit_check"}
AloneInv ==
  \A p \in Promoters :
    /\ pc[p] \in Present => manifest[MyImpl(p)] # None
    /\ pc[p] = "audit_check" => seen[p][MyImpl(p)] # None

(* A step writes no manifest but that of its own call's implementation.    *)
LEMMA WritesOwnManifest ==
  ASSUME TypeOK, NEW p \in Promoters, Step(p) \/ IoError(p) \/ Crash(p)
  PROVE  \/ UNCHANGED manifest
         \/ /\ pc[p] \in Busy /\ MyImpl(p) \in Impls
            /\ \A i \in Impls \ {MyImpl(p)} : manifest'[i] = manifest[i]
<1> USE DEF At
<1>1. pc[p] \in Busy => MyImpl(p) \in Impls
  BY InProgress
<1>2. CASE BackupManifest(p) \/ InstallManifest(p)
  BY <1>1, <1>2 DEF BackupManifest, InstallManifest, Busy, TypeOK, FilesTypeOK
<1>3. CASE IoError(p)
  BY <1>1, <1>3 DEF IoError, Busy, disk, TypeOK, FilesTypeOK
<1>4. CASE Crash(p)
  BY <1>4 DEF Crash, disk
<1>5. CASE Step(p) /\ ~BackupManifest(p) /\ ~InstallManifest(p)
  BY <1>5 DEF Step, Call, Find, TakeReports, CollectLive, CollectFails, Mint,
     AcquireLock, TruncateArtifact, WriteArtifact, StageManifest, DropBackup,
     WriteProvenance, AppendLog, Rollback, Unlock, DryRun, Verify, AuditList, AuditCheck,
     Fail, disk
<1> QED BY <1>2, <1>3, <1>4, <1>5

LEMMA AloneNext == TypeOK /\ TypeOK' /\ Apart /\ AloneInv /\ [Next]_vars => AloneInv'
<1> SUFFICES ASSUME TypeOK, TypeOK', Apart, AloneInv, [Next]_vars PROVE AloneInv'
  OBVIOUS
<1> USE DEF At
<1>1. CASE UNCHANGED <<disk, pc, mem>>
  BY <1>1 DEF AloneInv, MyImpl, disk, mem
<1>2. ASSUME NEW p \in Promoters, Step(p) \/ IoError(p) \/ Crash(p)
      PROVE  AloneInv'
  <2>1. ASSUME NEW q \in Promoters \ {p}
        PROVE  /\ pc'[q] \in Present => manifest'[MyImpl(q)'] # None
               /\ pc'[q] = "audit_check" => seen'[q][MyImpl(q)'] # None
    <3>1. pc'[q] = pc[q] /\ MyImpl(q)' = MyImpl(q) /\ seen'[q] = seen[q]
      BY <1>2, OthersKeep DEF MyImpl
    <3>2. pc[q] = "audit_check" => seen'[q][MyImpl(q)'] # None
      BY <3>1 DEF AloneInv
    <3>3. ASSUME pc[q] \in Present PROVE manifest'[MyImpl(q)] # None
      <4>1. MyImpl(q) \in Impls /\ pc[q] \in Busy
        BY <3>3, InProgress DEF Present
      <4>2. pc[p] \in Busy => MyImpl(q) # MyImpl(p)
        BY <4>1 DEF Apart
      <4>3. manifest'[MyImpl(q)] = manifest[MyImpl(q)]
        BY <1>2, <4>1, <4>2, WritesOwnManifest
      <4> QED BY <3>3, <4>3 DEF AloneInv
    <3> QED BY <3>1, <3>2, <3>3
  <2>2. /\ pc'[p] \in Present => manifest'[MyImpl(p)'] # None
        /\ pc'[p] = "audit_check" => seen'[p][MyImpl(p)'] # None
    <3>1. \A s : Goto(p, s) => pc'[p] = s
      BY DEF Goto, TypeOK, MemoryTypeOK
    <3>2. pc[p] \in Busy => MyImpl(p) \in Impls /\ imp[p] \in Manifest
      BY InProgress
    <3>3. CASE pc'[p] \in {"failed", "ok", "crashed", "find", "install", "rollback"}
      BY <3>3 DEF Present, Busy
    <3>4. CASE Find(p) /\ pc'[p] = "collect"
      <4>1. manifest[MyImpl(p)] # None /\ UNCHANGED <<manifest, req>>
        BY <3>1, <3>4 DEF Find, Promotable, Fail, Return, disk
      <4> QED BY <3>4, <4>1 DEF MyImpl
    <3>5. CASE InstallManifest(p)
      <4>1. /\ manifest'[MyImpl(p)] = imp[p] /\ MyImpl(p)' = MyImpl(p) /\ imp[p] # None
            /\ pc'[p] = "drop_bak"
        BY <3>1, <3>2, <3>5, FilesDistinct
        DEF InstallManifest, Busy, MyImpl, mem, TypeOK, FilesTypeOK
      <4> QED BY <4>1
    <3>6. CASE AuditList(p) /\ pc'[p] = "audit_check"
      <4>1. seen'[p] = manifest /\ MyImpl(p)' = MyImpl(p) /\ pc[p] = "audit_list"
        BY <3>1, <3>6 DEF AuditList, Fail, Return, MyImpl, TypeOK, MemoryTypeOK
      <4>2. manifest[MyImpl(p)] # None
        BY <4>1 DEF AloneInv, Present, Busy
      <4> QED BY <3>6, <4>1, <4>2 DEF Present
    <3>7. CASE /\ pc[p] \in Present /\ pc'[p] \in Present
               /\ UNCHANGED <<manifest, req>>
      BY <3>7 DEF AloneInv, MyImpl, Present
    <3>8. \/ pc'[p] \in {"failed", "ok", "crashed", "find", "install", "rollback"}
          \/ Find(p) /\ pc'[p] = "collect"
          \/ InstallManifest(p)
          \/ AuditList(p) /\ pc'[p] = "audit_check"
          \/ pc[p] \in Present /\ pc'[p] \in Present /\ UNCHANGED <<manifest, req>>
      <4>1. CASE Fail(p) \/ AuditCheck(p) \/ IoError(p) \/ Crash(p) \/ Rollback(p)
        BY <3>1, <4>1 DEF Fail, AuditCheck, IoError, Crash, Rollback, Return
      <4>2. CASE \/ Call(p) \/ Find(p) \/ TakeReports(p) \/ CollectLive(p)
                 \/ CollectFails(p) \/ Mint(p) \/ AcquireLock(p)
        BY <3>1, <4>1, <4>2 DEF Call, Find, TakeReports, CollectLive, CollectFails, Mint,
           AcquireLock, Present, Busy, disk, mem
      <4>3. CASE \/ TruncateArtifact(p) \/ WriteArtifact(p) \/ StageManifest(p)
                 \/ BackupManifest(p) \/ InstallManifest(p) \/ DropBackup(p)
        BY <3>1, <4>3 DEF TruncateArtifact, WriteArtifact, StageManifest, BackupManifest,
           DropBackup, Present, Busy, disk, mem
      <4>4. CASE \/ WriteProvenance(p) \/ AppendLog(p) \/ Unlock(p) \/ DryRun(p)
                 \/ Verify(p) \/ AuditList(p)
        BY <3>1, <4>1, <4>4 DEF WriteProvenance, AppendLog, Unlock, DryRun, Verify,
           AuditList, Present, Busy, disk, mem
      <4> QED BY <1>2, <4>1, <4>2, <4>3, <4>4 DEF Step
    <3> QED BY <3>3, <3>4, <3>5, <3>6, <3>7, <3>8
  <2> QED BY <2>1, <2>2 DEF AloneInv
<1>3. CASE UNCHANGED vars \/ \E i \in Impls : EditSource(i)
  BY <1>1, <1>3 DEF vars, EditSource
<1> QED BY <1>2, <1>3 DEF Next

(* THEOREM: the audit overlooks the implementation it is run for only      *)
(* because of another promotion of the same one: as long as calls that are *)
(* under way are about different implementations, a call of apply that     *)
(* reports ok leaves an artifact about the hashed files as they are now,   *)
(* whatever crashes, fails or is edited.  AuditSeesEveryImplementation is  *)
(* what the code claims without the proviso, and what its run refutes.     *)
THEOREM AuditSeesItsOwn == Spec /\ []Apart => AuditSeesEveryImplementation
<1>1. Init => AloneInv
  BY DEF Init, AloneInv, Present, Busy
<1>2. TypeOK /\ AloneInv /\
      [\A p \in Promoters :
         SaysOk(p) /\ seen[p][MyImpl(p)] # None => CurrentEvidence(MyImpl(p))]_vars
        => [\A p \in Promoters : SaysOk(p) => CurrentEvidence(MyImpl(p))]_vars
  BY DEF AloneInv, SaysOk, At
<1> QED
  BY <1>1, <1>2, AloneNext, TypeCorrect, OkMeansHashed, PTL
  DEF Spec, OkIsAboutHashedFiles, AuditSeesEveryImplementation
============================================================================
