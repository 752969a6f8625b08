--------------------------- MODULE PromotionTruth ---------------------------
(***************************************************************************)
(* The truthful-registry rule as an invariant of Promotion: outside the    *)
(* critical section of its own promotion, an implementation claims no more *)
(* than its artifact and its review record support.                        *)
(*                                                                         *)
(* It needs three things of the environment (EvidenceIsWhole): no I/O      *)
(* error inside a commit, because nothing is rolled back; no manifest that *)
(* starts with a failing axis, because minting keeps the failure in the    *)
(* artifact and promotion overwrites it in the manifest; and signed        *)
(* reports that carry every axis, because a human signature sets benchmark *)
(* and security in the manifest only.  Crashes, and any number of          *)
(* promotions that read the manifest before the lock, are allowed.  That   *)
(* admissions are reviewed is a matter of the order of the writes alone,   *)
(* and needs the first of the three only.                                  *)
(*                                                                         *)
(* Under the same assumptions promotions are transactions: Promotion with  *)
(* its history implements AtomicPromotion.                                 *)
(*                                                                         *)
(* Last, what holds whatever the faults and the evidence: which manifest a *)
(* promotion replaces, and what one that fails or dies leaves behind.      *)
(***************************************************************************)
EXTENDS PromotionProofs, PromotionHistory

NoIoErrors == "io" \notin Faults

EvidenceIsWhole ==
  /\ NoIoErrors
  /\ \A m \in InitManifests : ~AnyFail(m.axes)
  /\ \A r \in SignedReports :
       /\ r.build \in {"pass", "absent"}
       /\ r.benchmark = "pass" /\ r.license = "pass" /\ r.security = "pass"

----------------------------------------------------------------------------
(* The order of the writes *)

Written == {"stage", "backup", "install"} \cup Installed

\* How far the promotion in its critical section has come.
CommitSoFar ==
  \A p \in Promoters :
    /\ pc[p] \in Written => artifact[MyImpl(p)] = art[p]
    /\ pc[p] \in {"append_log", "unlock"} /\ req[p].target = "admitted"
         => provenance[MyImpl(p)] = "reviewed"
    /\ pc[p] # "rollback"

\* The lock belongs to a promotion under way or to a dead one, and only a dead
\* one leaves a torn log behind.
LockOwned ==
  /\ lock # None => pc[lock] \in Critical \cup {"crashed"}
  /\ ~LogReadable => lock # None /\ pc[lock] = "crashed"

CInv == CommitSoFar /\ LockOwned /\ AdmittedIsReviewed

LEMMA CInvInit == Init => CInv
<1> SUFFICES ASSUME Init PROVE CInv
  OBVIOUS
<1>1. CommitSoFar
  BY DEF Init, CommitSoFar, Critical, Written, Installed
<1>2. LockOwned
  BY DEF Init, LockOwned, LogReadable
<1>3. AdmittedIsReviewed
  BY DEF Init, AdmittedIsReviewed
<1>4. QED
  BY <1>1, <1>2, <1>3 DEF CInv

(* A step of a promoter outside its critical section that writes no file.  *)
LEMMA QuietCommit ==
  ASSUME TypeOK, CInv, NEW p \in Promoters, pc[p] \notin Critical \cup {"crashed"},
         UNCHANGED <<disk, lock>>, NEW s, Goto(p, s), s \notin Critical,
         \A q \in Promoters \ {p} : req'[q] = req[q] /\ art'[q] = art[q]
  PROVE  CInv'
<1>1. \A q \in Promoters : pc'[q] = IF q = p THEN s ELSE pc[q]
  BY DEF Goto, TypeOK, MemoryTypeOK
<1>2. lock # p
  BY NoneNotPromoter DEF CInv, LockOwned
<1>3. CommitSoFar'
  BY <1>1 DEF CInv, CommitSoFar, Critical, Written, Installed, MyImpl, disk
<1>4. lock' = lock /\ (lock # None => lock \in Promoters)
  BY DEF TypeOK, FilesTypeOK
<1>5. LockOwned'
  BY <1>1, <1>2, <1>4 DEF CInv, LockOwned, LogReadable, disk
<1>6. \A i \in Impls : Settled(i)' => Settled(i)
  BY <1>2, <1>4 DEF Settled
<1>7. AdmittedIsReviewed'
  BY <1>6 DEF CInv, AdmittedIsReviewed, disk
<1>8. QED
  BY <1>3, <1>5, <1>7 DEF CInv

(* The steps of a call that write nothing.                                 *)
LEMMA QuietCommitSteps ==
  ASSUME TypeOK, CInv, NEW p \in Promoters,
         \/ Call(p) \/ Find(p) \/ TakeReports(p) \/ CollectLive(p) \/ CollectFails(p)
         \/ Mint(p) \/ DryRun(p) \/ Verify(p) \/ AuditList(p) \/ AuditCheck(p)
  PROVE  CInv'
<1>1. pc[p] \notin Critical \cup {"crashed"}
  BY DEF At, Call, Find, TakeReports, CollectLive, CollectFails, Mint, DryRun, Verify,
     AuditList, AuditCheck, Critical
<1>2. \A q \in Promoters \ {p} : req'[q] = req[q] /\ art'[q] = art[q]
  BY DEF Call, Find, TakeReports, CollectLive, CollectFails, Mint, DryRun, Verify,
     AuditList, AuditCheck, Fail, Return, TypeOK, MemoryTypeOK
<1>3. UNCHANGED <<disk, lock>>
  BY DEF Call, Find, TakeReports, CollectLive, CollectFails, Mint, DryRun, Verify,
     AuditList, AuditCheck, Fail
<1>4. \E s \in {"find", "collect", "mint", "lock", "dry_run", "audit_list", "audit_check",
                "ok", "failed"} : Goto(p, s)
  BY DEF Call, Find, TakeReports, CollectLive, CollectFails, Mint, DryRun, Verify,
     AuditList, AuditCheck, Fail, Return
<1>5. QED
  BY <1>1, <1>2, <1>3, <1>4, QuietCommit DEF Critical

(* A step that stays in the critical section of p and writes only the      *)
(* files of its own implementation.                                        *)
LEMMA CriticalCommit ==
  ASSUME TypeOK, FInv, CInv, NEW p \in Promoters, pc[p] \in Critical,
         NEW s \in Critical, Goto(p, s), UNCHANGED <<lock, req, art>>,
         \A i \in Impls \ {MyImpl(p)} :
           manifest'[i] = manifest[i] /\ provenance'[i] = provenance[i],
         s \in Written => artifact'[MyImpl(p)] = art[p],
         s \in {"append_log", "unlock"} /\ req[p].target = "admitted"
           => provenance'[MyImpl(p)] = "reviewed",
         s # "rollback",
         LogReadable => LogReadable'
  PROVE  CInv'
<1>1. \A q \in Promoters : pc'[q] = IF q = p THEN s ELSE pc[q]
  BY DEF Goto, TypeOK, MemoryTypeOK
<1>2. lock = p /\ \A q \in Promoters : pc[q] \in Critical => q = p
  BY DEF FInv, LockHeld
<1>3. CommitSoFar'
  BY <1>1, <1>2 DEF CInv, CommitSoFar, Critical, Written, Installed, MyImpl
<1>4. LockOwned'
  BY <1>1, <1>2 DEF CInv, LockOwned, Critical
<1>5. \A i \in Impls : Settled(i)' => Settled(i) /\ i # MyImpl(p)
  BY <1>2, NoneNotPromoter DEF Settled, MyImpl
<1>6. AdmittedIsReviewed'
  BY <1>5 DEF CInv, AdmittedIsReviewed
<1>7. QED
  BY <1>3, <1>4, <1>6 DEF CInv

(* The steps under the lock, and the two that release it: the files of a   *)
(* promotion are all in place before it lets go of the lock.               *)
LEMMA CommitOrder ==
  ASSUME TypeOK, FInv, CInv, NEW p \in Promoters,
         \/ AcquireLock(p) \/ TruncateArtifact(p) \/ WriteArtifact(p)
         \/ StageManifest(p) \/ BackupManifest(p) \/ InstallManifest(p) \/ DropBackup(p)
         \/ WriteProvenance(p) \/ AppendLog(p) \/ Rollback(p) \/ Unlock(p)
  PROVE  CInv'
<1> USE DEF At
<1>0. /\ MyImpl(p) \in Impls /\ req[p] \in Request
      /\ pc[p] # "lock" => pc[p] \in Critical /\ lock = p /\ LogReadable
      /\ pc[p] # "rollback" /\ pc[p] # "crashed"
  <2>1. pc[p] \in {"lock"} \cup Critical
    BY DEF AcquireLock, TruncateArtifact, WriteArtifact, StageManifest, BackupManifest,
       InstallManifest, DropBackup, WriteProvenance, AppendLog, Rollback, Unlock, Critical
  <2>2. pc[p] \in Busy /\ pc[p] # "crashed"
    BY <2>1 DEF Busy, Critical
  <2>3. pc[p] # "lock" => lock = p
    BY <2>1 DEF FInv, LockHeld
  <2>4. pc[p] # "lock" => LogReadable
    BY <2>2, <2>3 DEF CInv, LockOwned
  <2>5. QED
    BY <2>1, <2>2, <2>3, <2>4, InProgress DEF CInv, CommitSoFar
<1>1. CASE AcquireLock(p)
  <2>1. CASE Fail(p)
    <3>1. pc[p] \notin Critical \cup {"crashed"}
      BY <1>1 DEF AcquireLock, Critical
    <3>2. \A q \in Promoters \ {p} : req'[q] = req[q] /\ art'[q] = art[q]
      BY <2>1 DEF Fail, Return, TypeOK, MemoryTypeOK
    <3>3. QED
      BY <2>1, <3>1, <3>2, QuietCommit DEF Fail, Return, Critical
  <2>2. CASE ~Fail(p)
    <3>1. /\ lock = None /\ lock' = p /\ UNCHANGED <<disk, mem>>
          /\ pc[p] = "lock" /\ Goto(p, "trunc_art")
      BY <1>1, <2>2 DEF AcquireLock
    <3>2. \A q \in Promoters : pc'[q] = IF q = p THEN "trunc_art" ELSE pc[q]
      BY <3>1 DEF Goto, TypeOK, MemoryTypeOK
    <3>3. CommitSoFar'
      BY <3>1, <3>2 DEF CInv, CommitSoFar, Written, Installed, MyImpl, disk, mem
    <3>4. LockOwned'
      BY <3>1, <3>2 DEF CInv, LockOwned, LogReadable, Critical, disk
    <3>5. \A i \in Impls : Settled(i)
      BY <3>1 DEF Settled
    <3>6. AdmittedIsReviewed'
      BY <3>1, <3>5 DEF CInv, AdmittedIsReviewed, disk
    <3>7. QED
      BY <3>3, <3>4, <3>6 DEF CInv
  <2>3. QED
    BY <2>1, <2>2
<1>2. CASE TruncateArtifact(p)
  <2>1. LogReadable => LogReadable'
    BY <1>2 DEF TruncateArtifact, LogReadable
  <2>2. "write_art" \in Critical \ Written
    BY DEF Critical, Written, Installed
  <2>3. QED
    BY <1>0, <1>2, <2>1, <2>2, CriticalCommit DEF TruncateArtifact, mem
<1>3. CASE WriteArtifact(p)
  <2>1. artifact'[MyImpl(p)] = art[p]
    BY <1>0, <1>3 DEF WriteArtifact, TypeOK, FilesTypeOK
  <2>2. LogReadable => LogReadable'
    BY <1>3 DEF WriteArtifact, LogReadable
  <2>3. "stage" \in Critical
    BY DEF Critical
  <2>4. QED
    BY <1>0, <1>3, <2>1, <2>2, <2>3, CriticalCommit DEF WriteArtifact, mem
<1>4. CASE StageManifest(p) \/ BackupManifest(p) \/ InstallManifest(p)
  <2>1. \A i \in Impls \ {MyImpl(p)} : manifest'[i] = manifest[i]
    BY <1>0, <1>4
    DEF StageManifest, BackupManifest, InstallManifest, disk, TypeOK, FilesTypeOK
  <2>2. artifact[MyImpl(p)] = art[p] /\ UNCHANGED <<artifact, provenance, log, lock, mem>>
    BY <1>4 DEF StageManifest, BackupManifest, InstallManifest, disk, CInv, CommitSoFar,
       Written
  <2>3. LogReadable => LogReadable'
    BY <2>2 DEF LogReadable
  <2>4. PICK s \in {"backup", "install", "drop_bak"} : Goto(p, s)
    BY <1>4 DEF StageManifest, BackupManifest, InstallManifest
  <2>5. s \in Critical
    BY DEF Critical
  <2>6. QED
    BY <1>0, <1>4, <2>1, <2>2, <2>3, <2>4, <2>5, CriticalCommit
    DEF StageManifest, BackupManifest, InstallManifest, mem
<1>5. CASE DropBackup(p)
  <2>1. artifact[MyImpl(p)] = art[p]
    BY <1>5 DEF DropBackup, CInv, CommitSoFar, Written, Installed
  <2>2. LogReadable => LogReadable'
    BY <1>5 DEF DropBackup, LogReadable
  <2>3. PICK s \in {"write_prov", "append_log"} :
          Goto(p, s) /\ (s = "append_log" => req[p].target # "admitted")
    BY <1>5 DEF DropBackup
  <2>4. s \in Critical
    BY DEF Critical
  <2>5. QED
    BY <1>0, <1>5, <2>1, <2>2, <2>3, <2>4, CriticalCommit DEF DropBackup, mem
<1>6. CASE WriteProvenance(p)
  <2>1. artifact[MyImpl(p)] = art[p]
    BY <1>6 DEF WriteProvenance, CInv, CommitSoFar, Written, Installed
  <2>2. /\ provenance'[MyImpl(p)] = "reviewed"
        /\ \A i \in Impls \ {MyImpl(p)} : provenance'[i] = provenance[i]
    BY <1>0, <1>6 DEF WriteProvenance, TypeOK, FilesTypeOK
  <2>3. LogReadable => LogReadable'
    BY <1>6 DEF WriteProvenance, LogReadable
  <2>4. "append_log" \in Critical
    BY DEF Critical
  <2>5. QED
    BY <1>0, <1>6, <2>1, <2>2, <2>3, <2>4, CriticalCommit DEF WriteProvenance, mem
<1>7. CASE AppendLog(p)
  <2>1. /\ artifact[MyImpl(p)] = art[p]
        /\ req[p].target = "admitted" => provenance[MyImpl(p)] = "reviewed"
    BY <1>7 DEF AppendLog, CInv, CommitSoFar, Written, Installed
  <2>2. log' = Append(log, MyImpl(p)) /\ Goto(p, "unlock")
    BY <1>0, <1>7 DEF AppendLog
  <2>3. log \in Seq(Impls \cup {Torn}) /\ MyImpl(p) # Torn
    BY <1>0, FilesDistinct DEF TypeOK, FilesTypeOK
  <2>4. LogReadable => LogReadable'
    BY <2>2, <2>3 DEF LogReadable
  <2>5. "unlock" \in Critical
    BY DEF Critical
  <2>6. QED
    BY <1>0, <1>7, <2>1, <2>2, <2>4, <2>5, CriticalCommit DEF AppendLog, mem
<1>8. CASE Unlock(p)
  <2>1. /\ pc[p] = "unlock" /\ lock = p /\ lock' = None
        /\ UNCHANGED <<disk, mem>> /\ Goto(p, "verify")
    BY <1>0, <1>8 DEF Unlock
  <2>2. \A q \in Promoters : pc'[q] = IF q = p THEN "verify" ELSE pc[q]
    BY <2>1 DEF Goto, TypeOK, MemoryTypeOK
  <2>3. CommitSoFar'
    BY <2>1, <2>2 DEF CInv, CommitSoFar, Written, Installed, MyImpl, disk, mem
  <2>4. LockOwned'
    BY <1>0, <2>1 DEF LockOwned, LogReadable, disk
  <2>5. /\ manifest[MyImpl(p)] = imp[p] /\ imp[p].status = req[p].target
        /\ req[p].target = "admitted" => provenance[MyImpl(p)] = "reviewed"
    BY <2>1 DEF FInv, InstalledIsMine, StatusIsTarget, CInv, CommitSoFar, Installed, Critical
  <2>6. \A i \in Impls : i # MyImpl(p) => Settled(i)
    BY <2>1 DEF Settled, MyImpl
  <2>7. AdmittedIsReviewed'
    BY <2>1, <2>5, <2>6 DEF CInv, AdmittedIsReviewed, disk
  <2>8. QED
    BY <2>3, <2>4, <2>7 DEF CInv
<1>9. ~Rollback(p)
  BY <1>0 DEF Rollback
<1>10. QED
  BY <1>1, <1>2, <1>3, <1>4, <1>5, <1>6, <1>7, <1>8, <1>9

(* A process that dies in its critical section keeps the lock, so the      *)
(* files it left half written stay under it.                               *)
LEMMA CrashOrder ==
  ASSUME TypeOK, FInv, CInv, NEW p \in Promoters, Crash(p)
  PROVE  CInv'
<1> USE DEF At
<1>1. /\ pc'[p] = "crashed" /\ req' = req
      /\ \A q \in Promoters \ {p} : pc'[q] = pc[q] /\ art'[q] = art[q]
      /\ UNCHANGED <<manifest, bak, artifact, lock, source>>
  BY DEF Crash, Return, Goto, disk, TypeOK, MemoryTypeOK
<1>2. MyImpl(p) \in Impls /\ pc[p] \in Busy
  BY InProgress DEF Crash
<1>3. pc[p] \in Critical => lock = p
  BY DEF FInv, LockHeld
<1>4. lock = p => pc[p] \in Critical
  BY <1>2, NoneNotPromoter DEF CInv, LockOwned, Busy
<1>5. /\ \A i \in Impls : i # MyImpl(p) => provenance'[i] = provenance[i]
      /\ lock # p => provenance' = provenance /\ log' = log
  <2>1. At(p, "write_prov") \/ At(p, "append_log") => lock = p
    BY <1>3 DEF Critical
  <2>2. QED
    BY <1>2, <2>1 DEF Crash, disk, TypeOK, FilesTypeOK
<1>6. LockOwned'
  <2>1. lock' = lock /\ (lock # None => lock \in Promoters)
    BY <1>1 DEF TypeOK, FilesTypeOK
  <2>2. QED
    BY <1>1, <1>5, <2>1, NoneNotPromoter DEF CInv, LockOwned, LogReadable
<1>7. CommitSoFar'
  <2>1. ASSUME NEW q \in Promoters, q # p, pc[q] \in Critical
        PROVE  provenance' = provenance
    BY <1>5, <2>1 DEF FInv, LockHeld
  <2>2. QED
    BY <1>1, <2>1 DEF CInv, CommitSoFar, Written, Installed, Critical, MyImpl
<1>8. \A i \in Impls : Settled(i)' => Settled(i) /\ (lock = p => i # MyImpl(p))
  BY <1>1, NoneNotPromoter DEF Settled, MyImpl
<1>9. AdmittedIsReviewed'
  BY <1>1, <1>5, <1>8 DEF CInv, AdmittedIsReviewed
<1>10. QED
  BY <1>6, <1>7, <1>9 DEF CInv

LEMMA CInvNext ==
  NoIoErrors /\ TypeOK /\ FInv /\ CInv /\ [Next]_vars => CInv'
<1> SUFFICES ASSUME NoIoErrors, TypeOK, FInv, CInv, [Next]_vars
             PROVE  CInv'
  OBVIOUS
<1>1. CASE UNCHANGED vars
  BY <1>1 DEF vars, disk, mem, CInv, CommitSoFar, LockOwned, LogReadable, MyImpl,
     AdmittedIsReviewed, Settled
<1>2. CASE \E p \in Promoters : Step(p)
  BY <1>2, QuietCommitSteps, CommitOrder DEF Step
<1>3. ASSUME NEW p \in Promoters
      PROVE  ~IoError(p)
  BY DEF IoError, NoIoErrors
<1>4. CASE \E p \in Promoters : Crash(p)
  BY <1>4, CrashOrder
<1>5. ASSUME NEW i \in Impls, EditSource(i)
      PROVE  CInv'
  BY <1>5 DEF EditSource, disk, mem, CInv, CommitSoFar, LockOwned, LogReadable, MyImpl,
     AdmittedIsReviewed, Settled
<1>6. QED
  BY <1>1, <1>2, <1>3, <1>4, <1>5 DEF Next

(* Whatever the evidence is worth: an admission that is settled has its    *)
(* review record, for every number of promotions and every crash, as long  *)
(* as no write fails.                                                      *)
THEOREM SettledIsReviewed ==
  ASSUME NoIoErrors
  PROVE  Spec => []AdmittedIsReviewed
<1>1. TypeOK /\ FInv /\ CInv /\ [Next]_vars => CInv'
  BY CInvNext
<1>2. CInv => AdmittedIsReviewed
  BY DEF CInv
<1>3. QED
  BY CInvInit, <1>1, <1>2, TypeCorrect, FInvAlways, PTL DEF Spec

----------------------------------------------------------------------------
(* The evidence behind what is written *)

Justifies(m, a) == ~Overclaims(m.status, JustifiedByArtifact(m.adapter, a.axes, TRUE, TRUE))

\* Collected facts that are enough for a target.
CompleteFor(c, target) ==
  /\ c.build \in {"pass", "absent"} /\ c.license = "pass"
  /\ target = "admitted" => c.benchmark = "pass" /\ c.security = "pass"

NoFailures ==
  /\ \A i \in Impls : manifest[i] # None => ~AnyFail(manifest[i].axes)
  /\ \A p \in Promoters : ~AnyFail(imp[p].axes)

\* What each promoter has in memory when it takes the lock.
MemoryIsSound ==
  \A p \in Promoters :
    /\ pc[p] \in {"collect", "mint", "lock"} \cup Critical => imp[p].adapter
    /\ pc[p] = "mint" => CompleteFor(got[p], req[p].target)
    /\ pc[p] \in {"lock"} \cup Critical => Justifies(imp[p], art[p])

TInv ==
  /\ CInv
  /\ NoFailures
  /\ MemoryIsSound
  /\ TruthfulWhenSettled

(* Minting from whole evidence: the axes justify the target, and they are  *)
(* free of failures, in the artifact and in the manifest.                  *)
LEMMA MintSound ==
  ASSUME NEW m \in Manifest, m.adapter, ~AnyFail(m.axes),
         NEW c \in Collected, NEW t \in {"conformant", "admitted"}, CompleteFor(c, t)
  PROVE  LET e == MintedAxes(WithCollected(m.axes, c))
             n == PromotedManifest(m, e, t)
         IN /\ n.status = t /\ n.adapter /\ ~AnyFail(n.axes)
            /\ ~Overclaims(t, JustifiedByArtifact(TRUE, e, TRUE, TRUE))
<1> DEFINE f == WithCollected(m.axes, c)
           e == MintedAxes(f)
           n == PromotedManifest(m, e, t)
<1>1. m.axes \in Evidence /\ f \in Evidence /\ e \in Evidence
  BY AxesTyped DEF Manifest
<1>2. f["build"] \in {"pass", "absent"} /\ f["license"] = "pass"
  BY <1>1 DEF WithCollected, CompleteFor, Evidence, Axes
<1>3. /\ f["conformance"] = m.axes["conformance"]
      /\ f["benchmark"] # "fail" /\ f["security"] # "fail"
      /\ t = "admitted" => f["benchmark"] = "pass" /\ f["security"] = "pass"
  BY <1>1 DEF WithCollected, CompleteFor, Evidence, Axes, AnyFail
<1>4. f["conformance"] # "fail"
  BY <1>1, <1>3 DEF AnyFail, Axes
<1>5. /\ e["build"] = "pass" /\ e["conformance"] = "pass" /\ e["license"] = "pass"
      /\ e["benchmark"] = f["benchmark"] /\ e["security"] = f["security"]
  BY <1>1, <1>2, <1>4 DEF MintedAxes, BySuites, Evidence, Axes
<1>6. ~AnyFail(e) /\ (t = "admitted" => AllPass(e))
  BY <1>3, <1>5 DEF AnyFail, AllPass, Axes
<1>7. n.status = t /\ n.adapter
  BY DEF PromotedManifest, Manifest
<1>8. \A a \in Axes : n.axes[a] \in {e[a], "pass"}
  BY <1>1 DEF PromotedManifest, Manifest, Evidence, Axes
<1>9. ~AnyFail(n.axes)
  BY <1>6, <1>8 DEF AnyFail
<1>10. ~Overclaims(t, JustifiedByArtifact(TRUE, e, TRUE, TRUE))
  <2> DEFINE j == JustifiedByArtifact(TRUE, e, TRUE, TRUE)
  <2>1. BySuites(e, TRUE) = e
    BY <1>1, <1>5 DEF BySuites, Evidence, Axes
  <2>4. j = "admitted" \/ (t = "conformant" /\ j = "conformant")
    BY <1>5, <1>6, <2>1 DEF JustifiedByArtifact, JustifiedFromAxes
  <2>2. StatusRank("conformant") = 2 /\ StatusRank("admitted") = 3
    BY DEF StatusRank
  <2> HIDE DEF j
  <2>3. ~Overclaims(t, j)
    BY <2>2, <2>4 DEF Overclaims
  <2>5. QED
    BY <2>3 DEF j
<1>11. QED
  BY <1>7, <1>9, <1>10

(* Axes without a failure justify as much in an artifact as in a manifest: *)
(* green suites only fill in a conformance that is not recorded.           *)
LEMMA ArtifactIsNoStricter ==
  ASSUME NEW e \in Evidence, ~AnyFail(e), NEW s \in {"conformant", "admitted"},
         ~Overclaims(s, JustifiedStatus(TRUE, e))
  PROVE  ~Overclaims(s, JustifiedByArtifact(TRUE, e, TRUE, TRUE))
<1> DEFINE b == BySuites(e, TRUE)
<1>1. /\ b \in Evidence /\ b["conformance"] = "pass"
      /\ \A x \in Axes : b[x] = e[x] \/ b[x] = "pass"
  BY DEF BySuites, Evidence, AxisFacts, Axes, AnyFail
<1> HIDE DEF b
<1>2. ~AnyFail(b) /\ (AllPass(e) => AllPass(b))
  BY <1>1 DEF AnyFail, AllPass
<1>3. JustifiedByArtifact(TRUE, e, TRUE, TRUE) = IF AllPass(b) THEN "admitted" ELSE "conformant"
  BY <1>1, <1>2 DEF JustifiedByArtifact, JustifiedFromAxes, b
<1>4. s = "admitted" => AllPass(e)
  BY DEF JustifiedStatus, Overclaims, StatusRank
<1>5. StatusRank("conformant") = 2 /\ StatusRank("admitted") = 3
  BY DEF StatusRank
<1> DEFINE j == JustifiedByArtifact(TRUE, e, TRUE, TRUE)
<1>6. j = "admitted" \/ (s = "conformant" /\ j = "conformant")
  BY <1>2, <1>3, <1>4
<1> HIDE DEF j
<1>7. ~Overclaims(s, j)
  BY <1>5, <1>6 DEF Overclaims
<1> QED BY <1>7 DEF j

LEMMA TInvInit == EvidenceIsWhole /\ Init => TInv
<1> SUFFICES ASSUME EvidenceIsWhole, Init PROVE TInv
  OBVIOUS
<1>1. NoFailures
  BY FilesDistinct DEF EvidenceIsWhole, Init, NoFailures, NoManifest, NoEvidence, AnyFail
<1>2. MemoryIsSound
  BY DEF Init, MemoryIsSound, Critical
<1>3. ASSUME NEW i \in Impls, NeedsArtifact(manifest[i].status)
      PROVE  Justified(i)
  <2>1. /\ manifest[i] \in InitManifests /\ manifest[i] \in Manifest
        /\ manifest[i].adapter
        /\ ~Overclaims(manifest[i].status, JustifiedStatus(TRUE, manifest[i].axes))
    BY <1>3, InitManifestsTruthful DEF Init
  <2>2. /\ artifact[i] = [axes |-> manifest[i].axes, digest |-> DigestsOf(source[i])]
        /\ manifest[i].axes \in Evidence /\ ~AnyFail(manifest[i].axes)
        /\ DigestsOf(source[i]) \in Digests
    <3>1. source[i] \in SourceFiles
      BY DEF Init, SourceFiles
    <3>2. manifest[i] # None
      BY <2>1, FilesDistinct
    <3>3. QED
      BY <1>1, <1>3, <2>1, <3>1, <3>2, DigestsTyped DEF Init, Manifest, NoFailures
  <2>3. artifact[i] \in Artifact
    BY <2>2 DEF Artifact
  <2>4. ~Overclaims(manifest[i].status,
                    JustifiedByArtifact(TRUE, artifact[i].axes, TRUE, TRUE))
    <3>1. manifest[i].status \in {"conformant", "admitted"}
      BY <1>3 DEF NeedsArtifact
    <3>2. artifact[i].axes = manifest[i].axes
      BY <2>2
    <3>3. ~Overclaims(manifest[i].status,
                      JustifiedByArtifact(TRUE, manifest[i].axes, TRUE, TRUE))
      BY <2>1, <2>2, <3>1, ArtifactIsNoStricter
    <3>4. QED
      BY <3>2, <3>3
  <2>5. manifest[i].adapter = TRUE
    BY <2>1 DEF Manifest
  <2>6. QED
    BY <2>3, <2>4, <2>5 DEF Justified
<1>4. TruthfulWhenSettled
  BY <1>3 DEF Init, TruthfulWhenSettled
<1>5. QED
  BY <1>1, <1>2, <1>4, CInvInit DEF TInv

(* A step of a promoter outside its critical section that writes no file.  *)
LEMMA QuietTruth ==
  ASSUME TypeOK, TInv, NEW p \in Promoters, pc[p] \notin Critical \cup {"crashed"},
         UNCHANGED <<disk, lock>>, NEW s, Goto(p, s), s \notin Critical,
         \A q \in Promoters \ {p} :
           req'[q] = req[q] /\ imp'[q] = imp[q] /\ art'[q] = art[q] /\ got'[q] = got[q],
         ~AnyFail(imp'[p].axes),
         s \in {"collect", "mint", "lock"} => imp'[p].adapter,
         s = "mint" => CompleteFor(got'[p], req'[p].target),
         s = "lock" => Justifies(imp'[p], art'[p])
  PROVE  TInv'
<1>1. \A q \in Promoters : pc'[q] = IF q = p THEN s ELSE pc[q]
  BY DEF Goto, TypeOK, MemoryTypeOK
<1>2. lock # p
  BY NoneNotPromoter DEF TInv, CInv, LockOwned
<1>3. NoFailures'
  BY DEF TInv, NoFailures, disk
<1>4. MemoryIsSound'
  BY <1>1 DEF TInv, MemoryIsSound
<1>5. CInv'
  BY QuietCommit DEF TInv
<1>6. lock' = lock /\ (lock # None => lock \in Promoters)
  BY DEF TypeOK, FilesTypeOK
<1>7. \A i \in Impls : Settled(i)' => Settled(i)
  BY <1>2, <1>6 DEF Settled
<1>8. TruthfulWhenSettled'
  BY <1>7 DEF TInv, TruthfulWhenSettled, Justified, disk
<1>9. QED
  BY <1>3, <1>4, <1>5, <1>8 DEF TInv

(* A call that ends, other than by a crash, without touching a file.       *)
LEMMA QuietTruthReturn ==
  ASSUME TypeOK, TInv, NEW p \in Promoters, pc[p] \notin Critical \cup {"crashed"},
         NEW result \in Ended, Return(p, result), UNCHANGED <<disk, lock>>
  PROVE  TInv'
<1>1. \A q \in Promoters \ {p} :
        req'[q] = req[q] /\ imp'[q] = imp[q] /\ art'[q] = art[q] /\ got'[q] = got[q]
  BY DEF Return, TypeOK, MemoryTypeOK
<1>2. ~AnyFail(imp'[p].axes)
  BY DEF Return, TypeOK, MemoryTypeOK, NoManifest, NoEvidence, AnyFail
<1>3. result \notin Critical \cup {"collect", "mint", "lock"}
  BY DEF Ended, Critical
<1>4. QED
  BY <1>1, <1>2, <1>3, QuietTruth DEF Return

(* The steps of a call that write nothing.                                 *)
LEMMA QuietTruthSteps ==
  ASSUME EvidenceIsWhole, TypeOK, TInv, NEW p \in Promoters,
         \/ Call(p) \/ Find(p) \/ TakeReports(p) \/ CollectLive(p) \/ CollectFails(p)
         \/ Mint(p) \/ DryRun(p) \/ Verify(p) \/ AuditList(p) \/ AuditCheck(p)
  PROVE  TInv'
<1> USE DEF At
<1>0. /\ pc[p] \notin Critical \cup {"crashed"}
      /\ ~AnyFail(imp[p].axes)
      /\ pc[p] # "idle" => MyImpl(p) \in Impls /\ req[p] \in Request
  BY InProgress DEF Call, Find, TakeReports, CollectLive, CollectFails, Mint, DryRun, Verify,
     AuditList, AuditCheck, Critical, Busy, TInv, NoFailures
<1>1. CASE Fail(p)
  BY <1>0, <1>1, QuietTruthReturn DEF Fail, Ended
<1>2. CASE AuditCheck(p)
  <2>1. PICK result \in {"ok", "failed"} : Return(p, result)
    BY <1>2 DEF AuditCheck
  <2>2. QED
    BY <1>0, <1>2, <2>1, QuietTruthReturn DEF AuditCheck, Ended
<1>3. CASE Find(p) /\ ~Fail(p)
  <2>1. imp' = [imp EXCEPT ![p] = manifest[MyImpl(p)]]
    BY <1>3 DEF Find
  <2>2. imp'[p] = manifest[MyImpl(p)] /\ manifest[MyImpl(p)] # None /\ imp'[p].adapter
    BY <1>3, <2>1 DEF Find, Promotable, TypeOK, MemoryTypeOK
  <2>3. ~AnyFail(imp'[p].axes)
    BY <1>0, <1>3, <2>2 DEF Find, TInv, NoFailures
  <2>4. \A q \in Promoters \ {p} :
          req'[q] = req[q] /\ imp'[q] = imp[q] /\ art'[q] = art[q] /\ got'[q] = got[q]
    BY <1>3 DEF Find, TypeOK, MemoryTypeOK
  <2>5. Goto(p, "collect") /\ "collect" \notin Critical /\ UNCHANGED <<disk, lock>>
    BY <1>3 DEF Find, Critical
  <2>6. QED
    BY <1>0, <2>2, <2>3, <2>4, <2>5, QuietTruth
<1>4. CASE TakeReports(p) \/ CollectLive(p)
  <2>1. req[p] \in Request
    BY <1>0, <1>4 DEF TakeReports, CollectLive
  <2>2. CompleteFor(got'[p], req[p].target)
    <3>1. CASE TakeReports(p)
      <4>1. req[p].reports \in SignedReports
        BY <2>1, <3>1 DEF TakeReports, Request
      <4>2. got'[p] = req[p].reports
        BY <3>1 DEF TakeReports, TypeOK, MemoryTypeOK
      <4>3. QED
        BY <4>1, <4>2 DEF EvidenceIsWhole, CompleteFor
    <3>2. CASE CollectLive(p)
      <4>1. PICK benchmark \in {"pass", "absent"}, security \in {"pass", "absent", "fail"},
                 benchError \in BOOLEAN :
              /\ req[p].target = "admitted" => benchmark = "pass" /\ security = "pass"
              /\ got' = [got EXCEPT ![p] =
                  [build |-> "pass", benchmark |-> benchmark, license |-> "pass",
                   security |-> security, flagged |-> benchError \/ security = "fail"]]
        BY <3>2 DEF CollectLive
      <4>2. got'[p] = [build |-> "pass", benchmark |-> benchmark, license |-> "pass",
                       security |-> security, flagged |-> benchError \/ security = "fail"]
        BY <4>1 DEF TypeOK, MemoryTypeOK
      <4>3. QED
        BY <4>1, <4>2 DEF CompleteFor
    <3>3. QED
      BY <1>4, <3>1, <3>2
  <2>3. \A q \in Promoters \ {p} :
          req'[q] = req[q] /\ imp'[q] = imp[q] /\ art'[q] = art[q] /\ got'[q] = got[q]
    BY <1>4 DEF TakeReports, CollectLive, TypeOK, MemoryTypeOK
  <2>4. imp[p].adapter
    BY <1>4 DEF TakeReports, CollectLive, TInv, MemoryIsSound
  <2>5. Goto(p, "mint") /\ "mint" \notin Critical /\ UNCHANGED <<disk, lock, req, imp>>
    BY <1>4 DEF TakeReports, CollectLive, Critical
  <2>6. QED
    BY <1>0, <2>2, <2>3, <2>4, <2>5, QuietTruth
<1>5. CASE Mint(p) /\ ~Fail(p)
  <2>1. /\ imp[p].adapter /\ ~AnyFail(imp[p].axes) /\ imp[p] \in Manifest
        /\ got[p] \in Collected /\ CompleteFor(got[p], req[p].target)
        /\ req[p].target \in {"conformant", "admitted"}
    BY <1>0, <1>5 DEF Mint, TInv, MemoryIsSound, TypeOK, MemoryTypeOK, Request
  <2> DEFINE e == MintedAxes(WithCollected(imp[p].axes, got[p]))
             n == PromotedManifest(imp[p], e, req[p].target)
  <2>2. /\ n.status = req[p].target /\ n.adapter /\ ~AnyFail(n.axes)
        /\ ~Overclaims(req[p].target, JustifiedByArtifact(TRUE, e, TRUE, TRUE))
    BY <2>1, MintSound
  <2>3. n \in Manifest
    BY <2>1, AxesTyped DEF Manifest
  <2>4. imp'[p] = n /\ art'[p] = Minted(p)
    BY <1>5 DEF Mint, Minted, TypeOK, MemoryTypeOK
  <2>5. art'[p].axes = e
    BY <2>4 DEF Minted
  <2>6. Justifies(imp'[p], art'[p])
    <3>1. n.adapter = TRUE
      BY <2>2, <2>3 DEF Manifest
    <3> HIDE DEF e, n
    <3>2. QED
      BY <2>2, <2>4, <2>5, <3>1 DEF Justifies
  <2>7. \A q \in Promoters \ {p} :
          req'[q] = req[q] /\ imp'[q] = imp[q] /\ art'[q] = art[q] /\ got'[q] = got[q]
    BY <1>5 DEF Mint, TypeOK, MemoryTypeOK
  <2>8. PICK s \in {"lock", "dry_run"} : Goto(p, s)
    BY <1>5 DEF Mint
  <2>9. UNCHANGED <<disk, lock>> /\ s \notin Critical \cup {"collect", "mint"}
    BY <1>5 DEF Mint, Critical
  <2>10. ~AnyFail(imp'[p].axes) /\ imp'[p].adapter
    BY <2>2, <2>4
  <2>11. QED
    BY <1>0, <2>6, <2>7, <2>8, <2>9, <2>10, QuietTruth
<1>6. CASE ~Fail(p) /\ (Call(p) \/ CollectFails(p) \/ DryRun(p) \/ Verify(p) \/ AuditList(p))
  <2>1. \A q \in Promoters \ {p} :
          req'[q] = req[q] /\ imp'[q] = imp[q] /\ art'[q] = art[q] /\ got'[q] = got[q]
    BY <1>6 DEF Call, CollectFails, DryRun, Verify, AuditList, TypeOK, MemoryTypeOK
  <2>2. PICK s \in {"find", "audit_list", "audit_check"} : Goto(p, s)
    BY <1>6 DEF Call, CollectFails, DryRun, Verify, AuditList
  <2>3. UNCHANGED <<disk, lock, imp>>
    BY <1>6 DEF Call, CollectFails, DryRun, Verify, AuditList
  <2>4. s \notin Critical \cup {"collect", "mint", "lock"}
    BY DEF Critical
  <2>5. QED
    BY <1>0, <2>1, <2>2, <2>3, <2>4, QuietTruth
<1>7. QED
  BY <1>1, <1>2, <1>3, <1>4, <1>5, <1>6

(* A step that stays in the critical section of p and writes only the      *)
(* files of its own implementation.                                        *)
LEMMA CriticalTruth ==
  ASSUME TypeOK, FInv, TInv, CInv', NEW p \in Promoters, pc[p] \in Critical,
         NEW s \in Critical, Goto(p, s), UNCHANGED <<lock, req, imp, art, got>>,
         \A i \in Impls \ {MyImpl(p)} :
           manifest'[i] = manifest[i] /\ artifact'[i] = artifact[i],
         manifest'[MyImpl(p)] \in {None, manifest[MyImpl(p)], imp[p]}
  PROVE  TInv'
<1>1. \A q \in Promoters : pc'[q] = IF q = p THEN s ELSE pc[q]
  BY DEF Goto, TypeOK, MemoryTypeOK
<1>2. lock = p
  BY DEF FInv, LockHeld
<1>3. NoFailures'
  BY DEF TInv, NoFailures
<1>4. MemoryIsSound'
  <2>1. s \notin {"collect", "mint", "lock"}
    BY DEF Critical
  <2>2. imp[p].adapter /\ Justifies(imp[p], art[p])
    BY DEF TInv, MemoryIsSound
  <2>3. QED
    BY <1>1, <2>1, <2>2 DEF TInv, MemoryIsSound
<1>5. \A i \in Impls : Settled(i)' => Settled(i) /\ i # MyImpl(p)
  BY <1>2, NoneNotPromoter DEF Settled, MyImpl
<1>6. TruthfulWhenSettled'
  BY <1>5 DEF TInv, TruthfulWhenSettled, Justified
<1>7. QED
  BY <1>3, <1>4, <1>6 DEF TInv

(* The steps under the lock, and the two that release it.                  *)
LEMMA CommitTruth ==
  ASSUME TypeOK, FInv, TInv, NEW p \in Promoters,
         \/ AcquireLock(p) \/ TruncateArtifact(p) \/ WriteArtifact(p)
         \/ StageManifest(p) \/ BackupManifest(p) \/ InstallManifest(p) \/ DropBackup(p)
         \/ WriteProvenance(p) \/ AppendLog(p) \/ Rollback(p) \/ Unlock(p)
  PROVE  TInv'
<1> USE DEF At
<1>1. CInv'
  BY CommitOrder DEF TInv
<1>2. CASE AcquireLock(p)
  <2>1. CASE Fail(p)
    <3>1. pc[p] \notin Critical \cup {"crashed"}
      BY <1>2 DEF AcquireLock, Critical
    <3>2. QED
      BY <2>1, <3>1, QuietTruthReturn DEF Fail, Ended
  <2>2. CASE ~Fail(p)
    <3>1. /\ lock = None /\ lock' = p /\ UNCHANGED <<disk, mem>>
          /\ pc[p] = "lock" /\ Goto(p, "trunc_art")
      BY <1>2, <2>2 DEF AcquireLock
    <3>2. \A q \in Promoters : pc'[q] = IF q = p THEN "trunc_art" ELSE pc[q]
      BY <3>1 DEF Goto, TypeOK, MemoryTypeOK
    <3>3. NoFailures' /\ MemoryIsSound'
      BY <3>1, <3>2 DEF TInv, NoFailures, MemoryIsSound, Critical, disk, mem
    <3>4. \A i \in Impls : Settled(i)
      BY <3>1 DEF Settled
    <3>5. TruthfulWhenSettled'
      BY <3>1, <3>4 DEF TInv, TruthfulWhenSettled, Justified, disk
    <3>6. QED
      BY <1>1, <3>3, <3>5 DEF TInv
  <2>3. QED
    BY <2>1, <2>2
<1>3. CASE \/ TruncateArtifact(p) \/ WriteArtifact(p) \/ StageManifest(p)
           \/ BackupManifest(p) \/ InstallManifest(p) \/ DropBackup(p)
           \/ WriteProvenance(p) \/ AppendLog(p)
  <2> USE <1>3
      DEF TruncateArtifact, WriteArtifact, StageManifest, BackupManifest, InstallManifest,
          DropBackup, WriteProvenance, AppendLog, disk
  <2>1. pc[p] \in Critical /\ MyImpl(p) \in Impls
    BY InProgress DEF Critical, Busy
  <2>2. UNCHANGED <<lock, req, imp, art, got>>
    BY DEF mem
  <2>3. \A i \in Impls \ {MyImpl(p)} :
          manifest'[i] = manifest[i] /\ artifact'[i] = artifact[i]
    BY DEF TypeOK, FilesTypeOK
  <2>4. manifest'[MyImpl(p)] \in {None, manifest[MyImpl(p)], imp[p]}
    BY <2>1 DEF TypeOK, FilesTypeOK
  <2>5. \E s \in {"write_art", "stage", "backup", "install", "drop_bak", "write_prov",
                  "append_log", "unlock", "rollback"} : Goto(p, s)
    OBVIOUS
  <2>6. PICK s \in Critical : Goto(p, s)
    BY <2>5 DEF Critical
  <2>7. QED
    BY <1>1, <2>1, <2>2, <2>3, <2>4, <2>6, CriticalTruth
<1>4. CASE Unlock(p)
  <2>1. /\ pc[p] = "unlock" /\ lock = p /\ lock' = None
        /\ UNCHANGED <<disk, mem>> /\ Goto(p, "verify")
    BY <1>4 DEF Unlock, FInv, LockHeld, Critical
  <2>2. \A q \in Promoters : pc'[q] = IF q = p THEN "verify" ELSE pc[q]
    BY <2>1 DEF Goto, TypeOK, MemoryTypeOK
  <2>3. NoFailures' /\ MemoryIsSound'
    BY <2>1, <2>2 DEF TInv, NoFailures, MemoryIsSound, Critical, disk, mem
  <2>4. /\ manifest[MyImpl(p)] = imp[p] /\ artifact[MyImpl(p)] = art[p]
        /\ Justifies(imp[p], art[p])
    BY <2>1 DEF FInv, InstalledIsMine, TInv, CInv, CommitSoFar, MemoryIsSound, Written,
       Installed, Critical
  <2>5. MyImpl(p) \in Impls
    BY <2>1, InProgress DEF Busy
  <2>6. Justified(MyImpl(p))
    BY <2>1, <2>4, <2>5 DEF Justified, Justifies, TypeOK, MemoryTypeOK
  <2>7. \A i \in Impls : i # MyImpl(p) => Settled(i)
    BY <2>1 DEF Settled, MyImpl
  <2>8. TruthfulWhenSettled'
    BY <2>1, <2>6, <2>7 DEF TInv, TruthfulWhenSettled, Justified, disk
  <2>9. QED
    BY <1>1, <2>3, <2>8 DEF TInv
<1>5. ~Rollback(p)
  BY DEF Rollback, TInv, CInv, CommitSoFar
<1>6. QED
  BY <1>2, <1>3, <1>4, <1>5

(* A process that dies in its critical section keeps the lock, so the      *)
(* files it left half written stay under it.                               *)
LEMMA CrashTruth ==
  ASSUME TypeOK, FInv, TInv, NEW p \in Promoters, Crash(p)
  PROVE  TInv'
<1> USE DEF At
<1>1. /\ pc'[p] = "crashed" /\ imp'[p] = NoManifest /\ req' = req
      /\ \A q \in Promoters \ {p} :
           /\ pc'[q] = pc[q] /\ imp'[q] = imp[q]
           /\ art'[q] = art[q] /\ got'[q] = got[q]
      /\ UNCHANGED <<manifest, bak, artifact, lock, source>>
  BY DEF Crash, Return, Goto, disk, TypeOK, MemoryTypeOK
<1>2. CInv'
  BY CrashOrder DEF TInv
<1>3. NoFailures'
  BY <1>1 DEF TInv, NoFailures, NoManifest, NoEvidence, AnyFail
<1>4. MemoryIsSound'
  BY <1>1 DEF TInv, MemoryIsSound, Critical
<1>5. \A i \in Impls : Settled(i)' => Settled(i)
  BY <1>1 DEF Settled
<1>6. TruthfulWhenSettled'
  BY <1>1, <1>5 DEF TInv, TruthfulWhenSettled, Justified
<1>7. QED
  BY <1>2, <1>3, <1>4, <1>6 DEF TInv

LEMMA TInvNext ==
  EvidenceIsWhole /\ TypeOK /\ FInv /\ TInv /\ [Next]_vars => TInv'
<1> SUFFICES ASSUME EvidenceIsWhole, TypeOK, FInv, TInv, [Next]_vars
             PROVE  TInv'
  OBVIOUS
<1>0. CInv'
  BY CInvNext DEF TInv, EvidenceIsWhole
<1>1. CASE UNCHANGED vars
  BY <1>0, <1>1 DEF vars, disk, mem, TInv, NoFailures, MemoryIsSound, TruthfulWhenSettled,
     Settled, Justified
<1>2. CASE \E p \in Promoters : Step(p)
  BY <1>2, QuietTruthSteps, CommitTruth DEF Step
<1>3. ASSUME NEW p \in Promoters
      PROVE  ~IoError(p)
  BY DEF IoError, EvidenceIsWhole, NoIoErrors
<1>4. CASE \E p \in Promoters : Crash(p)
  BY <1>4, CrashTruth
<1>5. ASSUME NEW i \in Impls, EditSource(i)
      PROVE  TInv'
  BY <1>0, <1>5 DEF EditSource, disk, mem, TInv, NoFailures, MemoryIsSound,
     TruthfulWhenSettled, Settled, Justified
<1>6. QED
  BY <1>1, <1>2, <1>3, <1>4, <1>5 DEF Next

LEMMA TInvAlways == ASSUME EvidenceIsWhole PROVE Spec => []TInv
<1>1. Init => TInv
  BY TInvInit
<1>2. TypeOK /\ FInv /\ TInv /\ [Next]_vars => TInv'
  BY TInvNext
<1> QED BY <1>1, <1>2, TypeCorrect, FInvAlways, PTL DEF Spec

(* With whole evidence and without I/O errors, a settled implementation    *)
(* never claims more than its artifact justifies, for every number of      *)
(* promotions and every crash.                                             *)
THEOREM SettledIsTruthful ==
  ASSUME EvidenceIsWhole
  PROVE  Spec => []TruthfulWhenSettled
<1>1. TInv => TruthfulWhenSettled
  BY DEF TInv
<1>2. QED
  BY <1>1, TInvAlways, PTL

----------------------------------------------------------------------------
(* Promotions as transactions *)

LEMMA HistoryImplements == HSpec => Spec
<1>1. HInit => Init
  BY DEF HInit
<1>2. [HNext]_hvars => [Next]_vars
  BY DEF HNext, hvars
<1> QED BY <1>1, <1>2, PTL DEF HSpec, Spec

\* The implementation a promotion is about keeps its adapter, or has no manifest
\* for the moment.
AdaptersStay ==
  \A p \in Promoters : pc[p] \in {"collect", "mint", "lock"} \cup Critical =>
    /\ imp[p].adapter
    /\ manifest[MyImpl(p)] # None => manifest[MyImpl(p)].adapter

\* A manifest is missing only under the lock of the promotion that moved it away.
PresentWhenSettled == \A i \in Impls : Settled(i) => manifest[i] # None

\* What has changed since the lock was last free is the work of its owner: files
\* of its own implementation, and its line in the log.
SinceTheLock ==
  /\ lock = None => saved = Files
  /\ \A i \in Impls : Settled(i) => saved.store[i] = Entry(i)
  /\ \A p \in Promoters : pc[p] \in Critical =>
       /\ saved.store[MyImpl(p)].manifest \in Manifest
       /\ saved.store[MyImpl(p)].manifest.adapter
       /\ log = IF pc[p] = "unlock" THEN Append(saved.log, MyImpl(p)) ELSE saved.log

RInv == AdaptersStay /\ PresentWhenSettled /\ SinceTheLock

LEMMA RInvInit == HInit => RInv
<1> SUFFICES ASSUME HInit PROVE RInv
  OBVIOUS
<1>1. Init /\ saved = Files
  BY DEF HInit
<1>2. AdaptersStay
  BY <1>1 DEF Init, AdaptersStay, Critical
<1>3. PresentWhenSettled
  BY <1>1, InitManifestsTruthful, FilesDistinct DEF Init, PresentWhenSettled
<1>4. SinceTheLock
  BY <1>1 DEF Init, SinceTheLock, Critical, Files
<1> QED BY <1>2, <1>3, <1>4 DEF RInv

\* How `saved` follows a step.
Follows == saved' = IF lock' = None THEN Files' ELSE saved

\* A step of a promoter outside its critical section that writes no file.
LEMMA QuietHistory ==
  ASSUME TypeOK, TInv, RInv, Follows, NEW p \in Promoters,
         pc[p] \notin Critical \cup {"crashed"},
         UNCHANGED <<disk, lock>>, NEW s, Goto(p, s), s \notin Critical,
         \A q \in Promoters \ {p} : req'[q] = req[q] /\ imp'[q] = imp[q],
         s \in {"collect", "mint", "lock"} =>
           /\ imp'[p].adapter
           /\ manifest[req'[p].impl] # None => manifest[req'[p].impl].adapter
  PROVE  RInv'
<1>1. \A q \in Promoters : pc'[q] = IF q = p THEN s ELSE pc[q]
  BY DEF Goto, TypeOK, MemoryTypeOK
<1>2. lock # p /\ lock' = lock /\ (lock # None => lock \in Promoters)
  BY NoneNotPromoter DEF TInv, CInv, LockOwned, TypeOK, FilesTypeOK
<1>3. \A i \in Impls : Settled(i)' <=> Settled(i)
  BY <1>2 DEF Settled
<1>4. \A i \in Impls : Entry(i)' = Entry(i)
  BY DEF Entry, disk
<1>5. Files' = Files
  BY <1>4 DEF Files, disk
<1>6. saved' = saved
  BY <1>2, <1>5 DEF Follows, RInv, SinceTheLock
<1>7. AdaptersStay'
  BY <1>1 DEF RInv, AdaptersStay, MyImpl, disk
<1>8. PresentWhenSettled'
  BY <1>3 DEF RInv, PresentWhenSettled, disk
<1>9. SinceTheLock'
  <2>1. \A q \in Promoters : pc'[q] \in Critical => pc'[q] = pc[q] /\ MyImpl(q)' = MyImpl(q)
    BY <1>1 DEF MyImpl
  <2>2. log' = log
    BY DEF disk
  <2> QED BY <1>2, <1>3, <1>4, <1>5, <1>6, <2>1, <2>2 DEF RInv, SinceTheLock
<1> QED BY <1>7, <1>8, <1>9 DEF RInv

LEMMA QuietHistoryReturn ==
  ASSUME TypeOK, TInv, RInv, Follows, NEW p \in Promoters,
         pc[p] \notin Critical \cup {"crashed"},
         NEW result \in Ended, Return(p, result), UNCHANGED <<disk, lock>>
  PROVE  RInv'
<1>1. \A q \in Promoters \ {p} : req'[q] = req[q] /\ imp'[q] = imp[q]
  BY DEF Return, TypeOK, MemoryTypeOK
<1>2. result \notin Critical \cup {"collect", "mint", "lock"}
  BY DEF Ended, Critical
<1> QED BY <1>1, <1>2, QuietHistory DEF Return

\* The steps of a call that write nothing.
LEMMA QuietHistorySteps ==
  ASSUME TypeOK, TInv, RInv, Follows, NEW p \in Promoters,
         \/ Call(p) \/ Find(p) \/ TakeReports(p) \/ CollectLive(p) \/ CollectFails(p)
         \/ Mint(p) \/ DryRun(p) \/ Verify(p) \/ AuditList(p) \/ AuditCheck(p)
  PROVE  RInv'
<1> USE DEF At
<1>0. /\ pc[p] \notin Critical \cup {"crashed"}
      /\ pc[p] # "idle" => MyImpl(p) \in Impls /\ req[p] \in Request /\ imp[p] \in Manifest
  BY InProgress DEF Call, Find, TakeReports, CollectLive, CollectFails, Mint, DryRun, Verify,
     AuditList, AuditCheck, Critical, Busy
<1>1. CASE Fail(p)
  BY <1>0, <1>1, QuietHistoryReturn DEF Fail, Ended
<1>2. CASE AuditCheck(p)
  <2>1. PICK result \in {"ok", "failed"} : Return(p, result)
    BY <1>2 DEF AuditCheck
  <2> QED BY <1>0, <1>2, <2>1, QuietHistoryReturn DEF AuditCheck, Ended
<1>3. CASE ~Fail(p) /\ ~AuditCheck(p)
  <2>1. \A q \in Promoters \ {p} : req'[q] = req[q] /\ imp'[q] = imp[q]
    BY <1>3 DEF Call, Find, TakeReports, CollectLive, CollectFails, Mint, DryRun, Verify,
       AuditList, TypeOK, MemoryTypeOK
  <2>2. PICK s \in {"find", "collect", "mint", "lock", "dry_run", "audit_list", "audit_check"} :
          Goto(p, s)
    BY <1>3 DEF Call, Find, TakeReports, CollectLive, CollectFails, Mint, DryRun, Verify,
       AuditList
  <2>3. UNCHANGED <<disk, lock>>
    BY <1>3 DEF Call, Find, TakeReports, CollectLive, CollectFails, Mint, DryRun, Verify,
       AuditList
  <2>4. pc'[p] = s
    BY <2>2 DEF Goto, TypeOK, MemoryTypeOK
  <2>5. ASSUME s \in {"collect", "mint", "lock"}
        PROVE  /\ imp'[p].adapter
               /\ manifest[req'[p].impl] # None => manifest[req'[p].impl].adapter
    <3>1. CASE Find(p)
      BY <1>3, <3>1 DEF Find, Promotable, MyImpl, TypeOK, MemoryTypeOK
    <3>2. CASE TakeReports(p) \/ CollectLive(p)
      BY <1>3, <3>2 DEF TakeReports, CollectLive, RInv, AdaptersStay, MyImpl
    <3>3. CASE Mint(p)
      <4>1. imp'[p] = PromotedManifest(imp[p], Minted(p).axes, req[p].target)
        BY <1>3, <3>3 DEF Mint, TypeOK, MemoryTypeOK
      <4>2. imp'[p].adapter = imp[p].adapter
        BY <1>0, <3>3, <4>1 DEF PromotedManifest, Manifest, Mint
      <4> QED BY <1>3, <3>3, <4>2 DEF Mint, RInv, AdaptersStay, MyImpl
    <3> QED
      BY <1>3, <2>4, <2>5, <3>1, <3>2, <3>3
      DEF Call, CollectFails, DryRun, Verify, AuditList, Goto, TypeOK, MemoryTypeOK
  <2>6. s \notin Critical
    BY <2>2 DEF Critical
  <2> QED BY <1>0, <2>1, <2>2, <2>3, <2>5, <2>6, QuietHistory
<1> QED BY <1>1, <1>2, <1>3

\* A step under the lock, after which its owner still has it.
LEMMA CriticalHistory ==
  ASSUME TypeOK, FInv, RInv, Follows, NEW p \in Promoters, NEW s \in Critical,
         pc[p] \in Critical \ {"unlock"}, Goto(p, s), UNCHANGED <<lock, req, imp>>,
         MyImpl(p) \in Impls,
         \A i \in Impls \ {MyImpl(p)} :
           /\ manifest'[i] = manifest[i] /\ artifact'[i] = artifact[i]
           /\ provenance'[i] = provenance[i],
         manifest'[MyImpl(p)] \in {None, manifest[MyImpl(p)], imp[p]},
         log' = IF s = "unlock" THEN Append(log, MyImpl(p)) ELSE log
  PROVE  RInv'
<1>1. \A q \in Promoters : pc'[q] = IF q = p THEN s ELSE pc[q]
  BY DEF Goto, TypeOK, MemoryTypeOK
<1>2. /\ lock = p /\ lock # None /\ MyImpl(p)' = MyImpl(p)
      /\ \A q \in Promoters : pc[q] \in Critical => q = p
  BY NoneNotPromoter DEF FInv, LockHeld, MyImpl
<1>3. saved' = saved
  BY <1>2 DEF Follows
<1>4. \A i \in Impls : Settled(i)' => Settled(i) /\ i # MyImpl(p)
  BY <1>2 DEF Settled, MyImpl
<1>5. AdaptersStay'
  <2>1. imp[p].adapter
    BY DEF RInv, AdaptersStay
  <2>2. ASSUME NEW q \in Promoters, pc'[q] \in {"collect", "mint", "lock"} \cup Critical
        PROVE  /\ imp[q].adapter /\ MyImpl(q) \in Impls /\ MyImpl(q)' = MyImpl(q)
               /\ manifest[MyImpl(q)] # None => manifest[MyImpl(q)].adapter
    <3>1. pc[q] \in {"collect", "mint", "lock"} \cup Critical
      BY <1>1, <2>2
    <3>2. pc[q] \in Busy
      BY <3>1 DEF Critical, Busy
    <3> QED BY <3>1, <3>2, InProgress DEF RInv, AdaptersStay, MyImpl
  <2>3. ASSUME NEW q \in Promoters, pc'[q] \in {"collect", "mint", "lock"} \cup Critical
        PROVE  manifest'[MyImpl(q)] # None => manifest'[MyImpl(q)].adapter
    <3>1. PICK i \in Impls : i = MyImpl(q)
      BY <2>2, <2>3
    <3>2. CASE i = MyImpl(p)
      BY <2>1, <2>2, <2>3, <3>1, <3>2
    <3>3. CASE i # MyImpl(p)
      BY <2>2, <2>3, <3>1, <3>3
    <3> QED BY <3>2, <3>3
  <2> QED BY <2>2, <2>3 DEF AdaptersStay
<1>6. PresentWhenSettled'
  BY <1>4 DEF RInv, PresentWhenSettled
<1>7. SinceTheLock'
  <2>1. \A i \in Impls : Settled(i)' => saved'.store[i] = Entry(i)'
    BY <1>3, <1>4 DEF RInv, SinceTheLock, Entry
  <2>2. saved.store[MyImpl(p)].manifest.adapter /\ log = saved.log
    BY DEF RInv, SinceTheLock
  <2>3. saved.store[MyImpl(p)].manifest \in Manifest
    BY DEF RInv, SinceTheLock
  <2> QED BY <1>1, <1>2, <1>3, <2>1, <2>2, <2>3 DEF SinceTheLock
<1> QED BY <1>5, <1>6, <1>7 DEF RInv

\* The steps under the lock, and the two that take it and release it.
LEMMA CommitHistory ==
  ASSUME TypeOK, FInv, TInv, RInv, Follows, NEW p \in Promoters,
         \/ AcquireLock(p) \/ TruncateArtifact(p) \/ WriteArtifact(p)
         \/ StageManifest(p) \/ BackupManifest(p) \/ InstallManifest(p) \/ DropBackup(p)
         \/ WriteProvenance(p) \/ AppendLog(p) \/ Rollback(p) \/ Unlock(p)
  PROVE  RInv'
<1> USE DEF At
<1>0. /\ MyImpl(p) \in Impls /\ req[p] \in Request /\ imp[p] \in Manifest
      /\ pc[p] # "lock" => pc[p] \in Critical /\ lock = p /\ LogReadable
      /\ pc[p] # "rollback" /\ pc[p] # "crashed"
  <2>1. pc[p] \in {"lock"} \cup Critical
    BY DEF AcquireLock, TruncateArtifact, WriteArtifact, StageManifest, BackupManifest,
       InstallManifest, DropBackup, WriteProvenance, AppendLog, Rollback, Unlock, Critical
  <2>2. pc[p] \in Busy /\ pc[p] # "crashed"
    BY <2>1 DEF Busy, Critical
  <2>3. pc[p] # "lock" => lock = p
    BY <2>1 DEF FInv, LockHeld
  <2>4. pc[p] # "lock" => LogReadable
    BY <2>2, <2>3, NoneNotPromoter DEF TInv, CInv, LockOwned
  <2> QED BY <2>1, <2>2, <2>3, <2>4, InProgress DEF TInv, CInv, CommitSoFar
<1>1. CASE AcquireLock(p)
  <2>1. CASE Fail(p)
    <3>1. pc[p] \notin Critical \cup {"crashed"}
      BY <1>1 DEF AcquireLock, Critical
    <3> QED BY <2>1, <3>1, QuietHistoryReturn DEF Fail, Ended
  <2>2. CASE ~Fail(p)
    <3>1. /\ lock = None /\ lock' = p /\ UNCHANGED <<disk, mem>>
          /\ pc[p] = "lock" /\ Goto(p, "trunc_art")
      BY <1>1, <2>2 DEF AcquireLock
    <3>2. \A q \in Promoters : pc'[q] = IF q = p THEN "trunc_art" ELSE pc[q]
      BY <3>1 DEF Goto, TypeOK, MemoryTypeOK
    <3>3. /\ saved = Files /\ saved' = saved
          /\ \A i \in Impls : Settled(i) /\ saved.store[i] = Entry(i)
          /\ \A q \in Promoters : pc[q] \notin Critical
      BY <3>1, NoneNotPromoter DEF Follows, RInv, SinceTheLock, Settled, FInv, LockHeld
    <3>4. AdaptersStay'
      BY <3>1, <3>2 DEF RInv, AdaptersStay, MyImpl, disk, mem
    <3>5. PresentWhenSettled'
      BY <3>1, <3>3 DEF RInv, PresentWhenSettled, disk
    <3>6. Entry(MyImpl(p)).manifest.adapter /\ Entry(MyImpl(p)).manifest \in Manifest
      BY <1>0, <3>1, <3>3
      DEF RInv, AdaptersStay, PresentWhenSettled, Entry, TypeOK, FilesTypeOK
    <3>7. /\ saved.store[MyImpl(p)].manifest.adapter
          /\ saved.store[MyImpl(p)].manifest \in Manifest
      BY <1>0, <3>3, <3>6
    <3>8. log = saved.log
      BY <3>3 DEF Files
    <3>9. \A i \in Impls : Entry(i)' = Entry(i)
      BY <3>1 DEF Entry, disk
    <3>10. SinceTheLock'
      BY <1>0, <3>1, <3>2, <3>3, <3>7, <3>8, <3>9, NoneNotPromoter
      DEF SinceTheLock, MyImpl, disk, mem
    <3> QED BY <3>4, <3>5, <3>10 DEF RInv
  <2> QED BY <2>1, <2>2
<1>2. CASE Unlock(p)
  <2>1. /\ pc[p] = "unlock" /\ lock' = None
        /\ UNCHANGED <<disk, mem>> /\ Goto(p, "verify")
    BY <1>2 DEF Unlock
  <2>2. \A q \in Promoters : pc'[q] = IF q = p THEN "verify" ELSE pc[q]
    BY <2>1 DEF Goto, TypeOK, MemoryTypeOK
  <2>3. \A q \in Promoters : pc'[q] \notin Critical
    BY <1>0, <2>1, <2>2 DEF FInv, LockHeld, Critical
  <2>4. saved' = Files' /\ \A i \in Impls : saved'.store[i] = Entry(i)'
    BY <2>1 DEF Follows, Files
  <2>5. AdaptersStay'
    BY <2>1, <2>2 DEF RInv, AdaptersStay, MyImpl, Critical, disk, mem
  <2>6. manifest[MyImpl(p)] # None
    BY <1>0, <2>1, FilesDistinct DEF FInv, InstalledIsMine, Installed
  <2>7. \A i \in Impls : i # MyImpl(p) => Settled(i)
    BY <1>0, <2>1 DEF Settled, MyImpl
  <2>8. PresentWhenSettled'
    BY <2>1, <2>6, <2>7 DEF RInv, PresentWhenSettled, disk
  <2>9. SinceTheLock'
    BY <2>3, <2>4 DEF SinceTheLock
  <2> QED BY <2>5, <2>8, <2>9 DEF RInv
<1>3. CASE \/ TruncateArtifact(p) \/ WriteArtifact(p)
           \/ StageManifest(p) \/ BackupManifest(p) \/ InstallManifest(p) \/ DropBackup(p)
           \/ WriteProvenance(p) \/ AppendLog(p)
  <2>1. pc[p] \in Critical \ {"unlock"} /\ UNCHANGED <<lock, req, imp>>
    BY <1>3 DEF TruncateArtifact, WriteArtifact, StageManifest, BackupManifest,
       InstallManifest, DropBackup, WriteProvenance, AppendLog, Critical, mem
  <2>2. \A i \in Impls \ {MyImpl(p)} :
           /\ manifest'[i] = manifest[i] /\ artifact'[i] = artifact[i]
           /\ provenance'[i] = provenance[i]
    BY <1>0, <1>3 DEF TruncateArtifact, WriteArtifact, StageManifest, BackupManifest,
       InstallManifest, DropBackup, WriteProvenance, AppendLog, disk, TypeOK, FilesTypeOK
  <2>3. manifest'[MyImpl(p)] \in {None, manifest[MyImpl(p)], imp[p]}
    BY <1>0, <1>3 DEF TruncateArtifact, WriteArtifact, StageManifest, BackupManifest,
       InstallManifest, DropBackup, WriteProvenance, AppendLog, disk, TypeOK, FilesTypeOK
  <2>4. PICK s \in Critical : /\ Goto(p, s)
                              /\ log' = IF s = "unlock" THEN Append(log, MyImpl(p)) ELSE log
    <3>1. CASE AppendLog(p)
      <4>1. Goto(p, "unlock") /\ log' = Append(log, MyImpl(p))
        BY <1>0, <3>1 DEF AppendLog
      <4> QED BY <4>1 DEF Critical
    <3>2. CASE ~AppendLog(p)
      <4>1. log' = log
        BY <1>3, <3>2 DEF TruncateArtifact, WriteArtifact, StageManifest, BackupManifest,
           InstallManifest, DropBackup, WriteProvenance, disk
      <4>2. \E s \in {"write_art", "stage", "backup", "install", "drop_bak", "write_prov",
                      "append_log"} : Goto(p, s)
        BY <1>3, <3>2 DEF TruncateArtifact, WriteArtifact, StageManifest, BackupManifest,
           InstallManifest, DropBackup, WriteProvenance
      <4> QED BY <4>1, <4>2 DEF Critical
    <3> QED BY <3>1, <3>2
  <2> QED BY <1>0, <2>1, <2>2, <2>3, <2>4, CriticalHistory
<1>4. ~Rollback(p)
  BY <1>0 DEF Rollback
<1> QED BY <1>1, <1>2, <1>3, <1>4

\* A process that dies keeps its request, and with it its hold on its files.
LEMMA CrashHistory ==
  ASSUME TypeOK, FInv, TInv, RInv, Follows, NEW p \in Promoters, Crash(p)
  PROVE  RInv'
<1> USE DEF At
<1>1. /\ pc'[p] = "crashed" /\ req' = req /\ imp'[p] = NoManifest
      /\ \A q \in Promoters \ {p} : pc'[q] = pc[q] /\ imp'[q] = imp[q]
      /\ UNCHANGED <<manifest, artifact, lock>>
  BY DEF Crash, Return, Goto, disk, TypeOK, MemoryTypeOK
<1>2. MyImpl(p) \in Impls /\ pc[p] \in Busy
  BY InProgress DEF Crash
<1>3. pc[p] \in Critical => lock = p
  BY DEF FInv, LockHeld
<1>4. /\ \A i \in Impls : i # MyImpl(p) => provenance'[i] = provenance[i]
      /\ lock # p => provenance' = provenance /\ log' = log
  <2>1. At(p, "write_prov") \/ At(p, "append_log") => lock = p
    BY <1>3 DEF Critical
  <2> QED BY <1>2, <2>1 DEF Crash, disk, TypeOK, FilesTypeOK
<1>5. \A i \in Impls : Settled(i)' <=> Settled(i)
  BY <1>1 DEF Settled
<1>6. \A i \in Impls : Settled(i) /\ lock = p => i # MyImpl(p)
  BY NoneNotPromoter DEF Settled, MyImpl
<1>7. \A i \in Impls : Settled(i) => Entry(i)' = Entry(i)
  BY <1>1, <1>4, <1>6 DEF Entry
<1>8. saved' = saved
  <2>1. CASE lock = None
    <3>1. Files' = Files
      BY <1>1, <1>4, <2>1, NoneNotPromoter DEF Files, Entry
    <3> QED BY <1>1, <2>1, <3>1 DEF Follows, RInv, SinceTheLock
  <2> QED BY <1>1, <2>1 DEF Follows
<1>9. AdaptersStay'
  BY <1>1 DEF RInv, AdaptersStay, MyImpl, Critical
<1>10. PresentWhenSettled'
  BY <1>1, <1>5 DEF RInv, PresentWhenSettled
<1>11. SinceTheLock'
  <2>1. lock = None => saved' = Files'
    BY <1>1 DEF Follows
  <2>2. \A q \in Promoters : pc'[q] \in Critical => q # p /\ log' = log
    BY <1>1, <1>4 DEF FInv, LockHeld, Critical
  <2> QED BY <1>1, <1>5, <1>7, <1>8, <2>1, <2>2 DEF RInv, SinceTheLock, MyImpl
<1> QED BY <1>9, <1>10, <1>11 DEF RInv

\* Edits of sources, and no step at all.
LEMMA StillHistory ==
  ASSUME RInv, Follows, UNCHANGED <<disk, lock, pc, mem>>
  PROVE  RInv'
<1>1. \A i \in Impls : Entry(i)' = Entry(i) /\ Settled(i)' = Settled(i)
  BY DEF Entry, Settled, disk, mem
<1>2. Files' = Files
  BY <1>1 DEF Files, disk
<1>3. saved' = saved
  BY <1>2 DEF Follows, RInv, SinceTheLock
<1> QED BY <1>1, <1>2, <1>3 DEF RInv, AdaptersStay, PresentWhenSettled, SinceTheLock,
        MyImpl, disk, mem

LEMMA HistoryFollows == RInv /\ [HNext]_hvars => Follows /\ [Next]_vars
<1> SUFFICES ASSUME RInv, [HNext]_hvars PROVE Follows /\ [Next]_vars
  OBVIOUS
<1>1. CASE HNext
  BY <1>1 DEF HNext, Record, Follows
<1>2. CASE UNCHANGED hvars
  <2>1. UNCHANGED <<disk, lock, saved>> /\ UNCHANGED vars
    BY <1>2 DEF hvars, vars
  <2>2. Files' = Files
    BY <2>1 DEF Files, Entry, disk
  <2> QED BY <2>1, <2>2 DEF Follows, RInv, SinceTheLock
<1> QED BY <1>1, <1>2

LEMMA RInvNext ==
  EvidenceIsWhole /\ TypeOK /\ FInv /\ TInv /\ RInv /\ [HNext]_hvars => RInv'
<1> SUFFICES ASSUME EvidenceIsWhole, TypeOK, FInv, TInv, RInv, [HNext]_hvars
             PROVE  RInv'
  OBVIOUS
<1>1. Follows /\ [Next]_vars
  BY HistoryFollows
<1>2. CASE UNCHANGED vars
  BY <1>1, <1>2, StillHistory DEF vars
<1>3. CASE \E p \in Promoters : Step(p)
  BY <1>1, <1>3, QuietHistorySteps, CommitHistory DEF Step
<1>4. ASSUME NEW p \in Promoters
      PROVE  ~IoError(p)
  BY DEF IoError, EvidenceIsWhole, NoIoErrors
<1>5. CASE \E p \in Promoters : Crash(p)
  BY <1>1, <1>5, CrashHistory
<1>6. ASSUME NEW i \in Impls, EditSource(i)
      PROVE  RInv'
  BY <1>1, <1>6, StillHistory DEF EditSource
<1> QED BY <1>1, <1>2, <1>3, <1>4, <1>5, <1>6 DEF Next

\* What a promotion leaves when it gives the lock back is one Commit.
LEMMA UnlockCommits ==
  ASSUME TypeOK, FInv, TInv, RInv, Follows, NEW p \in Promoters, Unlock(p)
  PROVE  Atomic!Next
<1>1. /\ pc[p] = "unlock" /\ lock = p /\ lock' = None /\ UNCHANGED <<disk, mem>>
      /\ MyImpl(p) \in Impls /\ req[p] \in Request /\ imp[p] \in Manifest
  BY InProgress DEF Unlock, At, FInv, LockHeld, Critical, Busy
<1>2. PICK i \in Impls : i = MyImpl(p)
  BY <1>1
<1>3. /\ \A j \in Impls : saved'.store[j] = Entry(j)
      /\ saved'.log = log
  BY <1>1 DEF Follows, Files, Entry, disk
<1>4. /\ manifest[i] = imp[p] /\ artifact[i] = art[p]
      /\ Justifies(imp[p], art[p]) /\ imp[p].status = req[p].target
      /\ imp[p].adapter /\ art[p] \in Artifact
      /\ req[p].target = "admitted" => provenance[i] = "reviewed"
  BY <1>1, <1>2, InProgress DEF FInv, InstalledIsMine, StatusIsTarget, TInv, CInv, CommitSoFar,
     MemoryIsSound, Written, Installed, Critical, Busy, RInv, AdaptersStay
<1>5. Atomic!Truthful(saved'.store[i])
  <2>1. /\ saved'.store[i].manifest = imp[p] /\ saved'.store[i].artifact = art[p]
        /\ req[p].target = "admitted" => saved'.store[i].provenance = "reviewed"
    <3>1. saved'.store[i] = Entry(i)
      BY <1>3
    <3> QED BY <1>4, <3>1 DEF Entry
  <2>2. req[p].target \in {"conformant", "admitted"}
    BY <1>1 DEF Request
  <2>3. ~Overclaims(imp[p].status,
                    JustifiedByArtifact(imp[p].adapter, art[p].axes, TRUE, TRUE))
    BY <1>4 DEF Justifies
  <2>4. ~Atomic!Overclaims(imp[p].status,
           Atomic!JustifiedByArtifact(imp[p].adapter, art[p].axes, TRUE, TRUE))
    BY <2>3 DEF Overclaims, StatusRank, JustifiedByArtifact, JustifiedFromAxes, BySuites,
       AllPass, AnyFail, Axes, Atomic!Overclaims, Atomic!StatusRank,
       Atomic!JustifiedByArtifact, Atomic!JustifiedFromAxes, Atomic!BySuites,
       Atomic!AllPass, Atomic!AnyFail, Atomic!Axes
  <2> QED BY <1>4, <2>1, <2>2, <2>4 DEF Atomic!Truthful, Atomic!NeedsArtifact
<1>6. saved'.store[i].manifest.adapter = saved.store[i].manifest.adapter
  <2>1. saved'.store[i].manifest = imp[p]
    <3>1. saved'.store[i] = Entry(i)
      BY <1>3
    <3> QED BY <1>4, <3>1 DEF Entry
  <2>2. saved.store[i].manifest.adapter = TRUE
    <3>1. /\ saved.store[i].manifest \in Manifest
          /\ saved.store[i].manifest.adapter
      BY <1>1, <1>2 DEF RInv, SinceTheLock, Critical
    <3> QED BY <3>1 DEF Manifest
  <2>3. imp[p].adapter = TRUE
    BY <1>1, <1>4 DEF Manifest
  <2> QED BY <2>1, <2>2, <2>3
<1>7. \A j \in Impls \ {i} : saved'.store[j] = saved.store[j]
  <2>1. \A j \in Impls \ {i} : Settled(j)
    BY <1>1, <1>2 DEF Settled, MyImpl
  <2> QED BY <1>3, <2>1 DEF RInv, SinceTheLock
<1>8. saved'.log = Append(saved.log, i)
  BY <1>1, <1>2, <1>3 DEF RInv, SinceTheLock, Critical
<1> QED BY <1>5, <1>6, <1>7, <1>8 DEF Atomic!Next, Atomic!Commit

\* As long as the lock is free, no file changes; and who holds it gives it back
\* only with the files of its promotion in place.
LEMMA FreeIsStill ==
  ASSUME EvidenceIsWhole, TypeOK, FInv, TInv, [Next]_vars, lock' = None
  PROVE  \/ lock = None /\ UNCHANGED disk
         \/ \E p \in Promoters : Unlock(p)
<1> USE DEF At
<1>1. CASE UNCHANGED vars
  BY <1>1 DEF vars
<1>2. ASSUME NEW p \in Promoters, Step(p), ~Unlock(p)
      PROVE  lock = None /\ UNCHANGED disk
  <2>1. pc[p] \in Critical => lock = p /\ pc[p] # "rollback" /\ lock # None
    BY NoneNotPromoter DEF FInv, LockHeld, TInv, CInv, CommitSoFar
  <2>2. ~AcquireLock(p) \/ Fail(p)
    BY NoneNotPromoter DEF AcquireLock
  <2>3. pc[p] \notin Critical
    BY <1>2, <2>1 DEF Step, Call, Find, TakeReports, CollectLive, CollectFails, Mint,
       AcquireLock, TruncateArtifact, WriteArtifact, StageManifest, BackupManifest,
       InstallManifest, DropBackup, WriteProvenance, AppendLog, Rollback, Unlock, DryRun,
       Verify, AuditList, AuditCheck, Critical
  <2> QED
    BY <1>2, <2>2, <2>3 DEF Step, Call, Find, TakeReports, CollectLive, CollectFails, Mint,
       AcquireLock, TruncateArtifact, WriteArtifact, StageManifest, BackupManifest,
       InstallManifest, DropBackup, WriteProvenance, AppendLog, Rollback, Unlock, DryRun,
       Verify, AuditList, AuditCheck, Fail, Critical
<1>3. ASSUME NEW p \in Promoters, Crash(p)
      PROVE  lock = None /\ UNCHANGED disk
  <2>1. lock' = lock /\ pc[p] \notin {"write_prov", "append_log"}
    BY <1>3, NoneNotPromoter DEF Crash, FInv, LockHeld, Critical
  <2> QED BY <1>3, <2>1 DEF Crash
<1>4. ASSUME NEW p \in Promoters
      PROVE  ~IoError(p)
  BY DEF IoError, EvidenceIsWhole, NoIoErrors
<1>5. ASSUME NEW i \in Impls, EditSource(i)
      PROVE  lock = None /\ UNCHANGED disk
  BY <1>5 DEF EditSource
<1> QED BY <1>1, <1>2, <1>3, <1>4, <1>5 DEF Next

\* THEOREM: with whole evidence and without I/O errors, promotions are
\* transactions, whatever reads, fails, edits and deaths come between their steps.
THEOREM PromotionsImplementAtomic ==
  ASSUME EvidenceIsWhole
  PROVE  HSpec => PromotionsAreAtomic
<1>1. HInit => Atomic!Init
  <2> SUFFICES ASSUME HInit PROVE Atomic!Init
    OBVIOUS
  <2>1. Init /\ saved = Files
    BY DEF HInit
  <2>2. \A i \in Impls : /\ Entry(i) = InitEntry(manifest[i], source[i])
                        /\ manifest[i] \in InitManifests /\ source[i] \in SourceFiles
    BY <2>1 DEF Init, Entry, InitEntry, SourceFiles
  <2>3. saved.store = [i \in Impls |-> Entry(i)] /\ saved.log = <<>>
    BY <2>1 DEF Files, Init
  <2> QED BY <2>2, <2>3 DEF Atomic!Init
<1>2. TypeOK /\ FInv /\ TInv /\ RInv /\ [HNext]_hvars
        => [Atomic!Next]_<<saved.store, saved.log>>
  <2> SUFFICES ASSUME TypeOK, FInv, TInv, RInv, [HNext]_hvars
               PROVE  Atomic!Next \/ saved' = saved
    OBVIOUS
  <2>1. Follows /\ [Next]_vars
    BY HistoryFollows
  <2>2. CASE lock' # None
    BY <2>1, <2>2 DEF Follows
  <2>3. CASE lock = None /\ UNCHANGED disk /\ lock' = None
    <3>1. Files' = Files
      BY <2>3 DEF Files, Entry, disk
    <3> QED BY <2>1, <2>3, <3>1 DEF Follows, RInv, SinceTheLock
  <2>4. CASE \E p \in Promoters : Unlock(p)
    BY <2>1, <2>4, UnlockCommits
  <2> QED BY <2>1, <2>2, <2>3, <2>4, FreeIsStill
<1>3. Spec => [](TypeOK /\ FInv /\ TInv)
  BY TypeCorrect, FInvAlways, TInvAlways, PTL
<1>4. TypeOK /\ FInv /\ TInv /\ RInv /\ [HNext]_hvars => RInv'
  BY RInvNext
<1> QED
  BY <1>1, <1>2, <1>3, <1>4, RInvInit, HistoryImplements, PTL
  DEF HSpec, PromotionsAreAtomic, Atomic!Spec, Atomic!vars
----------------------------------------------------------------------------
(* What a promotion replaces *)

\* From reading the manifest up to moving it away.
Reading == {"collect", "mint", "lock", "trunc_art", "write_art", "stage", "backup"}
BaseInv == \A p \in Promoters : pc[p] \in Reading => manifest[MyImpl(p)] = base[p]

LEMMA BaseNext == TypeOK /\ TypeOK' /\ Apart /\ BaseInv /\ [HNext]_hvars => BaseInv'
<1> SUFFICES ASSUME TypeOK, TypeOK', Apart, BaseInv, [HNext]_hvars PROVE BaseInv'
  OBVIOUS
<1> USE DEF At
<1>1. CASE UNCHANGED hvars
  BY <1>1 DEF hvars, vars, disk, mem, BaseInv, MyImpl
<1>2. ASSUME Record, NEW q \in Promoters, pc'[q] \in Reading
      PROVE  /\ pc[q] = "find" /\ pc'[q] = "collect" => base'[q] = imp'[q]
             /\ pc[q] # "find" => base'[q] = base[q]
  BY <1>2 DEF Record, Reading, Ended
<1>3. ASSUME Record, NEW p \in Promoters, Step(p) \/ IoError(p) \/ Crash(p)
      PROVE  BaseInv'
  <2>1. ASSUME NEW q \in Promoters \ {p}, pc'[q] \in Reading
        PROVE  manifest'[MyImpl(q)'] = base'[q]
    <3>1. pc'[q] = pc[q] /\ MyImpl(q)' = MyImpl(q)
      BY <1>3, OthersKeep DEF MyImpl
    <3>2. base'[q] = base[q]
      BY <1>2, <1>3, <2>1, <3>1 DEF Reading
    <3>3. MyImpl(q) \in Impls /\ pc[q] \in Busy
      BY <2>1, <3>1, InProgress DEF Reading, Busy
    <3>4. pc[p] \in Busy => MyImpl(q) # MyImpl(p)
      BY <3>3 DEF Apart
    <3>5. manifest'[MyImpl(q)] = manifest[MyImpl(q)]
      BY <1>3, <3>3, <3>4, WritesOwnManifest
    <3> QED BY <2>1, <3>1, <3>2, <3>5 DEF BaseInv
  <2>2. ASSUME pc'[p] \in Reading
        PROVE  manifest'[MyImpl(p)'] = base'[p]
    <3>1. \A s : Goto(p, s) => pc'[p] = s
      BY DEF Goto, TypeOK, MemoryTypeOK
    <3>2. CASE Find(p)
      <4>1. /\ pc[p] = "find" /\ pc'[p] = "collect" /\ UNCHANGED <<manifest, req>>
            /\ imp'[p] = manifest[MyImpl(p)]
        BY <2>2, <3>1, <3>2
        DEF Find, Fail, Return, Reading, disk, TypeOK, MemoryTypeOK
      <4> QED BY <1>2, <1>3, <2>2, <4>1 DEF MyImpl
    <3>3. CASE ~Find(p)
      <4>1. pc[p] \in Reading /\ UNCHANGED <<manifest, req>>
        <5>1. ~Fail(p) /\ ~Crash(p) /\ ~IoError(p) /\ ~Rollback(p) /\ ~AuditCheck(p)
          BY <2>2, <3>1 DEF Fail, Crash, IoError, Rollback, AuditCheck, Return, Reading
        <5>2. \/ TakeReports(p) \/ CollectLive(p) \/ Mint(p) \/ AcquireLock(p)
              \/ TruncateArtifact(p) \/ WriteArtifact(p) \/ StageManifest(p)
          BY <1>3, <2>2, <3>1, <3>3, <5>1 DEF Step, Call, CollectFails, BackupManifest,
             InstallManifest, DropBackup, WriteProvenance, AppendLog, Unlock, DryRun,
             Verify, AuditList, Reading
        <5> QED BY <5>1, <5>2 DEF TakeReports, CollectLive, Mint, AcquireLock,
                TruncateArtifact, WriteArtifact, StageManifest, Reading, disk, mem
      <4>2. base'[p] = base[p] /\ MyImpl(p)' = MyImpl(p)
        BY <1>2, <1>3, <2>2, <4>1 DEF MyImpl, Reading
      <4> QED BY <4>1, <4>2 DEF BaseInv
    <3> QED BY <3>2, <3>3
  <2> QED BY <2>1, <2>2 DEF BaseInv
<1>4. ASSUME Record, NEW i \in Impls, EditSource(i)
      PROVE  BaseInv'
  <2>1. UNCHANGED <<manifest, pc, req>>
    BY <1>4 DEF EditSource, disk, mem
  <2>2. \A q \in Promoters : pc[q] \in Reading => base'[q] = base[q]
    BY <1>2, <1>4, <2>1 DEF Reading
  <2> QED BY <2>1, <2>2 DEF BaseInv, MyImpl
<1> QED BY <1>1, <1>3, <1>4 DEF HNext, Next

\* THEOREM: an update is lost only to another promotion of the same
\* implementation.  As long as calls that are under way are about different ones,
\* a promotion replaces the very manifest it read, checked and built the new one
\* from, although it read it long before it took the lock.
\* ReplacesWhatItRead is what its run refutes without the proviso.
THEOREM ReplacesUnlessShared == HSpec /\ []Apart => ReplacesWhatItRead
<1>1. HInit => BaseInv
  BY DEF HInit, Init, BaseInv, Reading
<1>2. BaseInv => \A p \in Promoters :
        At(p, "backup") /\ pc'[p] = "install" => manifest[MyImpl(p)] = base[p]
  BY DEF BaseInv, Reading, At
<1> QED
  BY <1>1, <1>2, BaseNext, TypeCorrect, HistoryImplements, PTL
  DEF HSpec, ReplacesWhatItRead

----------------------------------------------------------------------------
(* What a promotion that fails or dies leaves behind *)

\* Before the manifest is moved away.
Untouched == {"trunc_art", "write_art", "stage", "backup"}

\* The manifest that was there when the lock was taken, if any, is in its place
\* or in the copy until the new one is installed; and the log has grown by the
\* line of the promotion, or by a part of it.
OldManifest(p) == saved.store[MyImpl(p)].manifest
WorkOf(p) ==
  /\ pc[p] \in Untouched => manifest[MyImpl(p)] = OldManifest(p)
  /\ pc[p] = "install" /\ OldManifest(p) # None => bak[MyImpl(p)] = OldManifest(p)
  /\ pc[p] = "rollback" /\ OldManifest(p) # None =>
       \/ OldManifest(p) \in {manifest[MyImpl(p)], bak[MyImpl(p)]}
       \/ manifest[MyImpl(p)] = imp[p]
  /\ \/ log = IF pc[p] = "unlock" THEN Append(saved.log, MyImpl(p)) ELSE saved.log
     \/ pc[p] = "rollback" /\ log = Append(saved.log, Torn)

\* The lock belongs to a promotion under way or to a dead one, and nothing has
\* changed since it was taken but what is its owner's.
WorkInv ==
  /\ lock = None => saved = Files
  /\ lock # None => pc[lock] \in Critical \cup {"crashed"}
  /\ \A i \in Impls : Settled(i) => Entry(i) = saved.store[i]
  /\ \A p \in Promoters : pc[p] \in Critical => WorkOf(p)

LEMMA WorkInit == HInit => WorkInv
  BY DEF HInit, Init, WorkInv, Files, Critical

\* A step of a promoter that writes no file and is not in its critical section.
LEMMA QuietWork ==
  ASSUME TypeOK, WorkInv, Follows, NEW p \in Promoters, pc[p] \notin Critical,
         Step(p), UNCHANGED <<disk, lock>>, pc'[p] \notin Critical, pc[p] # "crashed"
  PROVE  WorkInv'
<1>1. \A q \in Promoters \ {p} : pc'[q] = pc[q] /\ req'[q] = req[q] /\ imp'[q] = imp[q]
  BY OthersKeep
<1>2. lock # p
  BY NoneNotPromoter DEF WorkInv
<1>3. lock # None => lock \in Promoters \ {p}
  BY <1>2 DEF TypeOK, FilesTypeOK
<1>4. \A i \in Impls : Entry(i)' = Entry(i) /\ (Settled(i)' <=> Settled(i))
  BY <1>1, <1>3 DEF Entry, Settled, disk
<1>5. Files' = Files
  BY <1>4 DEF Files, disk
<1>6. saved' = saved
  BY <1>5 DEF Follows, WorkInv
<1>7. ASSUME NEW q \in Promoters, pc'[q] \in Critical PROVE WorkOf(q)'
  <2>1. q # p /\ pc'[q] = pc[q] /\ MyImpl(q)' = MyImpl(q) /\ imp'[q] = imp[q]
    BY <1>1, <1>7 DEF MyImpl
  <2>2. WorkOf(q)
    BY <1>7, <2>1 DEF WorkInv
  <2> QED BY <1>6, <2>1, <2>2 DEF WorkOf, OldManifest, disk
<1> QED BY <1>1, <1>3, <1>4, <1>5, <1>6, <1>7 DEF WorkInv

\* A step that stays in the critical section writes files of its own only.
LEMMA CriticalWork ==
  ASSUME TypeOK, FInv, WorkInv, Follows, NEW p \in Promoters, pc[p] \in Critical,
         NEW t \in Critical, Goto(p, t), UNCHANGED <<lock, req, imp>>,
         \A i \in Impls \ {MyImpl(p)} : Entry(i)' = Entry(i),
         WorkOf(p) /\ saved' = saved => WorkOf(p)'
  PROVE  WorkInv'
<1>1. lock = p /\ lock # None
  BY NoneNotPromoter DEF FInv, LockHeld
<1>2. \A q \in Promoters : pc'[q] = IF q = p THEN t ELSE pc[q]
  BY DEF Goto, TypeOK, MemoryTypeOK
<1>3. saved' = saved
  BY <1>1 DEF Follows
<1>4. \A q \in Promoters : pc[q] \in Critical => q = p
  BY <1>1 DEF FInv, LockHeld
<1>5. \A i \in Impls : (Settled(i)' <=> Settled(i)) /\ (Settled(i) => i # MyImpl(p))
  BY <1>1 DEF Settled, MyImpl
<1>6. \A i \in Impls : Settled(i)' => Entry(i)' = saved'.store[i]
  BY <1>3, <1>5 DEF WorkInv
<1>7. ASSUME NEW q \in Promoters, pc'[q] \in Critical PROVE WorkOf(q)'
  <2>1. q = p
    BY <1>2, <1>4, <1>7
  <2> QED BY <1>3, <2>1 DEF WorkInv
<1> QED BY <1>1, <1>2, <1>6, <1>7 DEF WorkInv

LEMMA CommitWork ==
  ASSUME TypeOK, TypeOK', FInv, WorkInv, Follows, NEW p \in Promoters,
         \/ TruncateArtifact(p) \/ WriteArtifact(p) \/ StageManifest(p)
         \/ BackupManifest(p) \/ InstallManifest(p) \/ DropBackup(p)
         \/ WriteProvenance(p) \/ AppendLog(p) \/ IoError(p)
  PROVE  WorkInv'
<1> USE DEF At
<1>1. pc[p] \in Critical /\ UNCHANGED <<lock, req, imp>> /\ MyImpl(p)' = MyImpl(p)
  BY DEF TruncateArtifact, WriteArtifact, StageManifest, BackupManifest, InstallManifest,
     DropBackup, WriteProvenance, AppendLog, IoError, Critical, mem, MyImpl
<1>2. MyImpl(p) \in Impls /\ imp[p] \in Manifest
  BY <1>1, InProgress DEF Critical, Busy
<1>3. \A t : Goto(p, t) => pc'[p] = t
  BY DEF Goto, TypeOK, MemoryTypeOK
<1>4. PICK t \in Critical : Goto(p, t)
  <2>1. \E t \in {"write_art", "stage", "backup", "install", "drop_bak", "write_prov",
                  "append_log", "unlock", "rollback"} : Goto(p, t)
    BY DEF TruncateArtifact, WriteArtifact, StageManifest, BackupManifest, InstallManifest,
       DropBackup, WriteProvenance, AppendLog, IoError
  <2> QED BY <2>1 DEF Critical
<1>5. \A i \in Impls \ {MyImpl(p)} : Entry(i)' = Entry(i)
  BY <1>2 DEF TruncateArtifact, WriteArtifact, StageManifest, BackupManifest,
     InstallManifest, DropBackup, WriteProvenance, AppendLog, IoError, disk, Entry,
     TypeOK, FilesTypeOK
<1>6. ASSUME WorkOf(p), saved' = saved
      PROVE  WorkOf(p)'
  <2>1. OldManifest(p)' = OldManifest(p)
    BY <1>1, <1>6 DEF OldManifest
  <2>2. CASE TruncateArtifact(p) \/ WriteArtifact(p) \/ StageManifest(p)
    <3>1. /\ UNCHANGED <<manifest, bak, log>> /\ pc[p] \in Untouched
          /\ pc'[p] \in Untouched
      BY <1>3, <2>2 DEF TruncateArtifact, WriteArtifact, StageManifest, disk, Untouched
    <3> QED BY <1>1, <1>6, <2>1, <3>1 DEF WorkOf, Untouched
  <2>3. CASE BackupManifest(p)
    <3>1. /\ pc[p] = "backup" /\ pc'[p] = "install" /\ log' = log
          /\ manifest[MyImpl(p)] # None => bak'[MyImpl(p)] = manifest[MyImpl(p)]
      BY <1>2, <1>3, <2>3 DEF BackupManifest, TypeOK, FilesTypeOK
    <3>2. OldManifest(p) = manifest[MyImpl(p)]
      BY <1>6, <3>1 DEF WorkOf, Untouched
    <3> QED BY <1>1, <1>6, <2>1, <3>1, <3>2 DEF WorkOf, Untouched
  <2>4. CASE InstallManifest(p) \/ DropBackup(p) \/ WriteProvenance(p)
    <3>1. /\ log' = log /\ pc[p] \in {"install", "drop_bak", "write_prov"}
          /\ pc'[p] \in {"drop_bak", "write_prov", "append_log"}
      BY <1>3, <2>4 DEF InstallManifest, DropBackup, WriteProvenance
    <3> QED BY <1>1, <1>6, <2>1, <3>1 DEF WorkOf, Untouched
  <2>5. CASE AppendLog(p)
    <3>1. /\ pc[p] = "append_log" /\ UNCHANGED <<manifest, bak>>
          /\ \/ pc'[p] = "unlock" /\ log' = Append(log, MyImpl(p))
             \/ pc'[p] = "rollback" /\ log' = log
      BY <1>3, <2>5 DEF AppendLog
    <3>2. manifest[MyImpl(p)] = imp[p]
      BY <3>1 DEF FInv, InstalledIsMine, Installed
    <3> QED BY <1>1, <1>6, <2>1, <3>1, <3>2 DEF WorkOf, Untouched
  <2>6. CASE IoError(p)
    <3>1. pc'[p] = "rollback" /\ pc[p] \in Critical \ {"rollback", "unlock"}
      BY <1>3, <2>6 DEF IoError, Critical
    <3>2. log' = log \/ log' = Append(log, Torn)
      BY <2>6 DEF IoError, disk
    <3>3. \/ OldManifest(p) = None
          \/ OldManifest(p) \in {manifest'[MyImpl(p)], bak'[MyImpl(p)]}
          \/ manifest'[MyImpl(p)] = imp[p]
      <4>1. CASE pc[p] \in Untouched
        <5>1. manifest' = manifest
          BY <2>6, <4>1 DEF IoError, Untouched, disk
        <5> QED BY <1>6, <4>1, <5>1 DEF WorkOf
      <4>2. CASE pc[p] = "install"
        <5>1. bak[MyImpl(p)] = OldManifest(p) \/ OldManifest(p) = None
          BY <1>6, <4>2 DEF WorkOf
        <5>2. \/ UNCHANGED <<manifest, bak>>
              \/ manifest'[MyImpl(p)] = bak[MyImpl(p)]
          BY <1>2, <2>6, <4>2 DEF IoError, disk, TypeOK, FilesTypeOK
        <5> QED BY <5>1, <5>2
      <4>3. CASE pc[p] \in Installed
        <5>1. manifest' = manifest
          BY <2>6, <4>3 DEF IoError, Installed, disk
        <5>2. manifest[MyImpl(p)] = imp[p]
          BY <4>3 DEF FInv, InstalledIsMine
        <5> QED BY <5>1, <5>2
      <4> QED BY <3>1, <4>1, <4>2, <4>3 DEF Critical, Untouched, Installed
    <3>4. log = saved.log
      BY <1>6, <3>1 DEF WorkOf
    <3> QED BY <1>1, <1>6, <2>1, <3>1, <3>2, <3>3, <3>4 DEF WorkOf, Untouched
  <2> QED BY <2>2, <2>3, <2>4, <2>5, <2>6
<1> QED BY <1>1, <1>4, <1>5, <1>6, CriticalWork

\* The steps that take the lock and give it back.
LEMMA LockWork ==
  ASSUME TypeOK, FInv, WorkInv, Follows, NEW p \in Promoters,
         (AcquireLock(p) /\ ~Fail(p)) \/ Unlock(p) \/ Rollback(p)
  PROVE  WorkInv'
<1> USE DEF At
<1>1. \A t : Goto(p, t) => \A q \in Promoters : pc'[q] = IF q = p THEN t ELSE pc[q]
  BY DEF Goto, TypeOK, MemoryTypeOK
<1>2. UNCHANGED disk /\ \A i \in Impls : Entry(i)' = Entry(i)
  BY DEF AcquireLock, Unlock, Rollback, Entry, disk
<1>3. CASE AcquireLock(p) /\ ~Fail(p)
  <2>1. /\ lock = None /\ lock' = p /\ UNCHANGED <<disk, mem>>
        /\ \A q \in Promoters : pc'[q] = IF q = p THEN "trunc_art" ELSE pc[q]
    BY <1>1, <1>3 DEF AcquireLock
  <2>2. /\ saved' = saved /\ saved = Files
        /\ \A q \in Promoters : pc[q] \notin Critical
    BY <2>1, NoneNotPromoter DEF Follows, WorkInv, FInv, LockHeld
  <2>3. \A i \in Impls : Entry(i)' = saved'.store[i]
    BY <1>2, <2>2 DEF Files
  <2>4. WorkOf(p)'
    <3>1. MyImpl(p)' = MyImpl(p) /\ MyImpl(p) \in Impls
      BY <1>3, <2>1, InProgress DEF AcquireLock, MyImpl, mem, Busy
    <3>2. manifest[MyImpl(p)] = saved.store[MyImpl(p)].manifest /\ log = saved.log
      BY <2>2, <3>1 DEF Files, Entry
    <3> QED BY <2>1, <2>2, <3>1, <3>2 DEF WorkOf, OldManifest, disk, mem
  <2>5. \A q \in Promoters : pc'[q] \in Critical => q = p
    BY <2>1, <2>2
  <2> QED BY <2>1, <2>3, <2>4, <2>5, NoneNotPromoter DEF WorkInv, Critical
<1>4. CASE Unlock(p) \/ Rollback(p)
  <2>1. /\ lock' = None /\ pc[p] \in Critical
        /\ \E t \in {"verify", "failed"} :
             \A q \in Promoters : pc'[q] = IF q = p THEN t ELSE pc[q]
    BY <1>1, <1>4 DEF Unlock, Rollback, Return, Critical
  <2>2. saved' = Files' /\ \A i \in Impls : saved'.store[i] = Entry(i)'
    BY <2>1 DEF Follows, Files
  <2>3. \A q \in Promoters : pc'[q] \notin Critical
    BY <2>1 DEF FInv, LockHeld, Critical
  <2> QED BY <2>1, <2>2, <2>3 DEF WorkInv
<1> QED BY <1>3, <1>4

\* A process that dies cuts its own review record or line short, nothing else.
LEMMA CrashWork ==
  ASSUME TypeOK, FInv, WorkInv, Follows, NEW p \in Promoters, Crash(p)
  PROVE  WorkInv'
<1> USE DEF At
<1>1. /\ pc'[p] = "crashed" /\ req' = req
      /\ \A q \in Promoters \ {p} : pc'[q] = pc[q] /\ imp'[q] = imp[q]
      /\ UNCHANGED <<manifest, bak, artifact, lock>>
  BY DEF Crash, Return, Goto, disk, TypeOK, MemoryTypeOK
<1>2. MyImpl(p) \in Impls /\ pc[p] \in Busy
  BY InProgress DEF Crash
<1>3. pc[p] \in Critical => lock = p
  BY DEF FInv, LockHeld
<1>4. /\ \A i \in Impls : i # MyImpl(p) => provenance'[i] = provenance[i]
      /\ lock # p => provenance' = provenance /\ log' = log
  <2>1. At(p, "write_prov") \/ At(p, "append_log") => lock = p
    BY <1>3 DEF Critical
  <2> QED BY <1>2, <2>1 DEF Crash, disk, TypeOK, FilesTypeOK
<1>5. \A i \in Impls : Settled(i)' <=> Settled(i)
  BY <1>1 DEF Settled
<1>6. \A i \in Impls : Settled(i) /\ lock = p => i # MyImpl(p)
  BY NoneNotPromoter DEF Settled, MyImpl
<1>7. \A i \in Impls : Settled(i) => Entry(i)' = Entry(i)
  BY <1>1, <1>4, <1>6 DEF Entry
<1>8. saved' = saved
  <2>1. CASE lock = None
    <3>1. Files' = Files
      BY <1>1, <1>4, <2>1, NoneNotPromoter DEF Files, Entry
    <3> QED BY <1>1, <2>1, <3>1 DEF Follows, WorkInv
  <2> QED BY <1>1, <2>1 DEF Follows
<1>9. lock = None => saved' = Files'
  BY <1>1 DEF Follows
<1>10. ASSUME NEW q \in Promoters, pc'[q] \in Critical PROVE WorkOf(q)'
  <2>1. q # p /\ pc[q] \in Critical /\ pc'[q] = pc[q] /\ imp'[q] = imp[q]
    BY <1>1, <1>10 DEF Critical
  <2>2. log' = log
    BY <1>4, <2>1 DEF FInv, LockHeld
  <2>3. WorkOf(q)
    BY <2>1 DEF WorkInv
  <2> QED BY <1>1, <1>8, <2>1, <2>2, <2>3 DEF WorkOf, OldManifest, MyImpl
<1>11. lock # None => pc'[lock] \in Critical \cup {"crashed"}
  BY <1>1 DEF WorkInv, TypeOK, FilesTypeOK
<1> QED BY <1>1, <1>5, <1>7, <1>8, <1>9, <1>10, <1>11 DEF WorkInv

\* Edits of sources, and no step at all.
LEMMA StillWork ==
  ASSUME WorkInv, Follows, UNCHANGED <<disk, lock, pc, mem>>
  PROVE  WorkInv'
<1>1. \A i \in Impls : Entry(i)' = Entry(i) /\ Settled(i)' = Settled(i)
  BY DEF Entry, Settled, disk, mem
<1>2. Files' = Files
  BY <1>1 DEF Files, disk
<1>3. saved' = saved
  BY <1>2 DEF Follows, WorkInv
<1>4. \A p \in Promoters : WorkOf(p) => WorkOf(p)'
  BY <1>3 DEF WorkOf, OldManifest, MyImpl, disk, mem
<1> QED BY <1>1, <1>2, <1>3, <1>4 DEF WorkInv

LEMMA WorkNext == TypeOK /\ TypeOK' /\ FInv /\ WorkInv /\ [HNext]_hvars => WorkInv'
<1> SUFFICES ASSUME TypeOK, TypeOK', FInv, WorkInv, [HNext]_hvars PROVE WorkInv'
  OBVIOUS
<1> USE DEF At
<1>1. CASE UNCHANGED hvars
  <2>1. UNCHANGED <<disk, lock, pc, mem, saved>>
    BY <1>1 DEF hvars, vars
  <2>2. Files' = Files
    BY <2>1 DEF Files, Entry, disk
  <2>3. Follows
    BY <2>1, <2>2 DEF Follows, WorkInv
  <2> QED BY <2>1, <2>3, StillWork
<1>2. CASE HNext
  <2>1. Follows
    BY <1>2 DEF HNext, Record, Follows
  <2>2. ASSUME NEW p \in Promoters, Step(p) PROVE WorkInv'
    <3>1. CASE TruncateArtifact(p) \/ WriteArtifact(p) \/ StageManifest(p)
               \/ BackupManifest(p) \/ InstallManifest(p) \/ DropBackup(p)
               \/ WriteProvenance(p) \/ AppendLog(p)
      BY <2>1, <3>1, CommitWork
    <3>2. CASE (AcquireLock(p) /\ ~Fail(p)) \/ Unlock(p) \/ Rollback(p)
      BY <2>1, <3>2, LockWork
    <3>3. CASE \/ Call(p) \/ Find(p) \/ TakeReports(p) \/ CollectLive(p) \/ CollectFails(p)
               \/ Mint(p) \/ (AcquireLock(p) /\ Fail(p)) \/ DryRun(p) \/ Verify(p)
               \/ AuditList(p) \/ AuditCheck(p)
      <4>1. UNCHANGED <<disk, lock>>
        BY <3>3 DEF Call, Find, TakeReports, CollectLive, CollectFails, Mint, Fail, DryRun,
           Verify, AuditList, AuditCheck
      <4>2. pc[p] \notin Critical \cup {"crashed"}
        BY <3>3 DEF Call, Find, TakeReports, CollectLive, CollectFails, Mint, AcquireLock,
           DryRun, Verify, AuditList, AuditCheck, Critical
      <4>3. \A t : Goto(p, t) => pc'[p] = t
        BY DEF Goto, TypeOK, MemoryTypeOK
      <4>4. pc'[p] \notin Critical
        BY <3>3, <4>3 DEF Call, Find, TakeReports, CollectLive, CollectFails, Mint, Fail,
           Return, DryRun, Verify, AuditList, AuditCheck, Critical
      <4> QED BY <2>1, <2>2, <4>1, <4>2, <4>4, QuietWork
    <3>4. AcquireLock(p) => (AcquireLock(p) /\ Fail(p)) \/ (AcquireLock(p) /\ ~Fail(p))
      OBVIOUS
    <3>5. \/ \/ TruncateArtifact(p) \/ WriteArtifact(p) \/ StageManifest(p)
             \/ BackupManifest(p) \/ InstallManifest(p) \/ DropBackup(p)
             \/ WriteProvenance(p) \/ AppendLog(p)
          \/ AcquireLock(p) \/ Unlock(p) \/ Rollback(p)
          \/ Call(p) \/ Find(p) \/ TakeReports(p) \/ CollectLive(p) \/ CollectFails(p)
          \/ Mint(p) \/ DryRun(p) \/ Verify(p) \/ AuditList(p) \/ AuditCheck(p)
      BY <2>2, Zenon DEF Step
    <3> QED BY <3>1, <3>2, <3>3, <3>4, <3>5
  <2>3. ASSUME NEW p \in Promoters, IoError(p) PROVE WorkInv'
    BY <2>1, <2>3, CommitWork
  <2>4. ASSUME NEW p \in Promoters, Crash(p) PROVE WorkInv'
    BY <2>1, <2>4, CrashWork
  <2>5. ASSUME NEW i \in Impls, EditSource(i) PROVE WorkInv'
    BY <2>1, <2>5, StillWork DEF EditSource
  <2> QED BY <1>2, <2>2, <2>3, <2>4, <2>5 DEF HNext, Next
<1> QED BY <1>1, <1>2

LEMMA WorkAlways == HSpec => [](TypeOK /\ WorkInv)
  BY WorkInit, WorkNext, TypeCorrect, FInvAlways, HistoryImplements, PTL DEF HSpec

\* What a promotion fails or dies in the middle of stays in the files of its own
\* implementation: all others are as they were when the lock was last free.
FailureIsConfined == \A i \in Impls : Settled(i) => Entry(i) = saved.store[i]

\* THEOREM: whatever fails and whoever dies, between the taking of the lock and its
\* release, if it is ever released, the files of no other implementation change.
THEOREM OthersAreSafe == HSpec => []FailureIsConfined
<1>1. WorkInv => FailureIsConfined
  BY DEF WorkInv, FailureIsConfined
<1> QED BY <1>1, WorkAlways, PTL

\* What is left of RollbackRestores, which its run refutes: promote's rollback
\* restores nothing, but the manifest the promotion found is not lost before the
\* new one is in place, and at most half a line is added to the log.
RollbackLeaves ==
  [][\A p \in Promoters : At(p, "rollback") /\ pc'[p] = "failed" =>
       LET i == MyImpl(p)
       IN /\ \A j \in Impls \ {i} : Entry(j)' = saved.store[j]
          /\ \/ OldManifest(p) \in {None, manifest'[i], bak'[i]}
             \/ manifest'[i] = imp[p]
          /\ log' \in {saved.log, Append(saved.log, Torn)}]_hvars

\* THEOREM: that much of its promise the rollback of promote keeps, whatever step of
\* the commit failed and whatever other promotions do or die of.
THEOREM RollbackLosesNoManifest == HSpec => RollbackLeaves
<1>1. ASSUME TypeOK, FInv, WorkInv, [HNext]_hvars, NEW p \in Promoters,
             At(p, "rollback"), pc'[p] = "failed"
      PROVE  /\ UNCHANGED disk
             /\ \A j \in Impls \ {MyImpl(p)} : Entry(j)' = saved.store[j]
             /\ WorkOf(p)
  <2>1. UNCHANGED disk
    <3>1. HNext
      BY <1>1 DEF hvars, vars, At
    <3>2. ASSUME NEW q \in Promoters, Step(q) \/ IoError(q) \/ Crash(q) PROVE q = p
      BY <1>1, <3>2, OthersKeep DEF At
    <3>3. ~Crash(p)
      BY <1>1 DEF Crash, Return, Goto, TypeOK, MemoryTypeOK
    <3>4. ~IoError(p)
      BY <1>1 DEF IoError, At
    <3>5. Step(p) => Rollback(p)
      BY <1>1 DEF Step, Call, Find, TakeReports, CollectLive, CollectFails, Mint,
         AcquireLock, TruncateArtifact, WriteArtifact, StageManifest, BackupManifest,
         InstallManifest, DropBackup, WriteProvenance, AppendLog, Unlock, DryRun, Verify,
         AuditList, AuditCheck, At
    <3> QED BY <3>1, <3>2, <3>3, <3>4, <3>5 DEF HNext, Next, Rollback, EditSource
  <2>2. lock = p /\ WorkOf(p)
    BY <1>1 DEF FInv, LockHeld, WorkInv, At, Critical
  <2>3. \A j \in Impls \ {MyImpl(p)} : Settled(j) /\ Entry(j)' = Entry(j)
    BY <2>1, <2>2 DEF Settled, MyImpl, Entry, disk
  <2> QED BY <1>1, <2>1, <2>2, <2>3 DEF WorkInv
<1>2. TypeOK /\ FInv /\ WorkInv /\ [HNext]_hvars =>
        \A p \in Promoters : At(p, "rollback") /\ pc'[p] = "failed" =>
          LET i == MyImpl(p)
          IN /\ \A j \in Impls \ {i} : Entry(j)' = saved.store[j]
             /\ \/ OldManifest(p) \in {None, manifest'[i], bak'[i]}
                \/ manifest'[i] = imp[p]
             /\ log' \in {saved.log, Append(saved.log, Torn)}
  BY <1>1 DEF WorkOf, At, disk
<1> QED
  BY <1>2, WorkAlways, TypeCorrect, FInvAlways, HistoryImplements, PTL
  DEF HSpec, RollbackLeaves

\* What a promotion that dies under the lock means for the others: the lock file is
\* deleted by PromoteLock's Drop only, which does not run, and no promotion looks
\* whether its owner lives.
DeadOwnerStopsAll ==
  [][\A p \in Promoters : pc[p] = "crashed" /\ lock = p => UNCHANGED <<disk, lock>>]_vars

\* THEOREM: after a death under the lock no promotion writes or takes the lock again;
\* the registry stays as the dead one left it.
THEOREM DeathIsForEver == Spec => DeadOwnerStopsAll
<1>1. ASSUME TypeOK, FInv, [Next]_vars, NEW p \in Promoters, pc[p] = "crashed", lock = p
      PROVE  UNCHANGED <<disk, lock>>
  <2> USE DEF At
  <2>1. lock # None /\ \A q \in Promoters : pc[q] \notin Critical
    BY <1>1, NoneNotPromoter DEF FInv, LockHeld, Critical
  <2>2. ASSUME NEW q \in Promoters, Step(q) PROVE UNCHANGED <<disk, lock>>
    BY <2>1, <2>2 DEF Step, Call, Find, TakeReports, CollectLive, CollectFails, Mint,
       AcquireLock, TruncateArtifact, WriteArtifact, StageManifest, BackupManifest,
       InstallManifest, DropBackup, WriteProvenance, AppendLog, Rollback, Unlock, DryRun,
       Verify, AuditList, AuditCheck, Fail, Critical
  <2>3. ASSUME NEW q \in Promoters PROVE ~IoError(q)
    BY <2>1 DEF IoError, Critical
  <2>4. ASSUME NEW q \in Promoters, Crash(q) PROVE UNCHANGED <<disk, lock>>
    BY <2>1, <2>4 DEF Crash, Critical
  <2> QED BY <1>1, <2>2, <2>3, <2>4 DEF Next, EditSource, vars
<1>2. TypeOK /\ FInv /\ [Next]_vars =>
        \A p \in Promoters : pc[p] = "crashed" /\ lock = p => UNCHANGED <<disk, lock>>
  BY <1>1
<1> QED BY <1>2, TypeCorrect, FInvAlways, PTL DEF Spec, DeadOwnerStopsAll
============================================================================
