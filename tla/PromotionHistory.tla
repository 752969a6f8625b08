-------------------------- MODULE PromotionHistory --------------------------
(***************************************************************************)
(* Promotion with two history variables, and what a promotion is as a      *)
(* transaction: the registry as it stands whenever nobody holds the lock   *)
(* changes only by whole promotions (AtomicPromotion).                     *)
(***************************************************************************)
EXTENDS Promotion

VARIABLES
  saved,    \* the files as they were when the lock was last free
  base      \* the manifest each promoter read at the start of its call

hvars == <<vars, saved, base>>

Entry(i) == [manifest |-> manifest[i], artifact |-> artifact[i],
             provenance |-> provenance[i]]
Files == [store |-> [i \in Impls |-> Entry(i)], log |-> log]

HInit ==
  /\ Init
  /\ saved = Files
  /\ base = [p \in Promoters |-> None]

\* The history variables follow a step of Promotion.
Record ==
  /\ saved' = IF lock' = None THEN Files' ELSE saved
  /\ base' = [p \in Promoters |->
       IF At(p, "find") /\ pc'[p] = "collect" THEN imp'[p]
       ELSE IF pc'[p] \in {"verify", "audit_list"} \cup Ended THEN None
       ELSE base[p]]

HNext == Next /\ Record
HSpec == HInit /\ [][HNext]_hvars
----------------------------------------------------------------------------
\* The entry of an implementation before any promotion.
InitEntry(m, hashed) ==
  [manifest |-> m,
   artifact |-> IF NeedsArtifact(m.status) THEN [axes |-> m.axes, digest |-> DigestsOf(hashed)] ELSE None,
   provenance |-> IF m.status = "admitted" THEN "reviewed" ELSE None]

Atomic == INSTANCE AtomicPromotion
            WITH Artifacts <- Artifact,
                 InitEntries <- {InitEntry(m, hashed) : m \in InitManifests, hashed \in SourceFiles},
                 store <- saved.store, log <- saved.log

(* Promotions are transactions: seen at the moments when no promotion      *)
(* holds the lock, each of them replaced all the files of its own          *)
(* implementation with files that justify each other and added its line to *)
(* the log.  A promotion that died stays in the lock for ever.             *)
PromotionsAreAtomic == Atomic!Spec

(* The rollback that promote runs when a step of its commit fails, and     *)
(* reports as "rolled back", leaves every file as it was when the          *)
(* promotion took the lock.                                                *)
RollbackRestores ==
  [][\A p \in Promoters : At(p, "rollback") /\ pc'[p] = "failed" => Files' = saved]_hvars

(* The manifest a promotion replaces is the one it read, checked and built *)
(* the new one from: the lock keeps other promotions out in between.       *)
ReplacesWhatItRead ==
  [][\A p \in Promoters :
       At(p, "backup") /\ pc'[p] = "install" => manifest[MyImpl(p)] = base[p]]_hvars
============================================================================
