------------------------ MODULE ExportDirectoryProofs ------------------------
(***************************************************************************)
(* For any number of exports into one directory, stopped wherever they are *)
(* and started whenever: files of two exports are mixed only by overlap,   *)
(* a closed directory stays as it is, and a directory is closed to later   *)
(* exports only because one of them stopped.                               *)
(***************************************************************************)
EXTENDS ExportDirectory, TLAPS

ExportTypeOK ==
  /\ dir \in [Files -> Exports \cup {"user", Absent}]
  /\ there \in BOOLEAN
  /\ at \in [Exports -> Steps \cup Ends]
  /\ overlap \in BOOLEAN

\* THEOREM: the directory, the place of each export and the history variable
\* keep their types.
THEOREM ExportTypeCorrect == ExportSpec => []ExportTypeOK
<1>1. ExportInit => ExportTypeOK
  BY DEF ExportInit, ExportTypeOK, Files, Generated, Steps, Ends, Present
<1>2. ExportTypeOK /\ [ExportNext]_exportVars => ExportTypeOK'
  <2> SUFFICES ASSUME ExportTypeOK, [ExportNext]_exportVars PROVE ExportTypeOK'
    OBVIOUS
  <2> USE DEF ExportTypeOK, Steps, Ends, GoTo, Change, directory, exportVars
  <2>1. ASSUME NEW e \in Exports, ExportStep(e) PROVE ExportTypeOK'
    <3>1. CASE Check(e) BY <3>1 DEF Check
    <3>2. CASE Clear(e) BY <3>2 DEF Clear
    <3>3. CASE Create(e) BY <3>3 DEF Create
    <3>4. ASSUME NEW file, NEW next \in {"lock", "sources", "sidecar", "cargo"},
                 Write(e, file, next)
          PROVE ExportTypeOK'
      BY <3>4 DEF Write
    <3>5. CASE Cargo(e) BY <3>5 DEF Cargo
    <3>6. CASE Run(e) BY <3>6 DEF Run
    <3>7. CASE Cleanup(e) BY <3>7 DEF Cleanup
    <3>8. CASE Stop(e) BY <3>8 DEF Stop
    <3> QED BY <2>1, <3>1, <3>2, <3>3, <3>4, <3>5, <3>6, <3>7, <3>8 DEF ExportStep
  <2>2. CASE UserWrites BY <2>2 DEF UserWrites
  <2>3. CASE UNCHANGED exportVars BY <2>3
  <2> QED BY <2>1, <2>2, <2>3 DEF ExportNext
<1> QED BY <1>1, <1>2, PTL DEF ExportSpec

-----------------------------------------------------------------------------
(* Files of one export *)

\* The steps of an export that has the directory for itself.
Writing == {"manifest", "lock", "sources", "sidecar", "cargo", "run", "cleanup"}

\* While nothing has overlapped: who is about to write has an empty directory,
\* who writes finds only what it has written, and the files are all of one.
OwnerInv ==
  overlap \/
    /\ \A e \in Exports : at[e] = "create" => \A f \in Generated : dir[f] = Absent
    /\ \A e \in Exports : at[e] \in Writing => \A f \in Generated : dir[f] \in {e, Absent}
    /\ \A f, g \in Generated : dir[f] = dir[g] \/ Absent \in {dir[f], dir[g]}

\* A change by an export while another one is busy is an overlap, so that the
\* others, if any, are not busy.
LEMMA OthersAreIdle ==
  ASSUME NEW e \in Exports, Change(e), ~overlap'
  PROVE  /\ ~overlap
         /\ \A other \in Exports \ {e} : at[other] \notin Writing \cup {"clear", "create"}
BY DEF Change, Busy, Writing, Ends

\* What the changing export makes of its files decides, when it works alone.
LEMMA AloneKeepsOwner ==
  ASSUME ExportTypeOK, OwnerInv, NEW e \in Exports, NEW step \in Writing \cup {"done"},
         Change(e), at' = [at EXCEPT ![e] = step],
         at[e] \in Writing \cup {"create"},
         \A f \in Generated : dir'[f] \in {dir[f], e, Absent}
  PROVE  OwnerInv'
<1> SUFFICES ASSUME ~overlap' PROVE OwnerInv'
  BY DEF OwnerInv
<1>1. ~overlap /\ \A other \in Exports \ {e} : at[other] \notin Writing \cup {"create"}
  BY OthersAreIdle
<1>2. \A f \in Generated : dir'[f] \in {e, Absent}
  BY <1>1 DEF OwnerInv
<1>3. \A other \in Exports : at'[other] \in Writing \cup {"create"} => other = e /\ at'[e] = step
  BY <1>1 DEF ExportTypeOK
<1>4. step # "create"
  BY DEF Writing
<1> QED BY <1>2, <1>3, <1>4 DEF OwnerInv

LEMMA OwnerStep == ExportTypeOK /\ OwnerInv /\ [ExportNext]_exportVars => OwnerInv'
<1> SUFFICES ASSUME ExportTypeOK, OwnerInv, [ExportNext]_exportVars PROVE OwnerInv'
  OBVIOUS
<1>1. ASSUME NEW e \in Exports, Check(e) PROVE OwnerInv'
  BY <1>1 DEF Check, GoTo, directory, OwnerInv, ExportTypeOK, Writing, Present, Files
<1>2. ASSUME NEW e \in Exports, Clear(e) PROVE OwnerInv'
  <2> SUFFICES ASSUME ~overlap' PROVE OwnerInv'
    BY DEF OwnerInv
  <2>1. ~overlap /\ \A other \in Exports \ {e} : at[other] \notin Writing \cup {"create"}
    BY <1>2, OthersAreIdle DEF Clear
  <2>2. CASE (\E f \in Present : dir' = [dir EXCEPT ![f] = Absent]) /\ UNCHANGED <<there, at>>
    <3>1. \A f \in Generated : dir'[f] \in {dir[f], Absent}
      BY <2>2 DEF ExportTypeOK, Present, Files
    <3>2. at' = at /\ (\A other \in Exports : at[other] \notin Writing \cup {"create"})
      BY <1>2, <2>1, <2>2 DEF Clear, Writing
    <3>3. \A f, g \in Generated : dir[f] = dir[g] \/ Absent \in {dir[f], dir[g]}
      BY <2>1 DEF OwnerInv
    <3> QED BY <3>1, <3>2, <3>3 DEF OwnerInv
  <2>3. CASE Present = {} /\ GoTo(e, "create") /\ UNCHANGED dir
    <3>1. \A f \in Generated : dir'[f] = Absent
      BY <2>3 DEF Present, Files
    <3>2. \A other \in Exports : at'[other] \notin Writing
      BY <2>1, <2>3, <1>2 DEF GoTo, ExportTypeOK, Writing, Clear
    <3> QED BY <3>1, <3>2 DEF OwnerInv
  <2> QED BY <1>2, <2>2, <2>3 DEF Clear
<1>3. ASSUME NEW e \in Exports, Create(e) PROVE OwnerInv'
  BY <1>3, AloneKeepsOwner DEF Create, GoTo, Writing
<1>4. ASSUME NEW e \in Exports, NEW file \in Writing, NEW next \in Writing, Write(e, file, next)
      PROVE OwnerInv'
  <2>1. \A f \in Generated : dir'[f] \in {dir[f], e, Absent}
    BY <1>4 DEF Write, ExportTypeOK, Files
  <2> QED BY <1>4, <2>1, AloneKeepsOwner DEF Write, GoTo
<1>5. ASSUME NEW e \in Exports, Cargo(e) PROVE OwnerInv'
  <2>1. PICK next \in {"done", "run"} : at' = [at EXCEPT ![e] = next]
    BY <1>5 DEF Cargo, GoTo
  <2>2. CASE Change(e) /\ dir' = [dir EXCEPT !["cargo"] = e]
    <3>1. \A f \in Generated : dir'[f] \in {dir[f], e, Absent}
      BY <2>2 DEF ExportTypeOK, Files
    <3> QED BY <1>5, <2>1, <2>2, <3>1, AloneKeepsOwner DEF Cargo, Writing
  <2>3. CASE UNCHANGED <<dir, overlap>>
    BY <1>5, <2>1, <2>3 DEF Cargo, OwnerInv, ExportTypeOK, Writing
  <2> QED BY <1>5, <2>2, <2>3 DEF Cargo
<1>6. ASSUME NEW e \in Exports, Run(e) PROVE OwnerInv'
  <2>1. \A f \in Generated : dir'[f] \in {dir[f], e, Absent}
    BY <1>6 DEF Run, ExportTypeOK, Files
  <2> QED BY <1>6, <2>1, AloneKeepsOwner DEF Run, GoTo, Writing
<1>7. ASSUME NEW e \in Exports, Cleanup(e) PROVE OwnerInv'
  <2>1. \A f \in Generated : dir'[f] \in {dir[f], e, Absent}
    BY <1>7 DEF Cleanup, ExportTypeOK, Files
  <2> QED BY <1>7, <2>1, AloneKeepsOwner DEF Cleanup, GoTo, Writing
<1>8. ASSUME NEW e \in Exports, Stop(e) PROVE OwnerInv'
  BY <1>8 DEF Stop, GoTo, directory, OwnerInv, ExportTypeOK, Writing
<1>9. CASE UserWrites
  BY <1>9 DEF UserWrites, OwnerInv, ExportTypeOK, Generated, Files
<1>10. CASE UNCHANGED exportVars
  BY <1>10 DEF exportVars, directory, OwnerInv
<1> QED
  BY <1>1, <1>2, <1>3, <1>4, <1>5, <1>6, <1>7, <1>8, <1>9, <1>10
     DEF ExportNext, ExportStep, Writing

\* THEOREM: the files of a directory are of one export unless two were at work
\* in it at once, wherever exports stopped.
THEOREM FilesOfOneExport == ExportSpec => []MixedOnlyByOverlap
<1>1. ExportInit => OwnerInv
  BY DEF ExportInit, OwnerInv, Files, Generated, Writing
<1>2. OwnerInv => MixedOnlyByOverlap
  BY DEF OwnerInv, MixedOnlyByOverlap, Present
<1> QED BY <1>1, <1>2, OwnerStep, ExportTypeCorrect, PTL DEF ExportSpec

-----------------------------------------------------------------------------
(* Closed directories *)

\* THEOREM: a directory that is closed stays so, with the generated files it
\* has, whoever tries to export into it.
THEOREM ClosedStaysClosed == ExportSpec => ClosedForGood
<1>1. ExportTypeOK /\ [ExportNext]_exportVars =>
        [Closed => Closed' /\ \A f \in Generated : dir'[f] = dir[f]]_exportVars
  <2> SUFFICES ASSUME ExportTypeOK, ExportNext, Closed
               PROVE  Closed' /\ \A f \in Generated : dir'[f] = dir[f]
    OBVIOUS
  <2>1. CASE UserWrites
    BY <2>1 DEF UserWrites, Closed, Present, Busy, Generated, Files, ExportTypeOK
  <2>2. ASSUME NEW e \in Exports, ExportStep(e)
        PROVE  Closed' /\ \A f \in Generated : dir'[f] = dir[f]
    <3>1. at[e] \in {"start"} \cup Ends
      BY DEF Closed, Busy
    <3>2. Check(e)
      BY <2>2, <3>1 DEF ExportStep, Clear, Create, Write, Cargo, Run, Cleanup, Stop, Busy, Ends
    <3>3. at' = [at EXCEPT ![e] = "refused"] /\ dir' = dir
      BY <3>2 DEF Check, Closed, GoTo, directory
    <3> QED BY <3>3 DEF Closed, Present, Busy, Ends, ExportTypeOK
  <2> QED BY <2>1, <2>2 DEF ExportNext
<1> QED BY <1>1, ExportTypeCorrect, PTL DEF ExportSpec, ClosedForGood

\* The steps of an export that has yet to write weavatrix.lock.
BeforeLock == {"clear", "create", "manifest", "lock"}

\* Unless an export has stopped: files without a weavatrix.lock, or an export
\* that has written it and finds it gone, mean that one is about to write it.
LockInv ==
  \/ \E e \in Exports : at[e] = "stopped"
  \/ dir["lock"] # Absent
  \/ \E e \in Exports : at[e] \in BeforeLock
  \/ /\ \A f \in Generated : dir[f] = Absent
     /\ \A e \in Exports : at[e] \notin Writing

LEMMA LockStep == ExportTypeOK /\ LockInv /\ [ExportNext]_exportVars => LockInv'
<1> SUFFICES ASSUME ExportTypeOK, LockInv, [ExportNext]_exportVars PROVE LockInv'
  OBVIOUS
<1> USE DEF GoTo, directory, ExportTypeOK, LockInv, BeforeLock, Writing
<1>1. ASSUME NEW e \in Exports, Check(e) PROVE LockInv'
  BY <1>1 DEF Check, Ends
<1>2. ASSUME NEW e \in Exports, Clear(e) PROVE LockInv'
  <2>1. at'[e] \in BeforeLock
    BY <1>2 DEF Clear
  <2> QED BY <2>1
<1>3. ASSUME NEW e \in Exports, Create(e) PROVE LockInv'
  <2>1. at'[e] \in BeforeLock
    BY <1>3 DEF Create
  <2> QED BY <2>1
<1>4. ASSUME NEW e \in Exports, Write(e, "manifest", "lock") PROVE LockInv'
  <2>1. at'[e] \in BeforeLock
    BY <1>4 DEF Write
  <2> QED BY <2>1
<1>5. ASSUME NEW e \in Exports, Write(e, "lock", "sources") PROVE LockInv'
  <2>1. dir'["lock"] = e /\ e # Absent
    BY <1>5, Absent \notin Exports \cup {"user"} DEF Write, Files, Generated
  <2> QED BY <2>1
<1>6. ASSUME NEW e \in Exports,
             \/ Write(e, "sources", "sidecar") \/ Write(e, "sidecar", "cargo")
             \/ Cargo(e) \/ Run(e) \/ Cleanup(e)
      PROVE LockInv'
  <2>1. /\ at[e] \in Writing \ BeforeLock
        /\ dir'["lock"] = dir["lock"]
        /\ \A other \in Exports : other # e => at'[other] = at[other]
    BY <1>6 DEF Write, Cargo, Run, Cleanup, Files, Generated
  <2> QED BY <2>1
<1>7. ASSUME NEW e \in Exports, Stop(e) PROVE LockInv'
  BY <1>7 DEF Stop
<1>8. CASE UserWrites
  BY <1>8 DEF UserWrites, Files, Generated
<1>9. CASE UNCHANGED exportVars
  BY <1>9 DEF exportVars
<1> QED
  BY <1>1, <1>2, <1>3, <1>4, <1>5, <1>6, <1>7, <1>8, <1>9 DEF ExportNext, ExportStep

\* THEOREM: generated files that no later export will touch were left by one
\* that stopped: exports that all come back, however they overlap, leave a
\* directory that can be exported into again.
THEOREM ClosedOnlyAfterStop == ExportSpec => []RefusedOnlyAfterStop
<1>1. ExportInit => LockInv
  BY DEF ExportInit, LockInv, Files, Generated, Writing
<1>2. LockInv => RefusedOnlyAfterStop
  BY DEF LockInv, RefusedOnlyAfterStop, Closed, Busy, BeforeLock, Ends, Present
<1> QED BY <1>1, <1>2, LockStep, ExportTypeCorrect, PTL DEF ExportSpec
=============================================================================
