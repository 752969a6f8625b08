--------------------------- MODULE ExportDirectory ---------------------------
(***************************************************************************)
(* write_compiled_workspace of wvx-compiler-rust: a compiled workspace is  *)
(* written over the directory given, if that is empty or an earlier export.*)
(* Two exports may be given the same directory, an export may fail or be   *)
(* killed at any step, and the user may put a file of their own there.     *)
(*                                                                         *)
(* Each file is written in one step, and stands for all of its kind.       *)
(***************************************************************************)
EXTENDS FiniteSets, Naturals

CONSTANTS
  Exports,   \* the calls, each with a workspace of its own
  Absent     \* no file

ASSUME Absent \notin Exports \cup {"user"}

\* Cargo.toml, weavatrix.lock, the sources and vendored crates, the digest and
\* resolution sidecars, what cargo leaves, the input of a run; and the user's.
Generated == {"manifest", "lock", "sources", "sidecar", "cargo", "input"}
Files == Generated \cup {"own"}

VARIABLES
  dir,      \* whose the files in the directory are
  there,    \* whether the directory exists
  at,       \* where each export is
  overlap   \* whether one export has changed the directory while another was at it

directory == <<dir, there>>
exportVars == <<dir, there, at, overlap>>

Steps == {"start", "clear", "create", "manifest", "lock", "sources", "sidecar",
          "cargo", "run", "cleanup"}
Ends == {"refused", "done", "stopped"}

\* Busy: past the check of the directory and not yet back.
Busy(e) == at[e] \notin {"start"} \cup Ends
Present == {f \in Files : dir[f] # Absent}

ExportInit ==
  /\ dir \in {[f \in Files |-> Absent], [f \in Files |-> IF f = "own" THEN "user" ELSE Absent]}
  /\ there = (Present # {})
  /\ at = [e \in Exports |-> "start"]
  /\ overlap = FALSE

GoTo(e, step) == at' = [at EXCEPT ![e] = step]

\* A step that changes the directory.
Change(e) == overlap' = (overlap \/ \E other \in Exports \ {e} : Busy(other))

\* Mutant: any directory that exists is replaced.
CheckIfThere(e) ==
  /\ at[e] = "start"
  /\ GoTo(e, IF there THEN "clear" ELSE "create")
  /\ UNCHANGED <<directory, overlap>>

\* An earlier export is cleared, a directory with anything else refused.
Check(e) ==
  /\ at[e] = "start"
  /\ GoTo(e, IF dir["lock"] # Absent THEN "clear"
             ELSE IF Present # {} THEN "refused" ELSE "create")
  /\ UNCHANGED <<directory, overlap>>

\* Mutant: only the marker of the earlier export is removed.
ClearMarker(e) ==
  /\ at[e] = "clear"
  /\ dir' = [dir EXCEPT !["lock"] = Absent]
  /\ GoTo(e, "create")
  /\ Change(e)
  /\ UNCHANGED there

\* remove_dir_all: file by file in the order the directory lists them, then
\* the directory itself.
Clear(e) ==
  /\ at[e] = "clear"
  /\ \/ /\ \E f \in Present : dir' = [dir EXCEPT ![f] = Absent]
        /\ UNCHANGED <<there, at>>
     \/ /\ Present = {} /\ there
        /\ there' = FALSE
        /\ GoTo(e, "create")
        /\ UNCHANGED dir
  /\ Change(e)

Create(e) ==
  /\ at[e] = "create"
  /\ there' = TRUE
  /\ GoTo(e, "manifest")
  /\ Change(e)
  /\ UNCHANGED dir

\* Mutant: a file that cannot be written is passed over.
WriteIfPossible(e, file, next) ==
  /\ at[e] = file
  /\ dir' \in {dir, [dir EXCEPT ![file] = e]}
  /\ GoTo(e, next)
  /\ Change(e)
  /\ UNCHANGED there

\* Every generated file creates its parent directory; the sidecars do not.
Write(e, file, next) ==
  /\ at[e] = file
  /\ file = "sidecar" => there
  /\ there' = TRUE
  /\ dir' = [dir EXCEPT ![file] = e]
  /\ GoTo(e, next)
  /\ Change(e)

\* cargo generate-lockfile and check, or build for wasm, or neither.
Cargo(e) ==
  /\ at[e] = "cargo"
  /\ \/ there /\ dir' = [dir EXCEPT !["cargo"] = e] /\ Change(e)
     \/ UNCHANGED <<dir, overlap>>
  /\ \E next \in {"done", "run"} : GoTo(e, next)
  /\ UNCHANGED there

\* cargo run or wasmtime on .wvx-input.bin, which is removed afterwards.
Run(e) ==
  /\ at[e] = "run" /\ there
  /\ dir' = [dir EXCEPT !["input"] = e]
  /\ GoTo(e, "cleanup")
  /\ Change(e)
  /\ UNCHANGED there

Cleanup(e) ==
  /\ at[e] = "cleanup"
  /\ dir' = [dir EXCEPT !["input"] = Absent]
  /\ GoTo(e, "done")
  /\ Change(e)
  /\ UNCHANGED there

\* An I/O error, a cargo that fails, or the end of the process.
Stop(e) ==
  /\ Busy(e)
  /\ GoTo(e, "stopped")
  /\ UNCHANGED <<directory, overlap>>

\* The user saves a file in the directory.
UserWrites ==
  /\ there
  /\ dir["own"] = Absent
  /\ dir' = [dir EXCEPT !["own"] = "user"]
  /\ UNCHANGED <<there, at, overlap>>

ExportStep(e) ==
  \/ Check(e) \/ Clear(e) \/ Create(e)
  \/ Write(e, "manifest", "lock") \/ Write(e, "lock", "sources")
  \/ Write(e, "sources", "sidecar") \/ Write(e, "sidecar", "cargo")
  \/ Cargo(e) \/ Run(e) \/ Cleanup(e) \/ Stop(e)

ExportNext == (\E e \in Exports : ExportStep(e)) \/ UserWrites

ExportSpec == ExportInit /\ [][ExportNext]_exportVars

-----------------------------------------------------------------------------
\* The files of a directory are of one export, so weavatrix.lock and the
\* digests describe the sources beside them, whatever stopped where; unless
\* two exports were at work in it at once, which nothing prevents.
MixedOnlyByOverlap ==
  (\E f, g \in Present \cap Generated : dir[f] # dir[g]) => overlap

\* No export is at work, and the directory holds something but no weavatrix.lock.
Closed == Present # {} /\ dir["lock"] = Absent /\ \A e \in Exports : ~Busy(e)

\* A directory that belongs to somebody else, or that an export cut short has
\* left, is never touched again: every later export is refused for good, and
\* only the user changes it.
ClosedForGood ==
  [][Closed => Closed' /\ \A f \in Generated : dir'[f] = dir[f]]_exportVars

\* Once the exports are back, a directory that holds generated files and that
\* every later export will refuse was left so by one that stopped on its way.
RefusedOnlyAfterStop ==
  Closed /\ Present \cap Generated # {} => \E e \in Exports : at[e] = "stopped"
=============================================================================
