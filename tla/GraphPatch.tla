----------------------------- MODULE GraphPatch -----------------------------
(***************************************************************************)
(* Structured edits of a project document (wvx-project-graph): one session *)
(* holds the document, and patches proposed for it, by a person, another   *)
(* tool or Cortex, are previewed, committed or applied softly.             *)
(*                                                                         *)
(* The functions are pure: a call gets the document and the patch, and the *)
(* session adopts the document it returns, which is how the server's       *)
(* clients and the command line are meant to use them.                     *)
(***************************************************************************)
EXTENDS ProjectGraph, SequencesExt

CONSTANTS
  Proposer,      \* who has a patch waiting for review
  Initial,       \* the documents a session starts with
  Patches,       \* the lists of operations that are proposed
  MaxRevision,   \* u64::MAX
  EditBound,     \* bound: no patch is previewed from this revision on
  None

ASSUME SessionAssumption ==
  /\ Initial \subseteq Project
  /\ MaxRevision \in Nat /\ EditBound \in Nat

VARIABLES
  doc,      \* the session's document and its revision
  waiting,  \* the patch every proposer has had previewed, or None
  last      \* the last call that returned a document, and what was reviewed

vars == <<doc, waiting, last>>

Document == [graph : Project, revision : 0 .. MaxRevision]

Operation ==
  [op : {"add_instance"}, id : Id, capability : Capability, setting : Setting,
   contract : Capability \cup {None}]
    \cup [op : {"remove_instance"}, id : Id]
    \cup [op : {"connect", "disconnect"}, from : PortPath, to : PortPath]
    \cup [op : {"set_setting"}, id : Id, setting : Setting]
    \cup [op : {"set_entrypoint"}, id : Id \cup {NoInstance}]
Patch == [ops : Seq(Operation), base : {None} \cup 0 .. MaxRevision, unresolved : BOOLEAN]

ASSUME PatchesAssumption ==
  /\ Patches \subseteq Seq(Operation)
  /\ None \notin Capability

-----------------------------------------------------------------------------
(* apply_one: the graph that results, or no graph if the operation fails *)

When(guard, p) == IF guard THEN {p} ELSE {}

AddInstance(p, op) ==
  LET known == IF op.contract = None THEN p.capabilities
               ELSE p.capabilities \cup {op.contract} IN
  When(/\ op.contract = None => op.capability \in p.capabilities
       /\ op.id \notin Instances(p),
       [p EXCEPT !.capabilities = known,
                 !.instances = [i \in Instances(p) \cup {op.id} |->
                   IF i = op.id
                     THEN [capability |-> op.capability, setting |-> op.setting]
                     ELSE p.instances[i]]])

\* Mutant: bindings that end at the instance are forgotten.
RemoveInstanceSources(p, op) ==
  When(op.id \in Instances(p),
       [p EXCEPT !.instances = [i \in Instances(p) \ {op.id} |-> p.instances[i]],
                 !.bindings = {b \in @ : b.from.instance # op.id},
                 !.entrypoint = IF @ = op.id THEN NoInstance ELSE @])

RemoveInstance(p, op) ==
  When(op.id \in Instances(p),
       [p EXCEPT !.instances = [i \in Instances(p) \ {op.id} |-> p.instances[i]],
                 !.bindings = {b \in @ : b.from.instance # op.id /\ b.to.instance # op.id},
                 !.entrypoint = IF @ = op.id THEN NoInstance ELSE @])

\* Neither the direction nor the type is looked at, nor is any port of an
\* instance whose contract the document does not carry.
HasPort(p, path) ==
  /\ path.instance \in Instances(p)
  /\ p.instances[path.instance].capability \in p.capabilities =>
       IsInput(p, path) \/ IsOutput(p, path)

Connect(p, op) ==
  When(/\ op.from # op.to
       /\ HasPort(p, op.from)
       /\ HasPort(p, op.to)
       /\ [from |-> op.from, to |-> op.to] \notin p.bindings,
       [p EXCEPT !.bindings = @ \cup {[from |-> op.from, to |-> op.to]}])

Disconnect(p, op) ==
  When([from |-> op.from, to |-> op.to] \in p.bindings,
       [p EXCEPT !.bindings = @ \ {[from |-> op.from, to |-> op.to]}])

\* SelectImplementation and SetConfig.
SetSetting(p, op) ==
  When(op.id \in Instances(p), [p EXCEPT !.instances[op.id].setting = op.setting])

SetEntrypoint(p, op) ==
  When(op.id \in Instances(p) \cup {NoInstance}, [p EXCEPT !.entrypoint = op.id])

ApplyOne(p, op) ==
  CASE op.op = "add_instance" -> AddInstance(p, op)
    [] op.op = "remove_instance" -> RemoveInstance(p, op)
    [] op.op = "connect" -> Connect(p, op)
    [] op.op = "disconnect" -> Disconnect(p, op)
    [] op.op = "set_setting" -> SetSetting(p, op)
    [] op.op = "set_entrypoint" -> SetEntrypoint(p, op)

\* The graph after each operation; the first one that fails fails the patch.
Results(p, ops) ==
  LET after[n \in 0 .. Len(ops)] ==
        IF n = 0 THEN {p} ELSE UNION {ApplyOne(q, ops[n]) : q \in after[n - 1]}
  IN after[Len(ops)]
Applies(p, ops) == Results(p, ops) # {}
ApplyOps(p, ops) == CHOOSE q \in Results(p, ops) : TRUE

-----------------------------------------------------------------------------
(* Calls *)

\* check_base_revision: a patch without a base fits every document.
Fits(patch) == patch.base \in {None, doc.revision}

\* Mutant: the revision goes on past the last u64.
BumpedPast(graph) == [graph |-> graph, revision |-> doc.revision + 1]

\* bump_revision saturates.
Bumped(graph) ==
  [graph |-> graph,
   revision |-> IF doc.revision = MaxRevision THEN MaxRevision ELSE doc.revision + 1]

Init ==
  /\ doc \in [graph : Initial, revision : {0}]
  /\ waiting = [q \in Proposer |-> None]
  /\ last = [call |-> "none", revision |-> 0, reviewed |-> doc.graph]

\* preview_patch: the proposer sees the graph that the patch would make, valid
\* or not. A patch that does not apply is not kept.
Preview(q) ==
  /\ doc.revision < EditBound
  /\ \E ops \in Patches, base \in {None, doc.revision}, unresolved \in BOOLEAN :
       /\ Applies(doc.graph, ops)
       /\ waiting' = [waiting EXCEPT ![q] =
            [patch |-> [ops |-> ops, base |-> base, unresolved |-> unresolved],
             reviewed |-> ApplyOps(doc.graph, ops)]]
  /\ UNCHANGED <<doc, last>>

\* What a call that returns a document makes of the session.
Adopt(q, call, graph) ==
  /\ doc' = Bumped(graph)
  /\ last' = [call |-> call, revision |-> doc.revision, reviewed |-> waiting[q].reviewed]
  /\ waiting' = [waiting EXCEPT ![q] = None]

\* Mutant: the base is looked at only to see that there is one.
CommitAnyBase(q) ==
  /\ waiting[q] # None
  /\ LET patch == waiting[q].patch IN
       /\ patch.ops # <<>> /\ patch.base # None
       /\ ~patch.unresolved
       /\ Applies(doc.graph, patch.ops)
       /\ Valid(ApplyOps(doc.graph, patch.ops))
       /\ Adopt(q, "commit", ApplyOps(doc.graph, patch.ops))

Commit(q) ==
  /\ waiting[q] # None
  /\ LET patch == waiting[q].patch IN
       /\ patch.ops # <<>>
       /\ patch.base # None
       /\ Fits(patch)
       /\ ~patch.unresolved
       /\ Applies(doc.graph, patch.ops)
       /\ Valid(ApplyOps(doc.graph, patch.ops))
       /\ Adopt(q, "commit", ApplyOps(doc.graph, patch.ops))

\* apply_graph_patch: the document may be left invalid, its revision counts.
SoftApply(q) ==
  /\ waiting[q] # None
  /\ LET patch == waiting[q].patch IN
       /\ Fits(patch)
       /\ Applies(doc.graph, patch.ops)
       /\ Adopt(q, "soft", ApplyOps(doc.graph, patch.ops))

\* A call that fails leaves the session as it is; the patch is dropped.
Reject(q) ==
  /\ waiting[q] # None
  /\ waiting' = [waiting EXCEPT ![q] = None]
  /\ UNCHANGED <<doc, last>>

Next == \E q \in Proposer : Preview(q) \/ Commit(q) \/ SoftApply(q) \/ Reject(q)

Spec == Init /\ [][Next]_vars

-----------------------------------------------------------------------------
(* Properties *)

TypeOK ==
  /\ doc \in Document
  /\ \A q \in Proposer : waiting[q] # None => /\ waiting[q].patch \in Patch
                                            /\ waiting[q].reviewed \in Project
  /\ last \in [call : {"none", "commit", "soft"}, revision : 0 .. MaxRevision,
              reviewed : Project]

\* No binding and no entrypoint refers to an instance that is gone, even in a
\* document that soft applies have made invalid.
Whole(p) ==
  /\ EntrypointExists(p)
  /\ \A b \in p.bindings : {b.from.instance, b.to.instance} \subseteq Instances(p)
NoDangling == Whole(doc.graph)

\* What a commit makes is the graph that was reviewed, one revision on, whatever
\* was applied between the review and the commit.
CommitIsOfReviewed ==
  last.call = "commit" /\ last.revision < MaxRevision =>
    /\ doc = [graph |-> last.reviewed, revision |-> last.revision + 1]
    /\ Valid(doc.graph)
=============================================================================
