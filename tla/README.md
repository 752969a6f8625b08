# Weavatrix Loom: TLA+ specifications

TLA+ models of the parts of Weavatrix Loom whose correctness depends on the order
in which things happen, with TLC configurations that check them on small instances
and TLAPS proofs for every value of the constants. Paths are relative to `crates/`
unless they start with another directory.

## The system

Loom keeps a *registry* of capabilities and of implementations with evidence, edits
*project graphs* whose nodes are instances of capabilities, validates and runs them,
and compiles them to Rust workspaces. There is no database and no daemon that owns
the state: the registry is a directory of JSON files which the CLI, the HTTP server,
the MCP server and any number of their processes read and write directly, and a
project document is held by the client and sent with each request.

| Part | State it keeps | Operations | Correct when |
|---|---|---|---|
| Admission policy (`wvx-registry-client/src/admission.rs`, `evidence_artifact.rs:997`) | none | justified status of a manifest, of an artifact; overclaim test | the two copies agree on what is minted; monotone in the evidence |
| Promotion (`promote.rs`) | `.locks/promote.lock`, and it writes manifest, artifact, provenance, transparency log | `registry promote`, live or with signed reports, dry or applied | one transaction; the registry stays truthful; ok means ok |
| Evidence artifacts (`evidence_artifact.rs`, `verified.rs`) | `evidence/artifacts/*.json` | mint, verify, truthful audit | an artifact is about the files that were hashed, as they are |
| Collectors, signed reports (`collect.rs`, `signed.rs`) | none | build, license, security, HMAC check | - (inputs of promotion) |
| Transparency log (`attestation.rs`, `rekor.rs`) | `transparency/log.jsonl`, a hash chain | read, verify, append | append-only, one chain |
| Registry store and its other writers (`lib.rs`, `admit.rs`, `requalify.rs`, `wvx-command-bus`) | `implementations/*.json`, `capabilities/*.json`, `provenance/*.json` | list, find, search, admit, Forge registration, mint-evidence | no writer undoes another one's work |
| Resolver (`resolve.rs`) | none | choose an implementation for an instance | eligible and best; better evidence never costs the choice |
| Project graph (`wvx-project-graph`) | none: the document travels with the request | preview, commit, soft apply of patches; propose the pilot pipeline | a committed revision is valid; no stale commit; a proposal is complete |
| Validator, runtime, compiler order | none; trace of a run | passes; run in topological order; emit | a valid graph runs; what is emitted computes the graph |
| Release export (`wvx-compiler-rust`, `wvx-command-bus`) | an output directory | gate, emit, write | only verified implementations; never deletes what is not its own |
| Component SDK (`wvx-component-sdk`), adapters | a process-wide plugin table | register, resolve, execute | the first of a capability is its default |
| Conformance and benchmarks (`wvx-conformance`) | none | run a profile, the built-in suite, benches, goldens | who is accepted can stand for the others |
| Forge (`wvx-forge`) | none; the report of a campaign | match functions to capabilities, draft, compile, Gate C campaigns | a blind campaign is no better than the matcher |
| Cortex (`wvx-cortex`) | none | turn an intent into a patch | a proposal fits the document it was asked for |
| Command bus, CLI, MCP, server | session token | calls into the above | - |
| Schema contract | none | JSON Schema checks | - |

They interact through calls (CLI, MCP and server call the command bus, the command bus
calls the crates) and, across processes, through the registry's files only. Readers
never lock. One lock exists, `.locks/promote.lock`, and only `promote` takes it.

What is hard: several processes over the same files; a promotion that checks first
and locks later; writers that do not lock at all; commits written file by file, cut
short by an error or a crash; readers that meet a commit half way; evidence that is stale
when it is used; results that depend on the order of a queue, of a table or of a
listing. The file `PROJECT.json` lists these hazards at their lines with the properties
that watch them.

## Modules

| Module | What it is |
|---|---|
| `Admission` | The status ladder and the two justification functions, as operators. |
| `AdmissionLedger` | One implementation whose axes change one at a time; compares the two functions. |
| `Promotion` | `registry promote` by any number of concurrent calls, with crashes, I/O errors and source edits. The core. |
| `AtomicPromotion` | The abstract specification: a promotion is one step. |
| `PromotionHistory` | `Promotion` with two history variables, and the refinement mapping to `AtomicPromotion`. |
| `Transparency` | The transparency log: any number of processes append to one file, a line and a newline at a time. |
| `RegistryWriters` | All commands that write the registry, next to each other, with crashes; appends by `Transparency`. |
| `Resolver` | Filters, score and choice of an implementation, as operators. |
| `ReleaseGate` | The validator's release passes, the compiler's choice, and the three ways to export, as operators. |
| `ReleaseLedger` | The implementation of `AdmissionLedger` among rivals: what is chosen and shipped as its evidence changes. |
| `ProjectGraph` | The project document of `wvx-ir` and the validator's passes over it, as operators. |
| `Dataflow` | One call of `run_project`: validation, topological order, execution. |
| `Emit` | What the program that is emitted for the document of `Dataflow` computes. |
| `ExportDirectory` | Concurrent exports and the user, over one output directory. |
| `GraphPatch` | Patches that several proposers preview, commit or softly apply to one document. |
| `Proposals` | `propose_json_pipeline_patch_relative`, over the documents of `GraphPatch`. |
| `Cortex` | Intents turned into patches, by rules or by a language model, in the session of `GraphPatch`. |
| `Handlers` | The table of plugins, the registry of handlers built from it, a call of a handler. |
| `Suites` | The profile runner, the built-in suite, benches and goldens over implementations that behave in any way. |
| `CapabilityMatch` | The score and the kind of match between a function and a capability, as operators. |
| `Forge` | Drafts, their compilation, and a Gate C campaign, run blind and with labels. |
| `MCPromotion`, `MCPromotionHistory`, `MCRegistry`, `MCSuites`, `MCRelease`, `MCDataflow`, `MCGraphPatch` | Values of the constants for TLC, and the composition of the components one run covers. |
| `AdmissionProofs`, `PromotionProofs`, `PromotionTruth`, `RegistryProofs`, `DataflowProofs`, `ExportDirectoryProofs`, `GraphPatchProofs`, `VerdictProofs` | Theorems and proofs. |

Who extends whom: `Transparency` and `Admission` <- `RegistryWriters`; `Admission` <- `Resolver` <-
`ReleaseGate` <- `ReleaseLedger` (with `AdmissionLedger`); `ProjectGraph` <- `Dataflow` <- `Emit`;
`ProjectGraph` <- `GraphPatch` <- `Proposals` <- `Cortex`; `Handlers` <- `Suites`; `CapabilityMatch` <- `Forge`.

### How `Promotion` corresponds to the code

A promoter is one call of `registry_promote`. Its program counter `pc` names the next
step; the steps are cut where another process can look or a crash can fall.

| Action | Code |
|---|---|
| `Call`, `Find` | `registry_promote`, `find_implementation`, and the checks of `promote.rs:155-195` that need only the manifest. A listing during another promotion's rename window may fail (`Vanishing`) or miss the manifest. |
| `TakeReports`, `CollectLive`, `CollectFails` | the two ways to collect evidence (`promote.rs:198-401`) |
| `Mint` | from the merge of the collected axes to the policy check (`promote.rs:404-553`), all in memory |
| `AcquireLock` | `PromoteLock::acquire`: `create_new`, no waiting |
| `TruncateArtifact`, `WriteArtifact` | `fs::write` in `write_artifact` |
| `StageManifest`, `BackupManifest`, `InstallManifest`, `DropBackup` | `atomic_write_json` |
| `WriteProvenance`, `AppendLog` | the rest of the commit closure |
| `Rollback`, `Unlock` | the two ways out of the critical section |
| `Verify`, `DryRun`, `AuditList`, `AuditCheck` | what follows without the lock |
| `IoError`, `Crash`, `EditSource` | the environment |

Data is abstracted to what the properties tell apart. A manifest is its status, whether
it has an adapter, and five axes; an artifact is its axes and two digests (equal iff what they
cover is, i.e. no hash collisions). One is that of the adapter crate, which is only computed
when a cargo workspace is found near the registry (`Workspace`; `evidence_artifact.rs:404-431`, `478`): without one
only names are hashed and no edit of the adapter is ever noticed. The other is that of the
contract of the capability, and stands for the files whose digest is `sha256:absent` when they are
gone (Cargo.lock is another; a profile that is gone is a finding of its own, since it cannot be loaded): `check_digest` (`evidence_artifact.rs:976-985`) accepts
whatever was recorded when the recomputed digest is absent, so a deleted file passes and a
restored one is compared again (`SameDigests`). A file cut short is `Torn`. The transparency log is
the sequence of the implementations named. Suites that are not green never get past
`CollectFails` or the verification, so an artifact that exists stands for green suites.
The human signature is present or not. The staging file is not state: nothing reads it.

`Return` resets the memory of a call that has ended, which only makes states equal that
differ in dead variables. The request of a dead process is kept: it tells whose files
may be half written.

The other writers of registry files are not in this model: its results are about a registry
that is written by promotions. What the other commands do to it is `RegistryWriters`,
where a promotion is one command among seven and takes fewer and larger steps.

### How `Transparency` and `RegistryWriters` correspond to the code

`append_transparency` reads and verifies the whole log (`ReadLog`), and `writeln!` on a file
opened for appending writes the line (`WriteLine`) and the newline (`WriteNewline`) with one
system call each. `log.lines` holds what lies between two newlines, so that two appends that
overlap may put two entries in one line, which then does not parse, or two entries with one
number in two lines. An appender that dies (`AbandonAppend`) may leave a line open; the next
entry joins it. A hash is the tuple of what is hashed.

| Action | Code |
|---|---|
| `Arrive` | a command of the CLI or the command bus is called |
| `Find` | `find_implementation`, and for each command its checks and what it makes of the manifest in memory (`PromotedAxes`, `PromotedManifest`, `AdmittedManifest`, `MeasuredAxes`, `Signed`) |
| `Acquire`, `TruncateArtifact`, `FillArtifact`, `ReplaceManifest` | the commit of `promote`; the two in the middle are `write_artifact` of mint-evidence as well |
| `WriteProvenance` | after the manifest by `promote`, before it and also in a dry run by `admit` |
| `TruncateManifest`, `FillManifest` | `fs::write` in `write_implementation_manifest` (`admit`) and `install_forge_draft_candidate` |
| `PublishAttestation`, `PublishBundle` | `attest` and `sigstore` write their file, then log it |
| `BeginLog`, `LogRefused`, `LogLine`, `LogNewline` | the append, or its error |
| `CheckLine`, `PublishRekor` | `rekor` logs first, re-reads the log, and publishes a bundle with the index |
| `End`, `Crash` | the lock is dropped; a process dies with its lock file and its truncated files left behind |

The commit of a promotion is coarser than in `Promotion` (the renames are one step, the
verification and the audit are left out, its collectors find nothing wrong), so that three
commands at once stay within reach. The axes of the artifact are minted before the manifest's are completed
(conformance, and for an admission benchmark and security), so a call carries both (`art`, `imp`). As live
collection does, an admission asks for a pass from the benchmark and the security check. `by` and `raced`, `torn` are history.

### How `Resolver`, `ReleaseGate` and `ReleaseLedger` correspond to the code

All three are pure functions of a manifest pool, a policy and a document. `Chosen` is
`resolve_implementation_ex`; `Compiles` is `compile_with_policy` with the three validator passes
it calls; `ExportsRelease`, `ExportsListed` and `ExportsWasm` are the three export commands with the
pool each builds (verified, listed, or empty if the listing fails or finds nothing). A document is here the
capability and the selection of each instance, the profile it asks for, and `io`, the capabilities whose contract in
the document is of kind "io". That kind is what the validator looks at (`wvx-validator/src/lib.rs:653`), and it travels with the
document; which capabilities are passthrough is fixed in the compiler (`Io`). The two need not agree. `ReleaseLedger` adds no
step: each change of an axis in `AdmissionLedger` is a change of the evidence of `Subject`, and the
properties quantify over the manifests an export may then find, hand-edited ones included.

### How `Dataflow` corresponds to the code

`run_project` is sequential; what makes it worth a model is that it works on any graph, and
that its results depend on the order the sort finds. `Init` chooses a document, each
action is one turn of a loop or one return.

| Action | Code |
|---|---|
| `Invalid`, `Cyclic` | the error returns of `validate_project` and `topo_order` |
| `StartSort`, `Place` | the initial queue, and one turn of the `while let` of `topo_order` with the inner loop over the targets of the instance popped |
| `StartRun` | the order is complete; the caller's entry values go on the ports |
| `UseSeeds`, `NoHandler`, `MissingInput`, `Execute`, `ComponentFails` | the five ways through the body of `run_project`'s loop |
| `Finish`, `Returned` | the result; a call that is over stays over |

`listed` is the code's `order` followed by its `queue`, and `placed` is where the queue
begins: both only ever grow at the end, so an instance moves from the queue to the order by
moving that border. Ids are integers in the order of their strings, because the code sorts
the queue and the targets (`Sorted`). The sort exists three times in the
code, in the validator, the runtime and the compiler, line by line the same; the
validator's runs on the same document just before the runtime's and gives the same answer,
so it is modelled once. A value is where it came from: a seed or a handler. Which handlers are
registered, whether they fail and which of their outputs they return is left open. Not
modelled: port types, durations, traces, and values no port reads.

### How `Emit` and `ExportDirectory` correspond to the code

`Emit` looks at the document and the order at the moment `run_project` starts to run (`AtCompile`),
which is what `emit::pipeline` gets. A program is the list of its `let` statements in that order, a
variable is a name, and `Renderings` has every way `rust_var` may name ports, clashes included:
`Holds` says whose value a name stands for at a statement, given that a later `let` shadows an
earlier one. `Buffered` and `Streamed` are `run_pipeline` and `run_pipeline_read`, as the port their
bytes come from. `Rendered` stands for the templates, whose text is left out.

`ExportDirectory` is `write_compiled_workspace` and what the export commands do in the directory
afterwards. `Check` is the test for `weavatrix.lock`, `Clear` is `remove_dir_all` one entry at a
time, then the directory is created and each file written (`Write`: the four kinds in the order of
the code), `Cargo` and `Run` leave their own files, `Cleanup` removes the input. `Stop` is an I/O
error, a cargo that fails, or a process that dies: the code treats all three the same, by
returning. `UserWrites` is the only action of the environment.

### How `Handlers` and `Suites` correspond to the code

`Handlers` is the plugin table and `HandlerRegistry`: who registers first, `Installed` for the registry
each command builds, `Resolve` for the default of a capability, `Execute` for the checks of ports and
config around the code of an adapter. What that code computes is a function chosen at the start
(`behaves`). `Suites` has the decisions of `wvx-conformance` as operators (`RunProfileDoc`,
`PilotConformance`, `RunBench`, `GoldenOk`) and three actions, the collector of a promotion for one
implementation, the run over all of them, and the other commands, in any order in one process.

### How `GraphPatch` corresponds to the code

The functions of `patch.rs` are pure, so the state is that of a client: the document
it holds and, for every proposer (a person, Cortex, another tool), the patch whose preview it has
seen. `Preview`, `Commit` and `SoftApply` are the three public functions and adopt what they
return; `Reject` is a call that returns an error, or a patch that is withdrawn. `ApplyOne`
has one operator per kind of operation: it gives the set of its results, which is empty if the
operation fails. Implementation and config of an instance are one `setting`; port types, unique
ids within a document's lists and drawing positions are left out. A capability reference stands
for one contract, so a document and a patch cannot carry two contracts under one reference.

`Proposals` splits the setting again into implementation and config, of which the two keys of
`path_set` are kept. `Propose` gives the operations in the order of the code: nodes, bindings,
entrypoint. `Cortex` adds one action, `Ask`: an intent (the set of the words it has) fires the first
rule that matches, or goes to the language model, whose answer is any patch; the answer is what
the proposer then previews, commits or applies in the session of `GraphPatch`.

### How `CapabilityMatch` and `Forge` correspond to the code

A text is the set of the fragments it contains among those the code looks for. `Score`, `Kind` and
`Match` are `score_capability`, its kinds and `match_candidate`, points included. `Forge` starts where
extraction ends: a package is the list of the functions found. `Grade` adds a case to the report,
computed for the blind and for the labelled campaign over the same outcome of cargo and of the
probe (`World`); `Report` gives the verdict, `Close` ends the campaign.

## Runs

| Run | Instance | Shows |
|---|---|---|
| `ledger` | all 4^5 bundles of evidence, with and without adapter; 3 rivals, 5 policies, 4 profiles, 34 documents, three of which call a transform I/O | the audit is laxer than the manifest's rule only by its green suites; the two agree on what is minted, and are monotone; resolving is monotone; a release ships what its artifact justifies, and a candidate only from an empty listing, unless the document calls a transform I/O and leaves it to the catalog |
| `promotion` | 1 implementation, 2 promoters, draft, inventory entry or admitted, live or signed, crashes; the contract is edited, deleted and restored at will | the lock excludes; settled files are truthful and reviewed; no manifest is lost; a log line tells the truth; ok is about the hashed files as they are, unless one is gone |
| `promotion_live` | 1 implementation (draft), 2 promoters, I/O errors, fairness | every call ends and the lock comes free |
| `promotion_atomic` | 2 implementations, 2 promoters, crashes | `Promotion` implements `AtomicPromotion` |
| `promotion_rollback` (violation) | I/O errors | `RollbackRestores` fails |
| `promotion_lost_update` (violation) | 2 promoters | `ReplacesWhatItRead` fails |
| `promotion_failing` (violation) | a manifest with a failed suite | `TruthfulWhenSettled` fails |
| `promotion_blind_audit` (violation) | 2 promoters, edits of the adapter | `AuditSeesEveryImplementation` fails |
| `registry` | 3 concurrent commands out of 7 on 1 implementation, each of which may die; before them a Gate C campaign of up to 3 of 9 cases; beside them the suites, with 8 profiles and rivals that do anything | what breaks the hash chain, and that it stays broken; ok means logged; a bundle names its line; promoted manifests stay truthful and admissions reviewed; a blind campaign is the harder one; implementations accepted apart stand for each other |
| `dataflow` | every document of up to 3 instances of a source and a join, each input fed by any output, its own included, or by none, and 6 pipelines with I/O and a hash; two exports of one of them into one directory | the sort fails exactly on cycles; nothing runs twice; a value read stays; a missing input is explained; the emitted program computes the graph, for a file as for bytes; the files of a directory are of one export, and a directory is refused only for a reason |
| `dataflow_self_loop` (violation) | the same | `OrderOnlyIfAcyclic` fails |
| `graph_patch` | 2 proposers, 15 patches with every operation and what Cortex answers to 4 intents, a valid and an empty document to start with, revisions up to the last | nothing dangles; a commit is the graph that was reviewed; a pipeline proposed for any document on the way is complete |

Three runs cover components that share no variable: `registry` has a behaviour be about the suites, or
about a campaign and then the registry (the drafts of a campaign are what `install` registers);
`dataflow` exports the one document `MCExported` instead of running it; `ledger` evaluates the
resolver and the gates on each state of the evidence.

**Bounds.** Two promoters are enough for every pairwise race: the shared state a third one
could add is the log line and the lock, and the safety properties are proved for any
number. One implementation concentrates the races; `promotion_atomic` has two, for the
isolation between implementations. A file has two contents, `Contents`, or is gone, and is edited without
a bound: every property compares what was hashed with what is there. `Promotion.cfg` edits the contract, which can be gone,
`PromotionBlindAudit.cfg` the adapter, which cannot (`Editable`); all runs have a workspace, the theorems hold
without one too. Deadlock checking is off for `Promotion` and `registry`, as
all calls end and then nothing is left to do. The symmetry sets permute promoters, callers,
exports, proposers and implementations, which no definition distinguishes; the liveness run uses none.

For `registry` three commands let two of them overlap and a third come after the damage, and all 7^3
combinations occur. With one implementation and one clock reading two entries of a log differ in their command only:
the run tests the index in a bundle by `kind`, the place of the line and the length of the log, and leaves it to
`BundlesNameTheirLines`, which holds for any implementations and clocks, that the line is about this implementation and carries
this signature. A campaign of three cases has
every verdict of `PilotGo` and, with the fewest cases a campaign needs lowered to two and three, of `FullGo`; the cases are chosen for ties, hints and labels the matcher may disagree with.

For `Dataflow` three instances give chains, forks, joins and cycles of two and three, and the
join's two inputs give parallel bindings between two instances, the case in which
counting bindings and counting suppliers differ; `Documents` holds also documents
that do not validate, a pipeline with no template and one with two sinks. Deadlock is checked
there: a call gets stuck nowhere short of a result or an error. In `GraphPatch` previews stop at
revision `EditBound`, which only keeps the run finite, and
`MaxRevision`, the model's u64::MAX, equals it, so the last revision is reached and the
saturation happens; deadlock checking is off because of that bound. Three applied
patches would be one more than it takes to make a review stale. Cortex is asked below revision
`AskBound` only, that is, for the documents a session starts with.

**Fairness.** `FairSpec` assumes weak fairness of the steps of a call that has arrived:
it runs on its own thread and no step waits for another. It does not assume that calls
arrive, sources are edited, or that a fault does or does not happen; `promotion_live`
excludes crashes because a dead process keeps the lock file for ever, which is what
the code does. The other modules state no liveness: a patch, an export or a registry command waits
for nothing, and what the code promises about them is safety.

**Violations.** Five runs show disagreements between the code and what it says of itself.

1. *Rollback.* `PromotionTxn` is "backups for rollback of an apply transaction"
   (`promote.rs:776`), but its list is never filled (`promote.rs:784`): the error path
   reports "rolled back" and restores nothing.
2. *Lost update.* The manifest is read before the lock and not again under it: of two
   promotions of one implementation the later one replaces a manifest it never read,
   so an admission can silently become conformant.
3. *Failed suite.* An old conformance failure stays in the minted artifact
   (`evidence_artifact.rs:604`) and is overwritten in the manifest (`promote.rs:440`): the
   applied promotion fails its own closing audit.
4. *Blind audit.* An audit during another promotion's rename window skips the
   implementation, and the call reports ok without the re-check.
5. *Self loop.* `topo_order` is said to fail "if the graph has a cycle"
   (`wvx-validator/src/lib.rs:689`) but ignores a binding of an instance to itself, as do its
   two copies. Such a document validates, and its run fails on the missing input.

`promotion_atomic` holds in spite of 2 because `AtomicPromotion` does not say which
manifest a promotion starts from; 1 and 3 are outside its instance, as they are outside the
assumptions of `PromotionTruth`.

**Other divergences.** Met while modelling, and part of the models as the code has them; where a
property is about one, it says so.

- *Admission policy.* The comment above `justified_status` asks for "benchmark ≠ fail" for admitted
  (`admission.rs:24-25`); the code asks for a pass as well (`admission.rs:58`). The models have the code's rule. The
  comment's is the mutant `JustifiedStatusAsDocumented`: under it the manifest's rule admits what the audit
  does not (`RulesAgreeOnAdapters`).
  And the two rules differ on other axes than those that are minted: green suites make a conformance axis that is absent or unknown a
  pass for the audit (`evidence_artifact.rs:926-932`, `BySuites`), which then justifies conformant or admitted where the
  manifest's rule stops at candidate. `AuditTrustsOnlySuites` says that this is the only case.
- *Digests.* A digest that is recomputed as absent is compared with nothing (`evidence_artifact.rs:981`): a contract or
  Cargo.lock that has been deleted passes verification and audit, and so does any edit of an adapter when no workspace is
  found. `OkIsAboutHashedFiles` says how much is left.
- *Registry.* A promotion that dies leaves its lock file, and every later one is refused. `registry admit` writes the review record in a dry run too, and an
  admission by it has no artifact. A rekor bundle is checked for the kind of the line only.
  `verify_implementation` reads the artifact twice (`verified.rs:48`).
- *Export.* `export-wasm --release` with a registry that cannot be listed compiles against an
  empty pool, which no policy applies to (`wvx-command-bus/src/lib.rs:399`; `CandidatesShipOnlyBlind`), and so does a registry without
  manifests. A document that declares a transform to be of kind "io" need not select an implementation for it
  (`wvx-validator/src/lib.rs:653`), and if the policy leaves nothing in the pool the compiler takes the default of its catalog,
  which the policy is not asked about (`wvx-compiler-rust/src/lib.rs:853-860`): `LeftToDefault`, excepted by name in both
  release properties; verification still covers it in `export-rust`. What a document
  selects itself bypasses the filters of the resolver. A valid document with an unbound optional input
  runs but has no program (`emit.rs:290`; `EmitFailureIsExplained`). `rust_var` may give two ports one
  name (`emit.rs:480`; `ExportComputesTheGraph`), and for a file the program may answer otherwise than for bytes
  when the first sink takes the input itself (`emit.rs:460`; `StreamedIsBuffered`). Two exports into one
  directory mix their files, and one that stops before its marker is written leaves a
  directory every later one refuses (`MixedOnlyByOverlap`, `RefusedOnlyAfterStop`).
- *Handlers and suites.* The three binaries register the external parser first
  (`wvx-cli/src/main.rs:35`), so that it, and not the first of the pilot, is the default of its capability. A golden
  that is missing or does not decode lets any output pass in the run for one implementation
  (`AcceptedStandForEachOther`); bench and equality cases are dropped when their input cannot be encoded.
- *Forge.* A compilation that is an error drops out of the denominator (`economics.rs:564`); a draft that is
  compiled may be of another capability than the match (`economics.rs:516`); `path_set` never counts
  as compiled; `Vec<u8>` is never taken for bytes; the bare name `decode` maps to `hex_decode` while the
  hint says base64.
- *Patches and Cortex.* A proposal names no base revision, so it is never stale. A path that is not a
  string is proposed the same setting for ever (`patch.rs:405`; excepted in `ProposalIsComplete`), and a
  binding is proposed to an instance that only has the id of a node (`patch.rs:474`). Cortex selects an
  implementation for whichever instance has the id, whatever its capability (`wvx-cortex/src/lib.rs:276`), and its last
  rule for offline use is never reached.

## Proofs

| Theorem | Module | Assumes |
|---|---|---|
| `AuditTrustsSuites`, `RulesAgree`, `Monotone` | `AdmissionProofs` | nothing |
| `ChoiceIsMonotone` | `AdmissionProofs` | the assumptions in `Resolver`; `ImplId \subseteq Nat`, ids numbered in the order of their strings |
| `ReleaseIsJustified`, `CandidatesOnlyBlind` | `AdmissionProofs` | the assumptions in `ReleaseGate` and `ReleaseLedger`; `ImplId \subseteq Nat` |
| `TypeCorrect` | `PromotionProofs` | the assumptions on the constants in `Promotion` |
| `LockExcludes`, `NoManifestLost`, `LogIsTruthful`, `OkMeansHashed`, `CallsOnlyGoOn` | `PromotionProofs` | the same; any faults |
| `AuditSeesItsOwn` | `PromotionProofs` | also `[]Apart`: calls under way at once are about different implementations |
| `ReplacesUnlessShared` | `PromotionTruth` | the same |
| `OthersAreSafe`, `RollbackLosesNoManifest`, `DeathIsForEver` | `PromotionTruth` | the assumptions in `Promotion`; any faults |
| `SettledIsReviewed` | `PromotionTruth` | also `NoIoErrors` |
| `SettledIsTruthful`, `PromotionsImplementAtomic` | `PromotionTruth` | also `EvidenceIsWhole` |
| `ChainAlone` | `RegistryProofs` | `NothingIsNoCaller` |
| `RegistryTypeCorrect`, `RegistryDamageStays`, `ChainOutsideTheLock`, `SuccessIsLogged`, `BundlesNameTheirLines`, `PromotedAreTruthful`, `AdmittedAreReviewed` | `RegistryProofs` | also `CommandsAssumption`, `NothingIsNoEvidence` |
| `CommandsOnlyAppend` | `RegistryProofs` | also that kinds, subjects and payloads are those of the commands |
| `RunsAreRight`, `DataflowTypeCorrect`, `SortIsExact`, `PlacedOnce`, `NoStaleRead`, `MissingInputCause` | `DataflowProofs` | the assumptions in `ProjectGraph` and `Dataflow`: documents are finite |
| `ProgramComputes`, `FilesAreBytes`, `RefusalIsExplained` | `DataflowProofs` | also `EmitAssumption` |
| `FilesOfOneExport`, `ClosedStaysClosed`, `ClosedOnlyAfterStop` | `ExportDirectoryProofs` | the assumption in `ExportDirectory` |
| `OperationsKeepWhole`, `SessionTypeCorrect`, `CommitsAreReviewed`, `ProposalsComplete` | `GraphPatchProofs` | the assumptions in `ProjectGraph`, `GraphPatch`, `Proposals` and `Cortex` |
| `NeverDangling` | `GraphPatchProofs` | also that the first document of the session dangles nowhere |
| `BlindCampaignIsHarder` | `VerdictProofs` | `CasesAssumption` |
| `AcceptedAgree` | `VerdictProofs` | `ListedAssumption`, below |

All hold for any sets of implementations, promoters, callers and exports and any edits,
for any finite documents, for any proposers, patches and intents, for a campaign of any cases, and
for implementations that compute anything.

`ListedAssumption` says that `Lists`, the implementations the model asks the collector about, has every one that
declares the profile and has a handler for its capability. It limits the model only: the collector can be called for
any implementation (`src/crates/wvx-registry-client/src/collect.rs`), and one it is never called for was never accepted.

*Policy* (`ByArtifact`). What an artifact justifies has a closed form: with green suites and no finding, an adapter and no
failing axis it is admitted or conformant as the four other axes all pass or not, and the conformance axis no longer
matters unless it is a failure. Comparing that with the manifest's rule gives the one case in which the audit is laxer (`AuditTrustsSuites`);
`mint_artifact` records the conformance, so on what it writes the case is gone (`RulesAgree`).

*Choice* (`ChosenIsBest`, `BetterChoice` in `AdmissionProofs`). The implementation chosen is the one survivor of the filters
that no other survivor beats, for the order of the ranking is strict: by score, then by id. Better evidence keeps the
implementation among the survivors, raises or keeps its score and leaves those of the others, so it stays
the best (`ChoiceIsMonotone`).

*Release* (`ReleaseResolves`). The release policy requires a selection for what the document does not call I/O, so what is
shipped is what was selected, and by `LifecycleOk` at least conformant; or it is the resolver's choice, which
survived its filters (`ChoiceSurvives`); or `LeftToDefault`. What is in the pool was verified, which ties the
manifest to an artifact that justifies it.

*Files* (`FInv` in `PromotionProofs`). Mutual exclusion is not inductive: it follows from
"a promoter in its critical section owns the lock". That a manifest is never lost needs
more: who is about to install has put the old manifest in the `.bak` first, and only a
lock owner touches either. For the log: a promoter that is past the installation has a
manifest of status conformant or admitted in place, and nothing lowers a status below
that. A crashed promoter keeps its lock, so its half-written files stay guarded.

*Reviews of promotions* (`CInv` in `PromotionTruth`). The position of a promotion in its commit says which of its files are
in place (`CommitSoFar`), and it lets go of the lock with all of them in place or not at all. That is a matter of order,
so it holds whatever the evidence is worth, as long as no write fails (`NoIoErrors`): one that does is not
rolled back (violation 1).

*Truth* (`TInv`). What is on disk was justified when it was minted: the
promoter's manifest and artifact in memory justify each other from `Mint` on
(`MemoryIsSound`), and by `CInv` it is those two that are on disk. `EvidenceIsWhole` excludes I/O errors (no rollback, violation 1),
manifests that start with a failing axis (violation 3) and signed reports that
leave out an axis (a human signature sets benchmark and security in the manifest only).

*Ok* (`OkInv` in `PromotionProofs`). With any faults: the log only grows, so a call of apply that gets
to its audit has its line in it. By `LoggedIsPromoted` whatever manifest the audit then reads of its implementation is at
least conformant, the audit looks at its artifact, and says ok only if every digest recomputed at
that moment agrees or is absent, and only the contract's can be (`SameDigestsMean`). What is left out is the audit that misses the manifest altogether (violation 4).

*Transactions* (`RInv` in `PromotionTruth`). The refinement mapping shows the files as they were when the lock was
last free (`saved`). So what is needed is that everything that has changed since is the owner's work: its
implementation's files, and its line of the log (`SinceTheLock`). Then all steps under the lock are stutters except the
one that frees it, and that one is `AtomicPromotion`'s step, justified by `TInv`.

*Audits and updates that are lost* (`AloneInv` in `PromotionProofs`, `BaseInv` in `PromotionTruth`). Both are refuted by
runs (violations 2 and 4) with two promotions of one implementation, and the theorems say that nothing else can do it:
an implementation's manifest is written under its own promotion only (`WritesOwnManifest`), so with no other
call about it (`Apart`) it is there to be audited, and until it is moved away it is still the one that was read.

*Failures* (`WorkInv` in `PromotionTruth`). `RollbackRestores` is refuted (violation 1), so what does a failure leave?
`WorkInv` follows the manifest that was there when the lock was taken: it is in its place, then in the `.bak`, until the
new one is installed; files of other implementations are as they were (`OthersAreSafe`); and a rollback, which
writes nothing, adds nothing to that (`RollbackLosesNoManifest`). After a death the lock has an owner
that takes no step, and every write needs the lock (`DeathIsForEver`).

*Ends* (`Place` in `PromotionProofs`). Each step of a call has a number, and every step that moves a call raises it, so a
call has at most seventeen. This is the part of `CallsEnd` and `LockIsReleased` that needs no fairness.

*Chain* (`ChainInv` in `RegistryProofs`). Short of an overlap or a death: the log verifies, at most
one entry is on its way, it carries the next number and the hash of the last line, and a line
is open only for the newline of its writer. A theorem about `LogSpec` alone (`ChainAlone`) and, as every command's
log steps are steps of the log (`LogStep`), a conjunct of the invariant of `RegistryWriters`. More than that, the
commands implement `LogSpec` (`CommandsOnlyAppend`): a process that dies dies as an appender or leaves the
log alone, because what is held is gone with the newline (`WriterInv`).

*Registry* (`RegistryInv`), the conjunction of seven parts, each about one thing the commands
share. `LockInv`: a promotion between its lock and its end has the lock file, and a lock file is of such a
promotion or of a dead one. `RaceInv`: so no two promotions ever append at once, which leaves the commands
without the lock (`ChainOutsideTheLock`). `LoggedInv`: an entry that was appended is
never lost again, whole lines or not, so a command that got past its newline finds its entry;
and as long as the log verifies the number of an entry is its line (`SuccessIsLogged`, `BundlesNameTheirLines`).
`ReviewInv`: an admitted manifest without its record belongs to the promotion that has the lock;
whoever else is about to write an admitted manifest has written the record first
(`AdmittedAreReviewed`). `TruthInv`: manifest and artifact last written by promotions are those of one
commit, unless one is under way or has died holding the lock; a promotion earns the status it
writes, because no axis but conformance, which a promotion sets, ever fails in a manifest the commands
have written; and an artifact of mint-evidence with a conformance pass has no failing axis either, so it is
worth conformant whenever it was measured (`PromotedAreTruthful`).

*Directories* (`OwnerInv` in `ExportDirectoryProofs`). As long as exports have not overlapped, one that is
about to write finds no generated file and one that writes finds its own only. That a refused directory was left by
a stop needs no such assumption: it follows the directory from the moment its marker goes.

*Order* (`SortInv` in `DataflowProofs`). That counting down gives an order needs to say what the
counts mean: the count of an instance is the number of its *pending* bindings, those
whose source is not placed; an instance is listed just when nothing is pending; and the
suppliers of a listed instance were placed before it. A tangle (a set in which each
instance is fed by another one of the set) has no first member to be placed, so none of
it ever is; and if the queue runs dry early, the instances not placed are a tangle. So
the sort is exact without any induction over paths.

*Run* (`RunInv`). The instances before `pos` are over with and the others untouched. A value read came
from a supplier further to the front, which never runs again, so it stays; if it was
missing, the supplier was passed over or returned too little, or is the reader itself.

*Program* (`Compiled`, `NoShadow`, `SuppliedBefore`). The compiler gets the order of `SortInv`, in which each instance has one
place and its suppliers an earlier one. A `let` shadows only its namesake, so without two ports of one name
each variable holds the value of its own port wherever it is read (`ProgramComputes`); what a binding brings has its variable in time, unless
the instance feeds itself (`RefusalIsExplained`); and a first sink that does not read the input reads the only
output of the only transform (`FilesAreBytes`).

*Reviews* (`ReviewInv` in `GraphPatchProofs`). While a patch waits, its base is at most the
document's revision, and if they are equal then the document is still the one of the
preview. Every applied patch raises the revision, short of the last one, so equality means
nothing was applied in between.

*Patches* (`Along`, `OperationsKeepWhole`). The result of a patch is a function of how many of its operations have
been applied. Induction over that number is out of reach, but a least counterexample is not: were something untrue
after some number of operations, there would be a smallest such number, it would not be zero, and the operation before
it kept what it should (`Along`). So whole patches keep a document typed and whole, whatever
operations they hold (`SessionTypeCorrect`, `NeverDangling`), and an answer of Cortex, by rule or by model, is
one more patch.

*Proposals* (`Grown`, `ProposalReaches`). What a document has become after *n* operations of its proposal: the
instances it had and those nodes whose operation is among the first *n*, with the setting that operation
gives them; the bindings it had and those edges that were missing; and so on, exactly. Each node has at most one
operation (`OneForEach`), because the ids of a recipe differ, so no operation meets what an earlier one did. At
the last *n* the pipeline is there; a proposal for that document has nothing to add but the
setting of a path that is not a string, which is set to what it is (`ProposalIsFinal`).

*Campaigns* (`CampaignInv`, `ToldIsRight` in `VerdictProofs`). The search the label adds ends on a candidate that is right,
or it finds none and the two campaigns choose alike. So case by case the labelled count of right ones is no smaller and of false ones no larger.

*Profiles* (`ProfileInv` in `VerdictProofs`). Commands leave the plugin table as their first one
made it, so each builds the same registry, and what the collector said of two implementations at different times
was said of the same handlers. Agreement with the goldens and failure on the negatives is then a
matter of the pair alone (`AgreementIsPairwise`).

Only model-checked: liveness (`CallsEnd`, `LockIsReleased`), which is outside the prover, of which `CallsOnlyGoOn` is
the safety half; and the counterexamples of the violation runs. Every other property of a passing run is stated by a
theorem. That a promotion of `RegistryWriters`, which installs its manifest in one step and has no audit,
is one of `Promotion` seen from further away is not proved: the two are separate readings of
`promote.rs` at two levels of detail, each with its own proofs.

## Not modelled

- *Text and formats*: JSON schemas, SPDX and SBOM documents, sigstore bundles, the templates of
  emitted crates and adapters, extraction of functions and facts from Rust source, search, reports. They
  transform data and keep no state; where another part decides on their outcome, that outcome is
  an input of its model.
- *Cryptography*: HMAC and signatures. A digest is equal iff nothing it covers has changed.
- *Adapters*: what a parser, a hash or an encoder computes is any function (`behaves`, `value`).
- *External programs*: cargo, wasmtime, the language model and the file scans succeed or fail freely.
- *Loom server and MCP*: stateless handlers over the command bus, with a token and path checks. The
  session they serve is the client's, which is `GraphPatch`.
- *Temporary registries* (`temp_registry.rs`) beyond the comparison a dry run makes, and `requalify`, which
  reports on a registry and writes nothing to it.
- *Port types, schema versions and durations*, which only add errors to the passes that are modelled.

## Plan

All modules of the plan are written: promotion and its abstract specification, the log and
the other writers, patches and proposals, runs, the compiler and its directory, resolver and
release gate, handlers and suites, Forge and Cortex. Every safety property and the refinement of the runs are
proved, and so is what remains true where a run refutes a promise of the code: `RollbackLosesNoManifest`,
`ReplacesUnlessShared`, `AuditSeesItsOwn`.
