# TLA+ models and proofs for the milestone orchestrator

The repository is a template whose program is `tools/milestone-orchestrator`:
a controller that takes a repository from one approved milestone to the next.
It plans a milestone, clones a workspace, lets an agent work in it, verifies
and reviews the candidate, fast-forwards the target branch to it and cleans up.
Each command is a separate process. It may be killed at any step, several may be
started at once, and people and tools work in the same repository. The code's
answer is a small discipline applied everywhere:

1. one command at a time holds the *mutation lease*;
2. the *canonical state* moves by compare-and-swap only, one revision at a time;
3. an effect that cannot be undone or repeated is a *pending operation*: an
   exact intent is published first, each phase is published before its effect,
   and recovery inspects what it finds and resumes it, adopts it, or blocks and
   preserves it.

The models are about this discipline. Paths below are relative to
`tools/milestone-orchestrator/src/` unless they say otherwise.

## 1. Inventory

| Component (files) | State it keeps | Operations | What is hard | What makes it correct |
|---|---|---|---|---|
| Mutation lease (`controller-lease.ts`, `private-ref-store.ts`) | ref `refs/milestone-loop/controller-lease` naming an owner blob; legacy guard file | acquire (8 rounds), release, assertHeld | racing takeover of a dead owner, pid reuse, stepped clocks, same hostname on two machines, pre-ref controllers, publication fences checked before the swap | at most one live holder; only dead owners of this machine are replaced; a live holder keeps the ref; no state published during a migration |
| State store (`state-store.ts`, `state-generation-store.ts`) | generation commits, state ref, JSON mirror, per-process loaded generation | load, loadForMutation, initialize, save, mirror | lost races, save that publishes and then fails, mirror damage, import of a legacy state | linear history, everything published is loadable, one import, a mirror that follows |
| Operation intents (`operation-intent.ts`, part of the state) | `pendingOperation` with phase | set, advance, block, complete per kind | an operation swapped or lost between generations | lineage: the generations since the intent's input carry that operation only |
| Target integration (`target-integration.ts`, driver in `orchestrator.ts`) | intent phase, target branch and worktree, outcome file and its temporary | plan, materialise outcome, fetch, fast-forward, complete, block | crash at every step, target moved or dirty, torn outcome file | target moved only under a published intent; completion is true; blocks are final; crashes alone never block; always decided |
| Workspace cleanup (`workspace-cleanup-operation.ts`, driver in `orchestrator.ts`) | intent phase and reason, workspace, dependencies, diagnostic archive | plan, remove dependencies, archive, delete, complete, block | recursive deletion dying half-way, archive stale when deletion starts, ending published before the intent | nothing deleted before authorisation and diagnostics; completion is true; blocks are final; always settled |
| Workspace creation (`workspace-create.ts`) | intent phase, temporary clone, workspace | plan, clone, no-clobber publish, adopt | half-made clone, destination created by others | published clone is the pinned one |
| Candidate preparation (`candidate-prepare.ts`) | intent phase, worker claim, evidence, checkpoint commit | launch, record evidence, checkpoint, adopt | the worker must be launched at most once; evidence against commit | one launch per authority; candidate identity pinned before verification |
| Milestone loop (`orchestrator.ts`, `transitions.ts`, `milestone-state.ts`, `retry-policy.ts`, `budget.ts`) | run, queue, milestones, attempts, failures, usage | run, canary, plan, attempt, verify, review, retry, escalate, integrate, stop | crash between publications of one logical step, limits, budgets | legal transitions, bounded attempts, every run stops, escalation exactly once |
| Evidence retention (`retention-*.ts`, `evidence-retention.ts`) | approved plan, intent, files | plan, apply, recover | file-by-file deletion | only planned files disappear |
| Reconciliation with external work (`reconciliation.ts`, `reconciliation-reviewer.ts`) | record in the state, archive, range, evidence, report | prepare, verify, review, adopt, queue, reset | candidate that moves on between two phases, crash between files and state | adopts only what was verified and reviewed |
| Commissioning, amendment (`commissioning*.ts`) | manifest and its temporary; pending intent, manifest files, ledger | commission, roll back, amend, resume | no lease, one temporary for all invocations; files replaced one by one | one PASS, which stays; consumers reject a pending generation |
| Source authority (`source-authority-*.ts`, `authority-publication.mjs`) | pending intent, twelve files, trace, packet | publish, recover, transition | multi-file publication under a lease that may be lost | old or new generation, never a mixture that is accepted |
| Process supervision (`process-supervisor.ts`, `command-runner.ts`) | child tree, timers, output buffers | run, time out, terminate, sweep, drain | timers, exits and closed pipes in any order, refused kills, descendants that outlive the root | settles in time, passes only by its own exit, nothing of the group that holds the output is left unkilled |
| Verification (`verifier.ts`, `execution-provider.ts`, `verification-tier.ts`, `affected-scope.ts`, ...) | commands' receipts, result tree, verdict | select, run, judge | candidate changed between two commands, crash in the middle | a pass is about the commit that was inspected and tested |
| Container execution (`container-executor.ts`, `verification-clone.ts`, `container-artifacts.ts`) | clone, volumes, containers | create, start, stop, export, remove with proof | a call given up on may still take effect; removal that cannot be confirmed | the status is the candidate's own; nothing is left unless an error says so |
| Agents (`planner.ts`, `reviewer.ts`, `codex-gateway.ts`) | none of the controller's | external calls | failure, timeouts | validated results |
| Telemetry, status, doctor | append-only spans, none | best effort, read only | | no decision depends on them |
| Config, schemas, contracts, policy, redaction, path safety | none | validation | path containment | |
| Adopter package, benchmark, measurement, inventories, release and qualification scripts | none shared with the controller | packaging, reports | | |

How they interact: a command acquires the lease, opens the state store
(`loadForMutation`), recovers the pending operation if there is one
(`recoverPendingOperation`), reconciles terminal cleanups, and runs the
milestone loop. Every change of state goes through `persist`, which is
`StateStore.save`. The kinds of pending operation exclude one another: the state
has one `pendingOperation`. Amendment and migration take the same lease and
raise a fence in the working tree; commands look at the fence when they acquire
the lease, and `save` looks at the migration fence again.

## 2. Plan

In the order of importance; 1 to 9 are done.

1. `ExclusiveController`, `ControllerLease`: the lease, its abstract promise, fences.
2. `OptimisticHistory`, `StateStore`: the state, its abstract promise; `LeasedStore`: the two together.
3. `TargetIntegration`: the operation that changes what the user cares about; `RecoverableOperation`,
   what it and the other three operations promise.
4. `WorkspaceCleanup`: the operation that destroys, with the same promise.
5. `WorkspaceCreate` and `CandidatePrepare`: the other two operations of a milestone.
6. `MilestoneLoop`: the commands `run`, `plan` and `canary` over all of this.
7. `RetentionApply`, `Reconciliation`: deletion of approved evidence, adoption of work
   done outside the loop.
8. `Commissioning`, `CommissioningAmendment`, `SourceAuthorityPublication` with their common promise
   `FileSetPublication`; `ProcessSupervision`, `ContainerExecution`, `Verification`.
9. Proofs about all of them (the invariants are named in section 5).
10. Pure algorithms against definitions: escalation of the Worker's role, verification tier,
    affected scope.

Composition is of two kinds. By interface: the operations take from the store only the three results
of `persist` (published, published and failed, refused). And by instantiation: `LeasedStore` puts
the clients of `StateStore`, which is also checked without, under `ControllerLease`; `Attempt` puts creation, preparation, supervised installation
and verification of one attempt one behind the other, over one published operation;
`OperatorCommands` commissions one repository and lets deletion, reconciliation, amendment and
source publication loose on it, under the rules that admit them.

## 3. Modules

**ControllerLease.** One process per command: `pc` follows `acquire`
(`admission`, `amendment`, `guard`, `owner`, `observe`, `probe`, `readmission`,
`swap`), then `holding` and `fenced`. `lease` is the ref; an owner blob has a
fresh token, so it is identified with its command. `Probe` is the liveness
judgement: host identity, processes with that pid, start times within the
tolerance of the recorded one. `Swap` is the compare-and-swap. `FenceSave` and
`PublishSave` are the two halves of a save; `AmendmentIntent`/`AmendmentFinal`
and `MigrationIntent`/`MigrationFinal` stand for what the other holders publish.
The environment starts and kills processes (a pid is reused only after its
process is gone), steps the clock, runs pre-ref controllers, and does what the
code's own remedies tell an operator. `ExclusiveController` is the promise: a
holder enters when there is none, and leaves.

**StateStore.** One `StateStore` instance per client; `log` is the sequence of
generations the ref has named, so a generation is its position. `Load`,
`AdoptCurrent` (loadForMutation), `ImportLegacy`, `InitializeFresh`,
`PublishInitial`, `BeginSave`, `PublishSave`, `WriteMirror`, `FailMirror` are the
steps between which other clients act. `TransitionAllowed` is
`assertPendingOperationStateTransition` reduced to identity and lineage of the
operation, `LineageIn` is what the next reader will demand. `FenceAuthority` is
the source epoch that retires controller state. `OptimisticHistory` is the
promise: a history, readers who saw a state of it, and an extension only from the
latest state.

**LeasedStore.** Extends `StateStore` and instantiates `ControllerLease`: a client is a command, and
`stage` is its place in `acquire` and after. It opens a store only while it holds the lease
(`Call`), and has none when it releases or dies (`CloseStore`). The look at the fence (`Pass`) and the write
that follows (`Write`) are the two steps that `StateStore` takes for one; in between other processes act, which is
why `StateStore` names the writes apart (`SwapInitial`, `SwapSave`, `RenameMirror`). `RaiseFence` is the migration,
under the same lease. What a reconciliation reads before it has the lease, it loads again; readers without a lease
(`status`, `doctor`) write nothing and are clients of `StateStore` alone.

**TargetIntegration.** `durable` is the phase in the published state, `mem` the
phase the process believes, `pc` its place in `recoverPendingTargetIntegration`.
`Classify` is the inspection, in the order of its returns. The target is `head`
and `obstacle`, the outcome file `final` and its temporary `temp`. `Drift` is
every change by outsiders between commands, `Race` while one runs.

**WorkspaceCleanup.** The same shape: `Classify` is
`inspectWorkspaceCleanupOperation`, `Plannable` what
`planWorkspaceCleanupOperation` can pin, `Policy` is `cleanupReason`, `Materialize`,
`WriteFile`, `CheckArchive` the archive, `CheckDeletion`, `Delete`, `Deleted` the
deletion, `Catch` the handler of the loop. It starts one step earlier, where the
milestone ends (`CompleteMilestone`, `Escalate`, `WriteReport`), because that end is
published before the intent. `TearFile` and `TearDelete` are a file write and a
recursive removal that stop half-way. The history variable `raced` says that
outsiders acted while the present process ran, `disturbed` that something
other than clean crashes and failed calls happened, `forced` that the milestone
was escalated with `preserveWorkspace`; no action reads them.

**RecoverableOperation.** What the four operations promise alike, in four variables:
the published `status`, whether the `effect` is in place, `faults`, `raced`. The effect comes about only
under the status `started` (or by an outsider), `done` and `completed` are published only while it
stands or after somebody raced the process, and a settled operation is not resumed. `Status` maps
the phases of each operation; the effect is the candidate at the head of the target, and
the absence of the dependencies or of the workspace. A removal that is found done before its start
was published is one of `Disturb`, and `Start` and `Record` are published for it all the same. In `Attempt`,
`CreationPromise` is the same of the final workspace (which is `started` by `publish-started`) and
`PreparationPromise` of the launch of the Worker, which is `started` by `worker-invocation-started`.

**MilestoneLoop.** One process at a time (the lease), `pc` is its place between two
publications: `open` and `recover` are `openLeased`, `start` to `plan-only` the beginning of a
command, `enqueue` the canary's proposal, `select` the loop of `run`, `process` one turn of `processMilestone`, `failed` and
`decide` the two halves of `retryOrEscalate`, `ended` the cleanup that follows an end. `cur` is the
milestone in the local variable, `result` the verdict on the way, `opening` says that a
recovery belongs to `openLeased`. The published state is `run`, `ms` (milestone
records), `queue`, `active`, `required` (requiredNextVerticalConsumer), `action`
(nextAllowedAction) and `pending`. `tree` is what a workspace holds: the base (0), what the
Worker of an attempt committed, an outsider's commit, or uncommitted changes; equal
values stand for equal candidate identities. `Launch` is the publication of
`worker-invocation-started`; the process that crashes after it leaves a phase that recovery
can only block. `Drift` is an outsider in a workspace, `ReachLimit` the moment from which
`checkLimits` throws. `launches`, `approved` and `integrated` are history.

**WorkspaceCreate.** The same shape again: `durable`, `pc`, and what is under the temporary and the
final name. `Inspect` classifies, `Clone`, `Finish` and `Rename` are git and the file system,
`locked` is a clone whose configuration was killed inside git. The rename never replaces.

**CandidatePrepare.** The Worker is a process of its own that may outlive the controller which
launched it; `launches` counts. `turn` and `checkpoint` are the two evidence files, `plan` and
`result` what is published of the commit. The tree of the workspace is its head, what is staged and what
lies in the worktree, over a handful of contents. `bound` says whether what the intent names is intact.

**ProcessSupervision.** `superviseCommand` on POSIX. The root leads a group; one more member of the
group and one stray outside it stand for all descendants. `timer` holds the deadline of each timer,
`Tick` waits for what is due, every other callback comes in any order. The two
output streams are one; which of two due timers fires first is free.

**ContainerExecution.** `stage` is the place in `createContainerCommandExecutor`. `owed` are the
resources whose creation was attempted, `held` those that exist, `late` the calls that were
given up on and may still take effect. Removal is retried until it is confirmed or fails. What a failed
execution had observed is forgotten, because its status is an error whatever it was.

**Verification.** Extends `ContainerExecution` by the verifier around it: a focused command and
the authoritative one, identity before and after, judgement, verdict and its publication. `Drift` moves
the workspace at any time. `CommandFailure` is the first command that failed, which alone decides with a refused result
(`UNPARSED`) whether a failure is of the infrastructure. A process that verifies again after a crash finds the directories of the
first; the provider of execution is chosen when verification begins.

**Attempt.** Composes the last five. `part` says which runs; each begins from what the previous one
published. What a finished part still held is forgotten at the hand-over (`Forget`), and
the installation is not repeated by a process that verifies again.

**RetentionApply.** `phase` and `done` are the published progress, `run` the evidence directories,
`journal` and `result` the derived files. `approved` says that HEAD and every file git sees are those of the
approval (`Plan` makes one). `WorldAsApproved` is the comparison of the world with the
approval, made before every step. A directory may be removed in part (`partial`, `headless`).

**Reconciliation.** `rec` is the record in the state, `step` the place in `ReconciliationController.run`. `archive`,
`range`, `index` and `report` are the files, each valued by the commit it was made for. `Restored` puts
the tree back, `Committed` commits it. Policy and reviewer answer freely.

**CommissioningAmendment, SourceAuthorityPublication.** Files one by one under a pending
intent: looks, renames, and in the latter staged copies and a trace. `unseen` says that
something changed since the process last looked; no action reads it. Both implement
`FileSetPublication`: a fence is up while the files are mixed, and nothing foreign is overwritten
except between a look and the rename.

**Commissioning.** Each invocation has a `place` in `commissionRepository` and one inode it may write
(`bytes`); `temporary` and `manifest` name an inode, `identity` is the one an invocation expects to
have linked. `Clean` is the `finally` that removes the temporary, whoever staged it. `meddled` says
that outsiders changed what was published; no action reads it. HEAD and the rest of the tree are one
flag, `tidy`, so a tree with a new commit counts as untidy for everybody until it is put back.

**OperatorCommands.** All of this in one repository, which is commissioned first (`Activate` is the
operator's commit of the manifest). `Leased` is the admission by
the lease: one command runs; most are refused while a publication or an amendment is pending.
What is pending in the state keeps operation and reconciliation apart; a blocked operation stays there.
A state archive is outdated by every publication of the state.

They share the worktree too. An approval of deletions pins HEAD, the diff and every untracked file
(`captureRetentionCandidate`), and a reconciliation, a new amendment and a new publication want a clean tree. Whatever
changes the files of an amendment or a publication (the intent is an untracked file) therefore falsifies `approved`
and `clean`: by a command that runs alone, `TreeChangedBy`; by somebody else, `TreeDisturbed`, which the running command
may have missed. `Committed` is the operator's commit of what an amendment published, and `Plan` a new `retention-plan`, which
needs no lease and makes an approval of the tree as it then is.

Abstractions of `MilestoneLoop`: deadline, invocation limit and token budget are one flag;
a rejected proposal, a verdict and a review are free choices (what they are judged by
is external); the Worker's role, which a repeated failure promotes, is data; a target that
differs from the verified commit, found by `openLeased` or `startRun`, ends the process before
it publishes anything and is a crash; an exception thrown by a step that has published nothing is `Throw`, and
which exceptions the loop's handlers turn into a retry, an escalation or the end of the process
is as in the code; a failed `persist` or artifact write counts as a crash; the phases inside a
pending operation are those of `TargetIntegration` and `WorkspaceCleanup`, here one step, or
for the Worker the three phases that decide whether it may be launched.

Abstractions to know about in the others:

- one inspection is one atomic snapshot, although the code reads several things
  one after the other; between an inspection and the effect it permits there is
  always a step in which outsiders may act (when interference is on);
- git objects, hashes and documents are compared by the code for exact equality
  and are here "exact" or one of the ways to differ that lead to different
  classifications; a "foreign" target HEAD is not an ancestor or descendant that
  the fast-forward would accept;
- the manual-reconciliation classifications of cleanup are one value, "blocked";
- logging, telemetry, wording and timestamps are left out.

Definitions whose comment starts with "Mutant:" belong to no specification. Each is a
plausible bug in the definition that follows it, kept so that a property can be
seen to fail when the code is wrong (`PROJECT.json`, `mutants`).

## 4. Runs

`tlc -config X.cfg M`. `PROJECT.json` lists them with their properties.

| Run | Instance | Shows |
|---|---|---|
| `lease_race` | three fleets of three: two ordinary commands (the later with the pid of the first) and a migration; an ordinary command, an amendment and a command of another machine with the same hostname and pid; an ordinary command, one of the other machine and an unrelated process with a dead owner's pid. Clock steps of up to one tolerance, two rounds | exclusion, safe takeover, no save during a migration, no coexistence with pre-ref controllers, refinement of `ExclusiveController` |
| `lease_amend` | an ordinary command and an amendment | **violated**: see findings |
| `store_race` | two clients without a lease, two bodies, two operation ids, two revisions; or, under the lease, an ordinary command and one that reuses its pid, a migration or an amendment, with the plain state only (`Instance`) | loadable history, a mirror that follows whoever was handed the current state, refinement of `OptimisticHistory`; whoever holds the lease is alone with the store, and the fence stays down between its look and its write |
| `integration_recovery` | six faults: crashes, failed calls, torn writes, outsiders between commands and while one runs | outcome never ahead, move only under intent, a completed integration is true, crashes alone never block, always decided, refinement of `RecoverableOperation` |
| `cleanup_recovery` | archive of two files, four faults, all policies and endings, outsiders at any moment | deletion authorised, diagnostics first, completion true, crashes alone never block, always settled, refinement of `RecoverableOperation` |
| `cleanup_forced` | one fault | **violated**: see findings |
| `loop_order` | three milestones, the first an exception that the second consumes, the third the canary; commands run, run with one milestone, plan and canary; two attempts, two infrastructure failures, one crash | one Worker launch per attempt, bounded attempts, one milestone at a time, the owed consumer next |
| `loop_ends` | two milestones, the second the canary, one infrastructure failure, one crash, one outside change of a workspace | only verified and approved content is integrated; every run ends, or an undecidable operation is pending |
| `loop_consumer` | two milestones, one crash | **violated**: see findings |
| `attempt` | one attempt from the clone to the verdict; timeout and grace of one tick; two faults: crashes, failed or late calls, torn git commands, refused kills, outside changes | creation clobbers nothing, one launch, only authorised content is committed, supervision settles in its bound and passes only by the exit of its own process, containers are disposed of and a status is the candidate's own, no needless block, a pass is about the commit inspected, always decided |
| `operator` | commissioning by up to three invocations, then two deletions, two commits, two files of each publication; two faults, fewer the more commands are in use (`Bounded`, `CommissioningRuns`); one amendment, of which alone `Committed` is no fault; planning while no command runs | one commissioning passes and stays, one owner of what is pending, deletion and adoption as approved, publications as file sets, everything settles, and a deletion is blocked only for a cause |
| `drift_evidence` | one deletion, two commits, one fault | **violated**: see findings |

Why the bounds are enough. Two contenders and one dead owner are what a
takeover race needs, and two rounds let the loser see the winner; the code's
eight rounds only add retries of the same round. Two revisions after the founding
one let a client begin from a stale state, be overtaken and retry, and let an operation
be started and cleared. Under the lease the contents of the states do not matter, only how many
there are, and two commands are what overlaps or takes over. Every recovery path of the two operations needs at most
two crashes and one outside change; four to six faults allow each of them twice,
including a crash of the recovery. Two archive files are enough for an archive
that is begun and incomplete. In the loop, three milestones are an exception, its
consumer and one that must wait; two attempts are a first and a last; one proposal attempt,
two milestones an invocation and one crash reach every step, and a process that was
killed once has met every published state there is. `loop_ends` has one infrastructure failure
where `loop_order` has two: its liveness needs the counter to reach its limit, not to pass it twice.
In `attempt` two faults are a fault and one in its recovery; a tick is long enough for every order of
timers and exits, since only the order of the deadlines matters. In `operator` two
files or deletions are a first and a last, three invocations are two that meet and one that comes
when the first has ended, and two faults are a command that stops and a disturbance of the one
that resumes it. A new plan while a command runs approves a tree that this command
is about to change, and an approval lost that way is a disturbance like another; one amendment is enough to outdate
an approval, and what it published can be committed before or after the deletion meets it. The theorems of section 5 remove the bounds of every model for everything but
liveness. They also state the type invariants, which no run needs to check therefore.

`CHECK_DEADLOCK FALSE` is set where the system really stops: a completed or blocked
operation, a decided attempt, a repository in which everything is settled or refused, are the end.

Fairness. Liveness is claimed under `WF_vars(Controller)`: whoever wants the
work done keeps running the command, and a process that runs takes its next step. In
`TargetIntegration` protected files are also put back eventually
(`WF_vars(ProtectedFileRestored)`): while they differ the code refuses to continue on
purpose. In `MilestoneLoop` there is also strong fairness of starting a command other than
`canary`: somebody runs `run` or `plan` now and then; a canary that is refused leaves the run
as it is, for ever if nothing else is run. In `Attempt` it is `WF_vars(Command)` and
`WF_vars(Restoration)` (the target is put back on its branch, without which creation refuses). In
`OperatorCommands`, `WF_vars(Command)`; `SF_vars(Finish)`: the command whose work is pending is
run again and again, strong because other commands take the lease in between; and
`WF_vars(PutBack)`: what was changed by mistake is put back. Faults are finite (`MaxFaults`), as is usual
for claims of eventual recovery. Nothing else about the environment is fair.

### Findings

- **Amendment fence** (`lease_amend`, `NoSaveDuringAmendment`). `README.md:100-101`
  (repository root) says that a crash leaves a pending intent that blocks
  consumers, and `CONTRACT.md:369-371` that consumers reject a pending generation.
  `acquire` looks for a pending amendment once, before its loop
  (`controller-lease.ts:366`). An amendment that takes the lease after that look,
  publishes its intent and fails leaves the lease free, and the ordinary command
  goes on and publishes state. The readmission before the swap re-checks only the
  source-authority publication.
- **Forced preservation** (`cleanup_forced`, `ForcedPreservation`). `README.md:398-400` and
  `CONTRACT.md:619-622` promise that a candidate without matching intent is
  preserved even when the policy deletes failed workspaces. `escalate` publishes the
  end of the milestone first; that the workspace is to be preserved is an argument
  in memory. A crash or a failed report write in between leaves the choice of
  the reason to the configuration on the next command, and with
  `preserveFailedWorkspaces: false` the workspace is archived and deleted.
- **An exception that nobody can consume** (`loop_consumer`, `IntegrationDecided`). `README.md:243-245`
  calls the recovery of a pending intent `automatic` or `blocked`. `evaluateProposal` accepts
  an exception if its consumer is not completed at that moment (`policy.ts:404-409`). After a crash
  with an active milestone, `plan` may accept an exception whose consumer is that
  milestone; `run` completes the active milestone first and then the exception.
  Its completion names a completed milestone as the one still to come, which
  `validateOrchestratorState` refuses (`schema.ts:2682-2684`). The target has moved,
  the save throws, the catch handler finds the target at the candidate and does not block,
  and so does every later process.
- **Evidence of another candidate** (`drift_evidence`, `SupportIsExact`). `reconciliation.ts:694` refuses a
  benchmark that is "not a passing exact-candidate result", `:823` an inventory that is "not bound to
  the exact clean candidate", and the test at `reconciliation.test.ts:960` says that a clean drift
  of the candidate invalidates pre-adoption evidence. `resetForCandidateDrift`
  (`reconciliation.ts:1674`) starts again from `prepared` and forgets verification and review, but keeps
  the benchmark and the inventory, which are checked in `prepare` only. The new candidate
  is adopted with those of the old one.

More behaviours that the models show or that came up while modelling, and that are no run of their own:

- Commissioning beside commissioning. The `finally` of `commissionRepository` removes the temporary
  also when it was another invocation's (the exclusive open has failed), while `CONTRACT.md` says
  that "an owned partial stage is cleaned". With three invocations: the first has validated and rechecked
  its stage, the second takes it away and ends, the third stages its own, half written; the first links that
  one, sees the difference and does not roll back what it did not write; the third finds its
  stage gone. All three report failure, and an unvalidated, perhaps partial manifest stays.
- An unlaunched Worker behind a reached limit. After a crash that follows the
  candidate-prepare intent, the recovery is `automatic`; but `launchCandidateWorker`
  calls `checkLimits`, and once the deadline has passed it throws outside every
  handler, on every open. The run can neither resume nor escalate. `Stuck` names this
  case and `EveryRunEnds` exempts it, like an operation that is blocked.
- A proposal that was published and not yet made ready when the process died
  (`addApprovedProposal` publishes twice) stays `proposed` for ever: the loop does not
  select it and `DUPLICATE_ID` refuses to propose it again.
- A git command that is killed may leave its lock (`config.lock` after the clone, `index.lock` at
  staging); every later process fails on it until somebody removes it.
- A process that dies during container verification leaves its container, volumes and clone behind, and its
  successor meets the exclusively created report and artifacts of the first: verification throws and
  the run escalates as a controller failure, although `README.md:8` calls the controller resumable.
- A crash orphans the detached process tree of a command; its Worker may go on writing.
- The comment at `process-supervisor.ts:148` bounds a command by its timeout and two graces. An exit just
  before the abandonment starts a drain, so the bound that holds (`SupervisionIsSound`) has three. A group member
  that ignores SIGTERM and does not hold the output survives a timeout, although `CONTRACT.md`
  speaks of the complete tree.
- A focused command does not notice that the workspace moved away and back around it.
- Reconciliation: a rejection that was published, but whose record was not ended, gets a second
  review after a crash; a proposal that the policy or the queue refuses after adoption wedges the
  record (`Wedged`); an archive of the state that was cut short is never replaced.
- Evidence deletion: the lease lets an amendment run while an approved deletion is pending. Its intent and its
  renamed files are part of what the approval pins, so the resumed deletion finds `candidate-drift`
  (`retention-apply-operation.ts:629-635`) and is blocked for good, although nobody interfered and nothing is
  fenced. No document promises otherwise; `EverySettles` (`BlockedForCause`) allows a block only after a
  disturbance or while the tree is not the approved one.
- Evidence deletion: a directory removed in part before its `summary.json` may be taken for one that
  was never managed, and a result file cut short blocks the operation.
- Source publication: a staged copy, a trace line or the temporary of the intent that a crash leaves behind
  is foreign to every resumed publication; all commands are refused until somebody
  removes it (`Fenced`).
- Candidate preparation: an edit made from outside before staging is committed with the Worker's own; an
  adopted commit is not compared again with what was raced.
- Cleanup: a completed workspace that changed before its cleanup was planned makes planning throw, on
  every command.

## 5. Proofs

`tlapm M_proofs.tla` checks each of the eight proof modules. They state, for every value of
the constants, every safety property that the passing runs check on small instances, and the
type invariants:

- `ControllerLease_proofs`: type correctness, mutual exclusion, exclusion of pre-ref
  controllers, safe removal, no save during a migration, and
  the refinement of `ExclusiveController`. Assumptions: host identities do not
  collide across machines (`HostAssumption`; two machines without a readable
  machine id and with the same hostname would collide), and the clock is never
  off by more than the tolerance (`TimeAssumption`). The inductive invariant adds to
  exclusion that a live holder is the owner the ref names, that whoever is
  judged is dead and on this machine while the command is between probe and swap
  (the dead stay dead, since an owner object is never reused), that recorded
  start times are within the skew of the true ones, and that the guard stands once a
  command is past it. Without the second part the swap could not be shown safe:
  the compare-and-swap only shows that the ref still names the judged owner.
- `StateStore_proofs`: type correctness, loadable and linear history, one import (the last two are theorems
  only), a mirror that follows, and the refinement of `OptimisticHistory`, for histories of any length and any number of
  clients, with or without the lease. The strengthening says that the
  revisions count on from the first, that a caller holds a published state, and that what
  it is about to publish extends the generation it loaded by one admitted transition.
  The mirror has an invariant of its own (`MirrorInv`): as long as no two clients were open at
  once, one is open at most (`Alone`), nobody founds a history that exists (`FindsNone`), an
  import publishes what the mirror path shows (`ImportShown`), and whoever may publish from the current state
  finds it in the mirror (`MirrorCurrent`). `ImportShown` is why an import may leave the mirror unwritten.
- `LeasedStore_proofs`: `LeaseProtects`; the composition implements `StateStore` (`StoreServed`) and the lease
  (`LeaseServed`), so that everything proved of either holds of the commands that use both, the fence and the write being two
  steps; no two stores are ever open at once, which is what `MirrorFollows` supposes, and the history is never extended
  while a migration is pending (`OneAfterTheOther`). It assumes what the lease assumes. The
  invariant is that of the store, of its mirror and of the lease, and `Served`, the ties between them: only a live
  holder has a store open (`OpenHeld`), the fence it found down is down (`FenceDown`), what it is about
  to publish extends the current generation (`ParentCurrent`). `FenceDown` holds because a migration would need the lease,
  and it is why the two steps are one to everybody else.
- `TargetIntegration_proofs`: type correctness, `RecordNeverAhead`,
  `CrashAloneNeverBlocks`, `TargetMovedUnderIntent`, `CompletionIsTrue`, and the refinement of
  `RecoverableOperation`, for any number of faults. The strengthening ties memory to the published
  phase between publications, stages to phases, and - as long as the disk is
  undisturbed - the published phase to the facts on disk. The refinement goes action by action:
  one lemma for steps that only look or fail (a stutter or `Disturb`), one for published phases.
- `WorkspaceCleanup_proofs`: type correctness, `CrashAloneNeverBlocks`,
  `DeletionAuthorised`, `DiagnosticsFirst`, `CompletionIsTrue`, and the refinement of
  `RecoverableOperation`, for archives of any size and any number of faults. The strengthening (`IInv`): `Synchronised` (memory is
  the published phase except in a dead or failing process), `PolicyFits` (a phase occurs only under a
  reason of its policy), `StageFits` (a stage only under its phases and policy), `Seen` (what
  the process has inspected still holds if nobody raced it) and `Undisturbed`
  (what a phase implies about the disk after clean crashes only).
- `MilestoneLoop_proofs`: type correctness, `WorkerOncePerAttempt`, `OneAtATime`,
  `IntegratedSurvivedGates`, `RequiredConsumerNext`, for any set of milestones, any
  exceptions among them (`LoopAssumption` excludes one that names itself as its consumer),
  any limits, crashes and outside changes. One invariant (`Inductive`) serves all five.
  `Located` ties the place in the loop to the pending operation and to the
  milestone in hand (and `cmd`, since only a canary enqueues), which is what a restart loses and `InCharge` recovers from the
  published state: the status of the active milestone tells which operation can be pending.
  `Counted` leaves an attempt before one is begun, `LaunchLeft` a launch for every attempt whose
  operation is not past its intent, `Gated` keeps what was integrated out of reach of
  `verify` and `review`, `Owed` needs `RunGoesOn` (a running run's active milestone
  has not ended). One lemma per part goes through all actions; TLC had checked
  every part on the instances of `loop_order` and `loop_ends` before.

- `Attempt_proofs`: type correctness, `OneLaunch`, `SupervisionIsSound`, `ExecutionIsSound`,
  `CreationIsSafe`, `CandidateAuthorised`, `NoNeedlessBlock`, `VerdictIsTrue`, for any number of
  faults, any timeout and any grace period (`AttemptAssumption`: they are naturals). The
  invariant has a part for each part of the attempt, and `Unprepared`, `Unverified` for what
  has not begun. Creation: without outsiders one of the two names is free, and what
  the process decided on is what it would find again. Preparation: `WorkerFits` counts one launch from the moment
  the Worker is not idle, and leaves none to a phase that may still launch; `PrepareSeen` is what the
  process has looked at, which an orphaned Worker cannot change since it has ended by then. Supervision: in every
  phase a timer is set that ends it, none is overdue (`TimersFit`, which gives the bound of three graces), and
  whoever is abandoned was killed (`NoneSpared`). Execution: what exists or may still
  come to exist is owed a removal (`AllOwed`), and an execution that has not failed removed what it has come past
  (`RemovedSoFar`). Verification: in a container with nobody at the workspace, everything is about the
  commit that was inspected first (`SameCommit`). `Refinement` (`ImplementsRecoverableOperations`, by proof only) takes
  creation and preparation each for a `RecoverableOperation`: one of them steps while the other
  stutters, and a hand-over completes the first and makes the second possible. It needs that each
  stage of the creation is entered under its published phase only (`CreationOrder`).
- `OperatorCommands_proofs`: type correctness, `OneOwner`, `RetentionAuthorised`,
  `AdoptionAuthorised`, `PublishedAsFileSets`, `CommissionedOnce`, for any number of invocations, deletions,
  commits, files and faults (`OperatorAssumption`: naturals, and one commit at least).
  A command that changes the tree under another's approval disturbs only who is down (`ChangedUnseen`), and outsiders
are noticed (`DisturbedSeen`). `OneOwner` is inductive only with `OneRuns` (one command has a process) and
  `PublicationAlone` (a publication that is about to raise its fence has found nothing pending). Deletion needs that phase and
  count fit (`RemovalFits`) and the journal is not behind (`RemovalSeen`), reconciliation that index and
  review are nothing or the candidate's (`RecordFits`), each publication what its last look saw, and
  commissioning that only one invocation has linked a manifest and not given it up
  (`OneLinked`). `PublishedAsFileSets` is the refinement of `FileSetPublication`, by both publications.

What only TLC checks, and why: the liveness properties `EventuallyDecided`,
`EventuallySettled`, `EveryRunEnds`, `AttemptDecided` and `EverySettles`, because TLAPS has no rule for fairness and
ENABLED.
No module uses a recursive operator.

## 6. Not modelled

`components` in `PROJECT.json` gives the reason of each part. For good:

- the agents (planner, Worker, reviewer, gateway): external services whose answers are free choices of
  `MilestoneLoop` and `CandidatePrepare`;
- telemetry (best effort by contract, read by no decision), status and doctor (read only);
- configuration, schemas, policy, redaction: validation of documents without state. What they
  demand of the state that other steps rely on is in the guards of the models;
- adopter package, benchmark, measurement lane, test inventory and ownership, release and
  qualification scripts: they share no state with the controller;
- the parsers of `verifier.ts` (what a receipt or a result tree contains) and the qualification inputs of
  containers: one judgement each;
- the Windows branch of process supervision;
- review and sealing of a source authority, which only produce the inputs of its publication.

Not yet: the pure algorithms of verification (tier, affected scope, schedule) and the promotion of
the Worker's role; migration of old state schemas; the import of a legacy mirror that holds a pending operation; and,
between components, what people do to the tree beside both publications at once (`base` and `world`, the rest of
the tree as each publication compares it, have an outsider each).
