---------------------------- MODULE MilestoneLoop ----------------------------
(***************************************************************************)
(* The milestone loop (orchestrator.ts: openLeased, startRun, planOnly, run, *)
(* processMilestone and what they call; transitions.ts, milestone-state.ts,  *)
(* retry-policy.ts).  A command is a process; the lease serialises them, and *)
(* any of them may die between two publications.  Each step below ends with  *)
(* at most one publication (`persist`).                                      *)
(*                                                                           *)
(* A pending operation is one step per publication the loop can observe;     *)
(* what happens inside is in TargetIntegration and WorkspaceCleanup.  A      *)
(* persist that fails leaves the process with a stale generation, which every *)
(* later persist refuses: it is a crash.                                     *)
(***************************************************************************)
EXTENDS Naturals, Sequences

CONSTANTS
    Milestones,         \* identities of proposals
    None,
    Consumer,           \* immediate consumer an exception proposal names, or None
    Canary,             \* the built-in proposal of the command canary
    Attempts,           \* limits.attemptsPerMilestone
    InfraLimit,         \* limits.consecutiveInfrastructureFailures
    PlannerAttempts,    \* limits.plannerProposalAttempts
    PerInvocation,      \* limits.milestonesPerInvocation
    MaxCrashes,         \* bound on crashes
    MaxDrifts           \* bound on changes of workspaces by others

ASSUME LoopAssumption ==
    /\ None \notin Milestones
    /\ Consumer \in [Milestones -> Milestones \cup {None}]
    /\ Canary \in Milestones
    /\ \A m \in Milestones : Consumer[m] # m
    /\ {Attempts, InfraLimit, PlannerAttempts, PerInvocation} \subseteq Nat \ {0}
    /\ {MaxCrashes, MaxDrifts} \subseteq Nat

VARIABLES
    \* the published state
    run,        \* status, milestonesProcessed, consecutiveInfrastructureFailures
    ms,         \* milestone records
    queue, active, required, action, pending,
    \* the process
    pc, cmd, cur, tries, opening, result,
    \* the world
    tree,       \* what each workspace holds
    exhausted,  \* deadline, invocation limit or token budget of the run is reached
    crashes, drifts,
    \* history
    launches,   \* Worker launches of each milestone
    approved,   \* content a reviewer approved last
    integrated  \* content the target was moved to, or 0

state   == <<run, ms, queue, active, required, action, pending>>
process == <<pc, cmd, cur, tries, opening, result>>
world   == <<tree, exhausted, crashes, drifts>>
history == <<launches, approved, integrated>>
vars    == <<state, process, world, history>>

(* Content k is what the Worker of attempt k left; 0 is the base commit.     *)
Outside  == Attempts + 1     \* commits of somebody else
Dirty    == Attempts + 2     \* uncommitted changes
Tree     == 0 .. Attempts + 2
HasCommits(t) == t \in 1 .. Outside

RunStatus == {"idle", "running", "stopped", "escalated"}
Terminal  == {"completed", "escalated"}
Worked    == {"running", "verifying", "reviewing", "retrying"}
Status    == {"absent", "proposed", "ready"} \cup Worked \cup Terminal
Action    == {"plan", "start-milestone", "resume-worker", "verify", "review",
              "retry", "stop"}
Failure   == {"infrastructure", "product", "review"}

Milestone ==
    [status : Status, attempts : Nat, feedback : BOOLEAN,
     workspace : {"none", "present", "settled"},
     verdict : Tree]        \* content its last verification passed, or 0

Kind    == {"workspace-create", "candidate-prepare", "target-integrate",
            "workspace-cleanup"}
NoOperation == [kind |-> "none", milestone |-> None, phase |-> "none", tree |-> 0]
Operation(kind, m, t) ==
    [kind |-> kind, milestone |-> m, phase |-> "intent-persisted", tree |-> t]

(* "one" is run with at most one milestone.                                  *)
Command == {"run", "one", "plan", "canary"}

Stage == {"down", "open", "recover", "worker", "start", "retention", "plan-only",
          "enqueue", "plan", "approve", "stop", "select", "process", "begun", "install",
          "verified", "reviewed", "approved", "failed", "decide", "ended"}

------------------------------------------------------------------------------
Init ==
    /\ run = [status |-> "idle", processed |-> 0, infra |-> 0]
    /\ ms = [m \in Milestones |->
                [status |-> "absent", attempts |-> 0, feedback |-> FALSE,
                 workspace |-> "none", verdict |-> 0]]
    /\ queue = <<>> /\ active = None /\ required = None
    /\ action = "plan" /\ pending = NoOperation
    /\ pc = "down" /\ cmd = "run" /\ cur = None /\ tries = 0
    /\ opening = FALSE /\ result = "none"
    /\ tree = [m \in Milestones |-> 0] /\ exhausted = FALSE
    /\ crashes = 0 /\ drifts = 0
    /\ launches = [m \in Milestones |-> 0]
    /\ approved = [m \in Milestones |-> 0] /\ integrated = [m \in Milestones |-> 0]

(* A step of the process that publishes nothing.                             *)
Goto(stage) == /\ pc' = stage
               /\ UNCHANGED <<state, cmd, cur, tries, opening, result, world, history>>

Idle == /\ cmd' = "run" /\ cur' = None /\ tries' = 0
        /\ opening' = FALSE /\ result' = "none"
Exit == /\ pc' = "down" /\ Idle /\ UNCHANGED <<state, world, history>>

(* What a process does next after `persist`.                                 *)
Continue(stage) == /\ pc' = stage
                   /\ result' = IF stage = "decide" THEN result ELSE "none"
                   /\ UNCHANGED <<cmd, cur, tries, opening>>

Throw(kind) == /\ pc' = "failed" /\ result' = kind
               /\ UNCHANGED <<state, cmd, cur, tries, opening, world, history>>

------------------------------------------------------------------------------
(* escalate: the milestone, if it has not ended, and the run end together.   *)
Escalate(m) ==
    /\ run' = [run EXCEPT !.status = "escalated"]
    /\ ms' = IF m \in Milestones /\ ms[m].status \notin Terminal
             THEN [ms EXCEPT ![m].status = "escalated"] ELSE ms
    /\ action' = "stop"
    /\ pc' = "ended" /\ cur' = m /\ tries' = 0 /\ result' = "none"
    /\ UNCHANGED <<queue, active, required, pending, cmd, opening, world, history>>

(* cleanupTerminalWorkspace: an intent for a workspace that needs one.       *)
NeedsCleanup(m) == /\ m \in Milestones /\ ms[m].status \in Terminal
                   /\ ms[m].workspace = "present"

CleanUp(m) ==
    /\ NeedsCleanup(m)
    /\ pending' = Operation("workspace-cleanup", m, 0)
    /\ Continue("recover")
    /\ UNCHANGED <<run, ms, queue, active, required, action, world, history>>

Ended ==
    /\ pc = "ended"
    /\ \/ CleanUp(cur)
       \/ ~NeedsCleanup(cur) /\ Goto("select")

------------------------------------------------------------------------------
(* A command starts; openLeased.                                             *)
Start ==
    /\ pc = "down"
    /\ pc' = "open" /\ opening' = TRUE /\ cmd' \in Command
    /\ UNCHANGED <<state, cur, tries, result, world, history>>

Open ==
    /\ pc = "open"
    /\ \/ pending.kind # "none" /\ pending.phase = "blocked" /\ Exit
       \/ pending.kind # "none" /\ pending.phase # "blocked" /\ Goto("recover")
       \/ pending.kind = "none" /\ \E m \in Milestones : CleanUp(m)
       \/ /\ pending.kind = "none" /\ \A m \in Milestones : ~NeedsCleanup(m)
          /\ pc' = "start" /\ opening' = FALSE
          /\ UNCHANGED <<state, cmd, cur, tries, result, world, history>>

(* After a recovery: back to openLeased, or on in the loop.                  *)
AfterRecovery(stage) == Continue(IF opening THEN "open" ELSE stage)

------------------------------------------------------------------------------
(* startRun.                                                                 *)
EntryOf(c) == CASE c = "plan"   -> "plan-only"
                [] c = "canary" -> "enqueue"
                [] OTHER        -> "select"

(* A canary that was completed is only reported.                             *)
OnlyReported == cmd = "canary" /\ ms[Canary].status = "completed"

StartRun ==
    /\ pc = "start"
    /\ \/ OnlyReported /\ Exit
       \/ ~OnlyReported /\ run.status = "running" /\ Goto(EntryOf(cmd))
       \/ ~OnlyReported /\ run.status = "escalated" /\ Exit
       \/ /\ ~OnlyReported /\ run.status \in {"idle", "stopped"}
          /\ run' = [status |-> "running", processed |-> 0, infra |-> 0]
          /\ exhausted' = FALSE
          /\ Continue("retention")
          /\ UNCHANGED <<ms, queue, active, required, action, pending,
                         tree, crashes, drifts, history>>

(* planEvidenceRetention, whose failure ends the run.                        *)
PlanRetention ==
    /\ pc = "retention"
    /\ \/ Goto(EntryOf(cmd))
       \/ /\ run' = [run EXCEPT !.status = "escalated"] /\ action' = "stop"
          /\ pc' = "down" /\ Idle
          /\ UNCHANGED <<ms, queue, active, required, pending, world, history>>

PlanOnly ==
    /\ pc = "plan-only"
    /\ IF \E i \in DOMAIN queue : ms[queue[i]].status = "ready"
       THEN Goto("stop")
       ELSE /\ pc' = "plan" /\ tries' = 0
            /\ UNCHANGED <<state, cmd, cur, opening, result, world, history>>

(* stopRun, after which the command ends.                                    *)
Stop ==
    /\ pc = "stop"
    /\ run' = [run EXCEPT !.status = "stopped"]
    /\ pc' = "down" /\ Idle
    /\ UNCHANGED <<ms, queue, active, required, action, pending, world, history>>

------------------------------------------------------------------------------
(* planWithinRun.  evaluateProposal reduced to what it reads of the state.   *)
Acceptable(m) ==
    /\ ms[m].status = "absent"
    /\ required \in {None, m}
    /\ Consumer[m] # None => ms[Consumer[m]].status # "completed"

ProposalAccepted(m) ==
    /\ tries < PlannerAttempts /\ ~exhausted
    /\ Acceptable(m)
    /\ ms' = [ms EXCEPT ![m].status = "proposed"]
    /\ queue' = Append(queue, m)
    /\ pc' = "approve" /\ cur' = m /\ tries' = 0
    /\ UNCHANGED <<run, active, required, action, pending, cmd, opening, result,
                   world, history>>

(* enqueue: the canary, unless it is there already; then run, with at most   *)
(* one milestone.  A canary that policy rejects leaves the run as it is.     *)
Enqueue ==
    /\ pc = "enqueue"
    /\ \/ /\ ms[Canary].status # "absent"
          /\ pc' = "select" /\ cmd' = "one"
          /\ UNCHANGED <<state, cur, tries, opening, result, world, history>>
       \/ /\ Acceptable(Canary)
          /\ ms' = [ms EXCEPT ![Canary].status = "proposed"]
          /\ queue' = Append(queue, Canary)
          /\ pc' = "approve" /\ cur' = Canary
          /\ UNCHANGED <<run, active, required, action, pending, cmd, tries, opening,
                         result, world, history>>
       \/ ms[Canary].status = "absent" /\ ~Acceptable(Canary) /\ Exit

(* Mutant: the planner is asked once more than allowed.                      *)
ProposalRejectedOnceMore ==
    /\ tries <= PlannerAttempts /\ ~exhausted
    /\ tries' = tries + 1
    /\ UNCHANGED <<state, pc, cmd, cur, opening, result, world, history>>

ProposalRejected ==
    /\ tries < PlannerAttempts /\ ~exhausted
    /\ tries' = tries + 1
    /\ UNCHANGED <<state, pc, cmd, cur, opening, result, world, history>>

(* The attempts are used up, or the planner fails: escalate names no         *)
(* milestone, so it takes the active one.                                    *)
Plan ==
    /\ pc = "plan"
    /\ \/ \E m \in Milestones : ProposalAccepted(m)
       \/ ProposalRejected
       \/ Escalate(active)

(* Mutant: the command that only plans goes on to the work.                  *)
ApproveAndWork ==
    /\ pc = "approve"
    /\ ms' = [ms EXCEPT ![cur].status = "ready"]
    /\ action' = "start-milestone"
    /\ Continue("process")
    /\ UNCHANGED <<run, queue, active, required, pending, world, history>>

(* The second publication of addApprovedProposal.                            *)
Approve ==
    /\ pc = "approve"
    /\ ms' = [ms EXCEPT ![cur].status = "ready"]
    /\ action' = "start-milestone"
    /\ pc' = CASE cmd = "plan"   -> "stop"
               [] cmd = "canary" -> "select"
               [] OTHER          -> "process"
    /\ cmd' = IF cmd = "canary" THEN "one" ELSE cmd
    /\ result' = "none"
    /\ UNCHANGED <<run, queue, active, required, pending, cur, tries, opening, world,
                   history>>

------------------------------------------------------------------------------
(* The loop of run.                                                          *)
Runnable(m) == ms[m].status \in {"ready"} \cup Worked

(* Mutant: the required consumer does not go first.                          *)
SelectableInAnyOrder(m) == Runnable(m)

(* The filter, and assertRequiredVerticalConsumerStart, which repeats it.    *)
Selectable(m) == required \in {None, m} /\ Runnable(m)

Maximum == IF cmd = "one" THEN 1 ELSE PerInvocation

FirstSelectable(m) ==
    \E i \in DOMAIN queue :
        /\ queue[i] = m /\ Selectable(m)
        /\ \A j \in 1 .. i - 1 : ~Selectable(queue[j])

Choose(m) == /\ pc' = "process" /\ cur' = m
             /\ UNCHANGED <<state, cmd, tries, opening, result, world, history>>

Select ==
    /\ pc = "select"
    /\ \/ run.status # "running" /\ Exit
       \/ run.status = "running" /\ run.processed >= Maximum /\ Goto("stop")
       \/ /\ run.status = "running" /\ run.processed < Maximum
          /\ \/ exhausted /\ Escalate(active)
             \/ ~exhausted /\ active # None /\ Choose(active)
             \/ /\ ~exhausted /\ active = None
                /\ \/ \E m \in Milestones : FirstSelectable(m) /\ Choose(m)
                   \/ /\ \A m \in Milestones : ~FirstSelectable(m)
                      /\ pc' = "plan" /\ tries' = 0
                      /\ UNCHANGED <<state, cmd, cur, opening, result, world, history>>

------------------------------------------------------------------------------
(* processMilestone: one turn of its loop for the current milestone.         *)
Here(status) == /\ pc = "process" /\ run.status = "running" /\ ~exhausted
                /\ ms[cur].status \in status

Leave ==
    /\ pc = "process"
    /\ \/ exhausted /\ run.status = "running" /\ Escalate(active)
       \/ run.status = "running" /\ ~exhausted /\ ms[cur].status \in Terminal
          /\ Goto("select")

(* beginAttempt publishes the attempt before the workspace exists.           *)
BeginAttempt ==
    /\ Here({"ready", "retrying"})
    /\ ms' = [ms EXCEPT ![cur].status = "running", ![cur].attempts = @ + 1]
    /\ active' = cur /\ action' = "resume-worker"
    /\ Continue("begun")
    /\ UNCHANGED <<run, queue, required, pending, world, history>>

CreateWorkspace ==
    /\ pc = "begun"
    /\ \/ ms[cur].workspace # "none" /\ Goto("install")
       \/ /\ ms[cur].workspace = "none"
          /\ pending' = Operation("workspace-create", cur, 0)
          /\ Continue("recover")
          /\ UNCHANGED <<run, ms, queue, active, required, action, world, history>>
       \/ ms[cur].workspace = "none" /\ Throw("infrastructure")

PrepareWorkspace ==
    /\ pc = "install"
    /\ Goto("process") \/ Throw("infrastructure")

(* runWorker, up to its intent.  Changes nobody has authorised, or a failed  *)
(* preflight, escalate; whatever else is missing is an infrastructure        *)
(* failure.                                                                  *)
ExternalChange(m) ==
    \/ tree[m] = Dirty
    \/ HasCommits(tree[m]) /\ ~ms[m].feedback

RunWorker ==
    /\ Here({"running"})
    /\ \/ Throw("infrastructure")
       \/ ms[cur].workspace = "present" /\ Escalate(cur)
       \/ /\ ms[cur].workspace = "present" /\ ~ExternalChange(cur)
          /\ action = "resume-worker"
          /\ pending' = Operation("candidate-prepare", cur, tree[cur])
          /\ Continue("recover")
          /\ UNCHANGED <<run, ms, queue, active, required, action, world, history>>

(* verify, as two publications; its exceptions end the run.                  *)
Verify ==
    /\ Here({"verifying"})
    /\ \/ Escalate(active)
       \/ \E r \in {"pass", "policy", "product", "infrastructure"} :
            /\ r = "pass" => HasCommits(tree[cur])
            /\ ms' = [ms EXCEPT ![cur].verdict = IF r = "pass" THEN tree[cur] ELSE 0]
            /\ result' = r /\ pc' = "verified"
            /\ UNCHANGED <<run, queue, active, required, action, pending, cmd, cur,
                           tries, opening, world, history>>

Verified ==
    /\ pc = "verified"
    /\ \/ /\ result = "pass"
          /\ ms' = [ms EXCEPT ![cur].status = "reviewing"]
          /\ run' = [run EXCEPT !.infra = 0] /\ action' = "review"
          /\ Continue("process")
          /\ UNCHANGED <<queue, active, required, pending, world, history>>
       \/ result = "policy" /\ Escalate(cur)
       \/ result \in Failure /\ Throw(result)

(* review: the reviewer judges the candidate that was verified.              *)
Review ==
    /\ Here({"reviewing"})
    /\ \/ Escalate(cur)
       \/ Throw("infrastructure")
       \/ /\ ms[cur].verdict # 0 /\ tree[cur] = ms[cur].verdict
          /\ \E r \in {"approve", "reject", "escalate"} :
               /\ approved' = IF r = "approve" THEN [approved EXCEPT ![cur] = tree[cur]]
                              ELSE approved
               /\ result' = r /\ pc' = "reviewed"
               /\ UNCHANGED <<state, cmd, cur, tries, opening, world, launches,
                              integrated>>

(* Mutant: a rejected candidate is reviewed again, without a new attempt.    *)
ReviewedAgain ==
    /\ pc = "reviewed"
    /\ \/ result = "escalate" /\ Escalate(cur)
       \/ result = "reject" /\ Goto("process")
       \/ result = "approve" /\ Goto("approved")

Reviewed ==
    /\ pc = "reviewed"
    /\ \/ result = "escalate" /\ Escalate(cur)
       \/ result = "reject" /\ Throw("review")
       \/ result = "approve" /\ Goto("approved")

(* Mutant: the workspace is not inspected again after the review.            *)
IntegrateWithoutInspection ==
    /\ pc = "approved"
    /\ pending' = Operation("target-integrate", cur, tree[cur])
    /\ Continue("recover")
    /\ UNCHANGED <<run, ms, queue, active, required, action, world, history>>

(* integrate, up to its intent: post-review and pre-integration inspection.  *)
Integrate ==
    /\ pc = "approved"
    /\ \/ tree[cur] # ms[cur].verdict /\ Escalate(cur)
       \/ Throw("infrastructure")
       \/ /\ tree[cur] = ms[cur].verdict /\ action = "review"
          /\ pending' = Operation("target-integrate", cur, tree[cur])
          /\ Continue("recover")
          /\ UNCHANGED <<run, ms, queue, active, required, action, world, history>>

------------------------------------------------------------------------------
(* retryOrEscalate: the failure is recorded first, then judged (decideRetry). *)
RecordFailure ==
    /\ pc = "failed"
    /\ ms' = [ms EXCEPT ![cur].feedback = TRUE]
    /\ run' = [run EXCEPT !.infra = IF result = "infrastructure" THEN @ + 1 ELSE 0]
    /\ Continue("decide")
    /\ UNCHANGED <<queue, active, required, action, pending, world, history>>

MayRetry ==
    /\ ms[cur].attempts < Attempts
    /\ result = "infrastructure" => run.infra < InfraLimit

Decide ==
    /\ pc = "decide"
    /\ \/ ~MayRetry /\ Escalate(cur)
       \/ /\ MayRetry
          /\ ms' = [ms EXCEPT ![cur].status = "retrying"]
          /\ action' = "retry"
          /\ Continue("process")
          /\ UNCHANGED <<run, queue, active, required, pending, world, history>>

------------------------------------------------------------------------------
(* Recovery of the pending operation, at once or by a later process.         *)
Recovering(kind, phase) ==
    /\ pc = "recover" /\ pending.kind = kind /\ pending.phase = phase

(* What cannot be resumed or adopted is preserved, and the process ends.     *)
Block ==
    /\ pc \in {"recover", "worker"} /\ pending.phase # "blocked"
    /\ pending' = [pending EXCEPT !.phase = "blocked"]
    /\ pc' = "down" /\ Idle
    /\ UNCHANGED <<run, ms, queue, active, required, action, world, history>>

CompleteCreate ==
    /\ Recovering("workspace-create", "intent-persisted")
    /\ LET m == pending.milestone
       IN  /\ ms' = [ms EXCEPT ![m].workspace = "present"]
           /\ tree' = [tree EXCEPT ![m] = 0]
    /\ pending' = NoOperation
    /\ AfterRecovery("install")
    /\ UNCHANGED <<run, queue, active, required, action, exhausted, crashes, drifts,
                   history>>

(* Mutant: a Worker whose outcome is unknown is launched again.              *)
LaunchAgain ==
    /\ pc = "recover" /\ pending.kind = "candidate-prepare"
    /\ pending.phase \in {"intent-persisted", "worker-invocation-started"}
    /\ ~exhausted
    /\ pending' = [pending EXCEPT !.phase = "worker-invocation-started"]
    /\ launches' = [launches EXCEPT ![pending.milestone] = @ + 1]
    /\ Continue("worker")
    /\ UNCHANGED <<run, ms, queue, active, required, action, world, approved,
                   integrated>>

(* launchCandidateWorker.  A later process looks at the workspace again; the *)
(* limits are looked at first, and throw.                                    *)
Launch ==
    /\ Recovering("candidate-prepare", "intent-persisted")
    /\ opening => tree[pending.milestone] = pending.tree
    /\ \/ exhausted /\ Exit
       \/ /\ ~exhausted
          /\ pending' = [pending EXCEPT !.phase = "worker-invocation-started"]
          /\ launches' = [launches EXCEPT ![pending.milestone] = @ + 1]
          /\ Continue("worker")
          /\ UNCHANGED <<run, ms, queue, active, required, action, world, approved,
                         integrated>>

WorkerReturns ==
    /\ pc = "worker"
    /\ pending' = [pending EXCEPT !.phase = "worker-completed"]
    /\ Continue("recover")
    /\ UNCHANGED <<run, ms, queue, active, required, action, world, history>>

(* Checkpoint and completion: new content, or none.                          *)
CompletePrepare ==
    /\ Recovering("candidate-prepare", "worker-completed")
    /\ LET m == pending.milestone
       IN  /\ \E t \in {ms[m].attempts} \cup ({tree[m]} \ {Dirty}) :
                tree' = [tree EXCEPT ![m] = t]
           /\ ms' = [ms EXCEPT ![m].status = "verifying", ![m].feedback = FALSE]
    /\ action' = "verify" /\ pending' = NoOperation
    /\ AfterRecovery("process")
    /\ UNCHANGED <<run, queue, active, required, exhausted, crashes, drifts,
                   history>>

(* completeTargetIntegrateOperation; requiredVerticalConsumerAfterCompletion. *)
RequiredAfter(m) ==
    IF Consumer[m] # None THEN Consumer[m]
    ELSE IF required = m THEN None ELSE required

(* validateOrchestratorState: what is still to be consumed has not ended.    *)
Publishable(m) ==
    RequiredAfter(m) # None => ms[RequiredAfter(m)].status # "completed"

RemoveAt(s, i) == SubSeq(s, 1, i - 1) \o SubSeq(s, i + 1, Len(s))

CompleteIntegration ==
    /\ Recovering("target-integrate", "intent-persisted")
    /\ integrated' = [integrated EXCEPT ![pending.milestone] = pending.tree]
    /\ UNCHANGED <<world, launches, approved>>
    /\ LET m == pending.milestone
       IN  \/ ~Publishable(m) /\ pc' = "down" /\ Idle /\ UNCHANGED state
           \/ /\ Publishable(m)
              /\ \E i \in DOMAIN queue : queue[i] = m /\ queue' = RemoveAt(queue, i)
              /\ \E status \in {run.status, "stopped"} :
                    run' = [run EXCEPT !.status = status, !.processed = @ + 1]
              /\ ms' = [ms EXCEPT ![m].status = "completed"]
              /\ active' = None /\ required' = RequiredAfter(m)
              /\ action' = "plan" /\ pending' = NoOperation
              /\ AfterRecovery("ended")

CompleteCleanup ==
    /\ Recovering("workspace-cleanup", "intent-persisted")
    /\ ms' = [ms EXCEPT ![pending.milestone].workspace = "settled"]
    /\ pending' = NoOperation
    /\ AfterRecovery("select")
    /\ UNCHANGED <<run, queue, active, required, action, world, history>>

Recover ==
    \/ Block \/ CompleteCreate \/ Launch \/ WorkerReturns \/ CompletePrepare
    \/ CompleteIntegration \/ CompleteCleanup

------------------------------------------------------------------------------
Crash ==
    /\ pc # "down" /\ crashes < MaxCrashes /\ crashes' = crashes + 1
    /\ pc' = "down" /\ Idle
    /\ UNCHANGED <<state, tree, exhausted, drifts, history>>

(* Somebody commits to a workspace, or edits in it.                          *)
Drift ==
    /\ drifts < MaxDrifts /\ drifts' = drifts + 1
    /\ \E m \in Milestones, t \in {Outside, Dirty} :
          ms[m].workspace = "present" /\ tree' = [tree EXCEPT ![m] = t]
    /\ UNCHANGED <<state, process, exhausted, crashes, history>>

(* Time passes, or tokens are used.                                          *)
ReachLimit ==
    /\ run.status = "running" /\ ~exhausted /\ exhausted' = TRUE
    /\ UNCHANGED <<state, process, tree, crashes, drifts, history>>

Controller ==
    \/ Start \/ Open \/ StartRun \/ PlanRetention \/ PlanOnly \/ Enqueue \/ Plan
    \/ Approve \/ Select \/ Leave \/ BeginAttempt \/ CreateWorkspace \/ PrepareWorkspace
    \/ RunWorker \/ Verify \/ Verified \/ Review \/ Reviewed \/ Integrate
    \/ RecordFailure \/ Decide \/ Recover \/ Ended \/ Stop

Next == Controller \/ Crash \/ Drift \/ ReachLimit

Spec     == Init /\ [][Next]_vars

(* Somebody keeps running the commands, and not only the canary.             *)
FairSpec == Spec /\ WF_vars(Controller) /\ SF_vars(Start /\ cmd' # "canary")

------------------------------------------------------------------------------
StateTyped ==
    /\ run \in [status : RunStatus, processed : Nat, infra : Nat]
    /\ ms \in [Milestones -> Milestone]
    /\ queue \in Seq(Milestones)
    /\ active \in Milestones \cup {None} /\ required \in Milestones \cup {None}
    /\ action \in Action

PendingTyped ==
    /\ pending \in [kind : Kind \cup {"none"}, milestone : Milestones \cup {None},
                     tree : Tree,
                     phase : {"none", "intent-persisted", "worker-invocation-started",
                              "worker-completed", "blocked"}]
    /\ pending.kind # "none" => pending.milestone \in Milestones

ProcessTyped ==
    /\ pc \in Stage /\ cmd \in Command /\ cur \in Milestones \cup {None}
    /\ tries \in 0 .. PlannerAttempts /\ opening \in BOOLEAN
    /\ result \in {"none", "pass", "policy", "approve", "reject", "escalate"} \cup Failure

WorldTyped ==
    /\ tree \in [Milestones -> Tree] /\ exhausted \in BOOLEAN
    /\ crashes \in Nat /\ drifts \in Nat
    /\ launches \in [Milestones -> Nat]
    /\ approved \in [Milestones -> Tree] /\ integrated \in [Milestones -> Tree]

TypeOK == StateTyped /\ PendingTyped /\ ProcessTyped /\ WorldTyped

(* A Worker is launched at most once for an attempt, and attempts are        *)
(* bounded, whatever crashes (beginAttempt, launchCandidateWorker).          *)
WorkerOncePerAttempt ==
    \A m \in Milestones : launches[m] <= ms[m].attempts /\ ms[m].attempts <= Attempts

(* One milestone is worked on at a time, and an operation that is pending    *)
(* for it finds the context its reducers and the schema demand.              *)
OneAtATime ==
    /\ \A m \in Milestones : ms[m].status \in Worked => active = m
    /\ pending.kind \in Kind \ {"workspace-cleanup"} => pending.milestone = active

(* The target moves only to a candidate that the machine verified and a      *)
(* reviewer approved as it is (verify, review, integrate).                   *)
IntegratedSurvivedGates ==
    \A m \in Milestones : integrated[m] # 0 =>
        /\ integrated[m] = approved[m]
        /\ integrated[m] = ms[m].verdict

(* A milestone that an exception owes to its consumer is the next one begun  *)
(* (run, assertRequiredVerticalConsumerStart).                               *)
RequiredConsumerNext ==
    required # None =>
        /\ ms[required].status # "completed"
        /\ \A m \in Milestones : ms[m].status \in Worked => m = required

(* A run that was started ends, or an operation cannot be decided: it is     *)
(* blocked for an operator, the limits of the run forbid the Worker's        *)
(* launch, or the completion is not publishable.                             *)
Stuck ==
    /\ pending.kind # "none"
    /\ \/ pending.phase = "blocked"
       \/ pending.kind = "candidate-prepare" /\ pending.phase = "intent-persisted"
          /\ exhausted
       \/ pending.kind = "target-integrate" /\ ~Publishable(pending.milestone)

EveryRunEnds == (run.status = "running") ~> (run.status # "running" \/ Stuck)

(* Leased startup completes a pending integration or blocks it               *)
(* (README.md:243, 409-419).                                                 *)
IntegrationDecided ==
    (pending.kind = "target-integrate") ~>
        (pending.kind # "target-integrate" \/ pending.phase = "blocked")
=============================================================================
