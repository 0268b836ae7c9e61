--------------------------- MODULE CandidatePrepare ---------------------------
(***************************************************************************)
(* Recoverable candidate preparation (candidate-prepare.ts; the driver is    *)
(* runWorker and recoverPendingCandidatePrepare in orchestrator.ts).         *)
(*                                                                           *)
(* The Worker changes an isolated workspace; the controller then stages the  *)
(* result, publishes a plan of the checkpoint commit, commits, and publishes *)
(* the result with its evidence.  A Worker is never launched twice for one   *)
(* attempt: once the gateway was entered, only a durable completion lets a   *)
(* later process go on.  The Worker is a process of its own, and may outlive *)
(* the controller that launched it.                                          *)
(***************************************************************************)
EXTENDS Naturals

CONSTANT MaxFaults      \* bound on crashes, failing calls and outside changes

VARIABLES
    durable,    \* phase of the operation in the published state
    head,       \* commit of the workspace branch
    headTree,   \* its tree
    index,      \* what is staged
    work,       \* what is in the worktree
    bound,      \* what the intent binds: intact, or what drifted
    turn,       \* worker-turn.json
    checkpoint, \* controller-checkpoint.json
    plan,       \* the checkpoint plan: drafted, and from checkpoint-prepared on published
    result,     \* the published checkpoint result
    worker,     \* the Worker process
    launches,   \* history: how often the gateway was entered
    expired,    \* the run's deadline, invocation or token limit is reached
    pc,         \* where the controller process is
    fresh,      \* this process published the intent itself
    faults,     \* faults so far
    disturbed,  \* history: something but a clean crash or a failed call happened
    raced       \* history: outsiders acted while a controller process ran

treeVars     == <<head, headTree, index, work>>
evidenceVars == <<turn, checkpoint>>
planVars     == <<plan, result>>
workerVars   == <<worker, launches>>
faultVars    == <<faults, disturbed, raced>>
vars == <<durable, treeVars, bound, evidenceVars, planVars, workerVars, expired, pc, fresh,
          faultVars>>

Uncertain == {"worker-invocation-started", "worker-thread-recorded"}
Active == {"intent-persisted", "worker-completed", "worker-evidence-recorded",
           "checkpoint-prepared", "checkpoint-committed", "checkpoint-recorded"} \cup Uncertain
Phase  == {"none", "escalated"} \cup Active \cup {"completed", "blocked"}

Commit  == {"start", "worker", "checkpoint", "alien", "unrelated"}
Content == {"start", "result", "other", "banned"}   \* "banned": the diff policy refuses it
File    == {"absent", "exact", "conflict"}
Binding == {"ok", "identity", "evidence-path", "context", "protected-file"}

NoPlan   == [parent |-> "unrelated", tree |-> "banned", commit |-> FALSE]
Plan     == [parent : Commit, tree : Content, commit : BOOLEAN]
NoResult == [commit |-> "unrelated", tree |-> "banned"]
Result   == [commit : Commit, tree : Content]

Stage == {"down", "inspect", "blocking", "launch", "gateway", "running", "failed",
          "first-turn", "turn", "record", "plan", "stage", "prepare", "commit",
          "committing", "adopt", "evidence", "recorded", "complete"}

Clean  == headTree = index /\ index = work
Banned == "banned" \in {headTree, index, work}

------------------------------------------------------------------------------
Init ==
    /\ durable = "none" /\ pc = "down" /\ fresh = FALSE
    /\ head = "start" /\ headTree = "start" /\ index = "start" /\ work = "start"
    /\ bound = "ok" /\ turn = "absent" /\ checkpoint = "absent"
    /\ plan = NoPlan /\ result = NoResult
    /\ worker = "idle" /\ launches = 0 /\ expired = FALSE
    /\ faults = 0 /\ disturbed = FALSE /\ raced = FALSE

Fault == faults < MaxFaults /\ faults' = faults + 1

Goto(stage) == pc' = stage

Still == UNCHANGED <<treeVars, bound, evidenceVars, planVars, workerVars, expired, fresh,
                     disturbed, raced>>

(* A step that only looks, and decides where to go; what throws ends the     *)
(* command, since the recovery loop has no handler.                          *)
Look(stage) == Goto(stage) /\ Still /\ UNCHANGED <<durable, faults>>

(* persist: refused, published, or published and then failing, after which   *)
(* this process can publish nothing more.                                    *)
Publish(phase, stage, refused) ==
    \/ durable' = phase /\ Goto(stage) /\ UNCHANGED faults
    \/ Fault /\ durable' = phase /\ Goto("down")
    \/ Fault /\ UNCHANGED durable /\ Goto(refused)

Persist(phase, stage) == Publish(phase, stage, "down") /\ Still

(* persist inside the gateway, whose handler turns a refusal into a block.   *)
PersistInGateway(phase, stage) == Publish(phase, stage, "failed") /\ Still

------------------------------------------------------------------------------
(* Mutant: a Worker that may have been launched is launched again.           *)
UnchangedRelaunching ==
    durable \in {"intent-persisted", "worker-invocation-started"}
        /\ head = "start" /\ Clean

(* The candidate is exactly the one the intent was published for.            *)
Unchanged == durable = "intent-persisted" /\ head = "start" /\ Clean

(* Mutant: the commit of a process that died is not recognised.              *)
AdoptableUncommitted == ~plan.commit /\ Clean /\ headTree = plan.tree /\ head = plan.parent

(* The planned commit, or the Worker's own when none was needed.             *)
Adoptable ==
    /\ Clean /\ headTree = plan.tree
    /\ head = IF plan.commit THEN "checkpoint" ELSE plan.parent

Committable ==
    plan.commit /\ head = plan.parent /\ index = plan.tree /\ work = index /\ index # headTree

(* Mutant: the recorded commit is enough, whatever is in the worktree.       *)
ResultByCommit == result.commit = head

ResultStands == Clean /\ result = [commit |-> head, tree |-> headTree]

(* The workspace is no longer within what the intent binds.                  *)
Drifted == bound # "ok" \/ head = "unrelated" \/ Banned

(* inspectCandidatePrepareOperation: the next safe action, or a block.       *)
NextSafeAction ==
    IF Drifted THEN "blocking"
    ELSE IF Unchanged THEN "launch"
    ELSE CASE durable = "worker-completed" /\ turn # "conflict" ->
                IF turn = "absent" THEN "turn" ELSE "record"
           [] durable = "worker-evidence-recorded" /\ turn = "exact" -> "plan"
           [] durable = "checkpoint-prepared" /\ turn = "exact" ->
                IF Adoptable THEN "adopt" ELSE IF Committable THEN "commit" ELSE "blocking"
           [] durable = "checkpoint-committed" /\ turn = "exact"
                  /\ ResultStands /\ checkpoint # "conflict" ->
                IF checkpoint = "absent" THEN "evidence" ELSE "recorded"
           [] durable = "checkpoint-recorded" /\ turn = "exact"
                  /\ ResultStands /\ checkpoint = "exact" -> "complete"
           [] OTHER -> "blocking"

------------------------------------------------------------------------------
Unowned == bound = "evidence-path" \/ turn # "absent" \/ checkpoint # "absent"

(* runWorker: a clean workspace without commits or leftovers of evidence is  *)
(* bound to a new intent; the Worker is then launched without another look.  *)
PublishIntent ==
    /\ pc = "down" /\ durable = "none"
    /\ Clean /\ head = "start" /\ ~expired /\ ~Unowned
    /\ Publish("intent-persisted", "launch", "down")
    /\ fresh' = TRUE
    /\ UNCHANGED <<treeVars, bound, evidenceVars, planVars, workerVars, expired, disturbed,
                   raced>>

(* Changes or evidence without an intent are escalated and preserved.        *)
EscalateUnowned ==
    /\ pc = "down" /\ durable = "none"
    /\ ~Clean \/ head # "start" \/ (~expired /\ Unowned)
    /\ Persist("escalated", "down")

(* A later command opens the store and finds the operation; a plan that was  *)
(* not published is lost.                                                    *)
Restart ==
    /\ pc = "down" /\ durable \in Active
    /\ fresh' = FALSE /\ raced' = FALSE
    /\ plan' = IF durable \in {"checkpoint-prepared", "checkpoint-committed",
                               "checkpoint-recorded"} THEN plan ELSE NoPlan
    /\ Goto("inspect")
    /\ UNCHANGED <<durable, treeVars, bound, evidenceVars, result, workerVars, expired,
                   faults, disturbed>>

(* Top of the recovery loop.                                                 *)
Inspect == pc = "inspect" /\ Look(NextSafeAction)

(* accountingGateway: the limits are checked, and the launch is published    *)
(* before the gateway is entered.                                            *)
BeginInvocation ==
    /\ pc = "launch"
    /\ IF expired THEN Look("down") ELSE Persist("worker-invocation-started", "gateway")

Launch ==
    /\ pc = "gateway"
    /\ worker' = "running" /\ launches' = launches + 1
    /\ Goto("running")
    /\ UNCHANGED <<durable, treeVars, bound, evidenceVars, planVars, expired, fresh, faultVars>>

RecordThread ==
    /\ pc = "running" /\ durable = "worker-invocation-started"
    /\ PersistInGateway("worker-thread-recorded", "running")

(* The turn ends, by its own or at its timeout.                              *)
WorkerReturns ==
    /\ pc = "running" /\ worker = "running"
    /\ worker' = "done"
    /\ UNCHANGED <<durable, treeVars, bound, evidenceVars, planVars, launches, expired, pc,
                   fresh, faultVars>>

RecordCompletion ==
    /\ pc = "running" /\ worker = "done"
    /\ PersistInGateway("worker-completed", IF fresh THEN "first-turn" ELSE "inspect")

GatewayFails == pc = "running" /\ Look("failed")

(* The handler of the gateway: the outcome is ambiguous.  It reads HEAD for  *)
(* the diagnostic, and fails with it.                                        *)
BlockAmbiguous ==
    pc = "failed" /\ (Persist("blocked", "down") \/ (bound = "identity" /\ Look("down")))

(* atomicWriteJson of worker-turn.json; the process that launched the Worker *)
(* does not look what is there.                                              *)
WriteTurn ==
    /\ pc \in {"first-turn", "turn"}
    /\ IF bound = "evidence-path" THEN Look("down")
       ELSE /\ turn' = "exact"
            /\ Goto(IF pc = "turn" THEN "record" ELSE "inspect")
            /\ UNCHANGED <<durable, treeVars, bound, checkpoint, planVars, workerVars,
                           expired, fresh, faultVars>>

RecordEvidence == pc = "record" /\ Persist("worker-evidence-recorded", "plan")

(* prepareCandidateCheckpointPlan, up to the staging: everything staged or   *)
(* changed is to be committed; a clean workspace is taken as it is.          *)
PlanCheckpoint ==
    /\ pc = "plan"
    /\ IF bound \in {"identity", "protected-file"} \/ Banned THEN Look("down")
       ELSE /\ plan' = [parent |-> head, tree |-> headTree, commit |-> ~Clean]
            /\ Goto(IF Clean THEN "prepare" ELSE "stage")
            /\ UNCHANGED <<durable, treeVars, bound, evidenceVars, result, workerVars,
                           expired, fresh, faultVars>>

(* stageWorkingChanges; nothing staged is an error.                          *)
StageChanges ==
    /\ pc = "stage"
    /\ index' = work
    /\ plan' = [plan EXCEPT !.tree = work]
    /\ Goto(IF work = headTree THEN "down" ELSE "prepare")
    /\ UNCHANGED <<durable, head, headTree, work, bound, evidenceVars, result, workerVars,
                   expired, fresh, faultVars>>

(* Mutant: the commit comes before the plan.                                 *)
PublishPlanLate == pc = "prepare" /\ Look(IF plan.commit THEN "committing" ELSE "adopt")

PublishPlan == pc = "prepare" /\ Persist("checkpoint-prepared", "inspect")

(* commitStagedChanges: parent and staged tree are compared with the plan ...*)
BeforeCommit ==
    /\ pc = "commit"
    /\ Look(IF head = plan.parent /\ index = plan.tree THEN "committing" ELSE "down")

(* ... before git commits what is staged on whatever HEAD is; a lock may     *)
(* stop it.                                                                  *)
CommitStaged ==
    /\ pc = "committing"
    /\ \/ (index = headTree \/ bound = "identity") /\ Look("down")
       \/ /\ index # headTree
          /\ head' = IF head = plan.parent THEN "checkpoint" ELSE "alien"
          /\ headTree' = index
          /\ Goto("inspect")
          /\ UNCHANGED <<durable, index, work, bound, evidenceVars, planVars, workerVars,
                         expired, fresh, faultVars>>

(* resultFromWorkspace reads the workspace once more, for the published      *)
(* result, which the state schema admits only for a clean one.               *)
Adopt ==
    /\ pc = "adopt"
    /\ IF ~Clean THEN Look("down")
       ELSE /\ Publish("checkpoint-committed", "evidence", "down")
            /\ result' = IF durable' = durable THEN result
                         ELSE [commit |-> head, tree |-> headTree]
            /\ UNCHANGED <<treeVars, bound, evidenceVars, plan, workerVars, expired, fresh,
                           disturbed, raced>>

WriteCheckpoint ==
    /\ pc = "evidence"
    /\ IF bound = "evidence-path" THEN Look("down")
       ELSE /\ checkpoint' = "exact" /\ Goto("recorded")
            /\ UNCHANGED <<durable, treeVars, bound, turn, planVars, workerVars, expired,
                           fresh, faultVars>>

RecordCheckpoint == pc = "recorded" /\ Persist("checkpoint-recorded", "complete")

(* completeCandidatePrepareOperation: verification may begin.                *)
Complete == pc = "complete" /\ Persist("completed", "down")

(* blockCandidatePrepare; a published block ends the command.                *)
Block == pc = "blocking" /\ Persist("blocked", "down")

------------------------------------------------------------------------------
(* The Worker edits the worktree, or commits what it has.                    *)
WorkerWrites ==
    /\ worker = "running"
    /\ \/ work' \in {"start", "result", "banned"} /\ UNCHANGED <<head, headTree, index>>
       \/ /\ work # headTree /\ head' = "worker"
          /\ headTree' = work /\ index' = work /\ UNCHANGED work
    /\ UNCHANGED <<durable, bound, evidenceVars, planVars, workerVars, expired, pc, fresh,
                   faultVars>>

(* The controller dies between two steps; a running Worker goes on.          *)
Crash ==
    /\ pc # "down" /\ Fault /\ Goto("down") /\ Still /\ UNCHANGED durable

(* It dies inside git, whose lock stays behind.                              *)
TearGit ==
    /\ pc \in {"stage", "committing"} /\ Fault /\ disturbed' = TRUE
    /\ bound' = "identity" /\ Goto("down")
    /\ UNCHANGED <<durable, treeVars, evidenceVars, planVars, workerVars, expired, fresh, raced>>

(* Someone else edits, stages or commits in the workspace, changes what the  *)
(* intent is bound to, or the evidence.                                      *)
Drift ==
    /\ Fault /\ disturbed' = TRUE /\ raced' = (raced \/ pc # "down")
    /\ \/ /\ work' \in {"other", "banned"} /\ index' \in {index, work'}
          /\ UNCHANGED <<head, headTree, bound, evidenceVars>>
       \/ /\ head # "alien" /\ head' \in {"alien", "unrelated"}
          /\ headTree' = "other" /\ index' = "other" /\ work' \in {work, "other"}
          /\ UNCHANGED <<bound, evidenceVars>>
       \/ bound' \in Binding /\ (bound' = "context" => durable # "none")
          /\ UNCHANGED <<treeVars, evidenceVars>>
       \/ turn' \in {"absent", "conflict"} /\ UNCHANGED <<treeVars, bound, checkpoint>>
       \/ checkpoint' \in {"absent", "conflict"} /\ UNCHANGED <<treeVars, bound, turn>>
    /\ UNCHANGED <<durable, planVars, workerVars, expired, pc, fresh>>

LimitReached ==
    /\ ~expired /\ expired' = TRUE
    /\ UNCHANGED <<durable, treeVars, bound, evidenceVars, planVars, workerVars, pc, fresh,
                   faultVars>>

Controller ==
    \/ PublishIntent \/ EscalateUnowned \/ Restart \/ Inspect \/ BeginInvocation \/ Launch
    \/ RecordThread \/ WorkerReturns \/ RecordCompletion \/ GatewayFails \/ BlockAmbiguous \/ WriteTurn
    \/ RecordEvidence \/ PlanCheckpoint \/ StageChanges \/ PublishPlan \/ BeforeCommit
    \/ CommitStaged \/ Adopt \/ WriteCheckpoint \/ RecordCheckpoint \/ Complete \/ Block

Environment == WorkerWrites \/ Crash \/ TearGit \/ Drift \/ LimitReached

Next == Controller \/ Environment

Spec == Init /\ [][Next]_vars

(* Someone keeps running the command, and a turn ends at its timeout.        *)
FairSpec == Spec /\ WF_vars(Controller)

------------------------------------------------------------------------------
TypeOK ==
    /\ durable \in Phase /\ pc \in Stage /\ fresh \in BOOLEAN
    /\ head \in Commit /\ headTree \in Content /\ index \in Content /\ work \in Content
    /\ bound \in Binding /\ turn \in File /\ checkpoint \in File
    /\ plan \in Plan /\ result \in Result
    /\ worker \in {"idle", "running", "done"} /\ launches \in Nat /\ expired \in BOOLEAN
    /\ faults \in Nat /\ disturbed \in BOOLEAN /\ raced \in BOOLEAN

(* However often the controller dies and is run again, whoever interferes,   *)
(* the gateway is entered once at most.                                      *)
OneLaunch == launches <= 1

Planned == [commit |-> IF plan.commit THEN "checkpoint" ELSE plan.parent, tree |-> plan.tree]

Authorised ==
    ~raced =>
        /\ CommitStaged /\ head' # head =>
             /\ durable = "checkpoint-prepared" /\ worker = "done"
             /\ head = plan.parent /\ headTree' = plan.tree /\ headTree' # "banned"
        /\ Adopt /\ durable' # durable => result' = Planned

(* Unless outsiders acted while that process ran, the controller commits     *)
(* only what a published plan authorises, on the planned parent, within the  *)
(* diff policy, and after the Worker has ended - an orphaned one may still   *)
(* be writing; and it publishes as the result only what was planned.         *)
CheckpointAuthorised == [][Authorised]_vars

CompletesTrue ==
    ~raced /\ durable' = "completed" /\ durable # "completed" =>
        /\ Clean /\ ~Banned /\ bound = "ok"
        /\ result = [commit |-> head, tree |-> headTree]
        /\ turn = "exact" /\ checkpoint = "exact"
        /\ launches = 1 /\ worker = "done"

(* Verification begins only on a clean candidate that is the published       *)
(* result, with both evidence files exact, within the policy, in the bound   *)
(* context, after one Worker turn that has ended; unless outsiders acted     *)
(* while that process ran.                                                   *)
CompletionIsTrue == [][CompletesTrue]_vars

BlocksForCause ==
    durable' = "blocked" /\ durable # "blocked" =>
        disturbed \/ durable \in Uncertain \/ Banned

(* Only an unknown outcome of the Worker, its forbidden output, or somebody  *)
(* else's change blocks: a crash at any other point is recovered from.       *)
NoNeedlessBlock == [][BlocksForCause]_vars
==============================================================================
