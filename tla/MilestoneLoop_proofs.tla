------------------------ MODULE MilestoneLoop_proofs ------------------------
(***************************************************************************)
(* Type correctness and the safety invariants of MilestoneLoop, for every  *)
(* set of milestones and every value of the limits and bounds.  All four   *)
(* follow from one inductive invariant, Inductive: the types, where the    *)
(* process is in the loop and what is then pending, and per property the   *)
(* part that is missing to make it inductive.  One lemma per part shows    *)
(* that a step keeps it, by cases on the action.                           *)
(***************************************************************************)
EXTENDS MilestoneLoop, TLAPS

(* Stages in which the process has a milestone in hand, and those in which   *)
(* an attempt of it is under way.                                            *)
InAttempt == {"begun", "install", "verified", "reviewed", "approved", "failed",
              "decide"}
AtWork    == InAttempt \cup {"approve", "process"}

(* Where the process is tells what is pending, and in whose hands it is.     *)
Located ==
    /\ pc \in AtWork => cur \in Milestones
    /\ pc \notin {"down", "open", "recover", "worker"} => pending.kind = "none"
    /\ pc \in {"recover", "worker"} => pending.kind # "none"
    /\ pc = "worker" => pending.kind = "candidate-prepare"
    /\ pc = "open" => opening
    /\ pc = "plan-only" => cmd = "plan"
    /\ pc = "enqueue" => cmd = "canary"
    /\ (/\ pc \in {"recover", "worker"} /\ ~opening
        /\ pending.kind # "workspace-cleanup")
          => cur = pending.milestone

(* An attempt is begun only where one is left.                               *)
Counted ==
    /\ \A m \in Milestones :
          /\ ms[m].attempts <= Attempts
          /\ ms[m].status \in {"absent", "proposed", "ready"}
                => ms[m].attempts = 0
          /\ ms[m].status = "retrying" => ms[m].attempts < Attempts
    /\ pc = "approve" => ms[cur].status = "proposed"

(* The milestone in hand, the active one and the one an operation is         *)
(* pending for are the same, and its status tells which operation that is.   *)
InCharge ==
    /\ OneAtATime
    /\ pc \in InAttempt => ms[cur].status \in Worked
    /\ pc = "begun" => ms[cur].status = "running"
    /\ pc \in {"reviewed", "approved"} => ms[cur].status = "reviewing"
    /\ pc = "process" => active \in {None, cur}
    /\ pc \in {"plan", "approve"} /\ cmd \in {"run", "one"} => active = None
    /\ pending.kind \in {"workspace-create", "candidate-prepare"}
          => ms[pending.milestone].status = "running"
    /\ pending.kind = "target-integrate"
          => ms[pending.milestone].status = "reviewing"

(* A run goes on only while its active milestone does.                       *)
RunGoesOn ==
    /\ active # None => ms[active].status \in Worked \/ run.status = "escalated"
    /\ pc \in {"retention", "plan-only", "enqueue", "plan", "approve", "stop"}
          => run.status = "running"

(* A running attempt whose Worker has not been launched has a launch left.   *)
LaunchLeft ==
    \A m \in Milestones :
        /\ launches[m] <= ms[m].attempts
        /\ ms[m].status = "running" /\ launches[m] = ms[m].attempts
              => /\ pending.kind = "candidate-prepare" /\ pending.milestone = m
                 /\ pending.phase # "intent-persisted"

(* What is about to move the target passed both gates, and what moved it is  *)
(* never verified or reviewed again.                                         *)
Gated ==
    /\ IntegratedSurvivedGates
    /\ \A m \in Milestones : integrated[m] # 0 =>
          ms[m].status = "completed"
          \/ (pending.kind = "target-integrate" /\ pending.milestone = m)
    /\ pending.kind = "target-integrate" =>
          /\ pending.tree = approved[pending.milestone]
          /\ pending.tree = ms[pending.milestone].verdict
    /\ pc = "approved" \/ (pc = "reviewed" /\ result = "approve")
          => approved[cur] = ms[cur].verdict

(* The milestone in hand is not one that must wait for a consumer.           *)
Owed ==
    /\ RequiredConsumerNext
    /\ pc \in {"approve", "process"} => required \in {None, cur}

Inductive == /\ TypeOK /\ Located /\ Counted /\ InCharge /\ RunGoesOn
             /\ LaunchLeft /\ Gated /\ Owed

(* A step that gives a milestone up.                                         *)
Escalation == /\ pc \notin {"down", "open", "recover", "worker"}
              /\ \E m \in Milestones \cup {None} : Escalate(m)

------------------------------------------------------------------------------
(* What the constants give.                                                  *)
LEMMA Trees ==
    /\ 0 \in Tree /\ Outside \in Tree /\ Dirty \in Tree
    /\ \A k \in Nat : k <= Attempts => k \in Tree
BY LoopAssumption DEF Tree, Outside, Dirty

(* The limits are positive, and the planner's counts up to it.               *)
LEMMA Limits ==
    /\ None \notin Milestones
    /\ Attempts \in Nat \ {0} /\ PlannerAttempts \in Nat
    /\ 0 \in 0 .. PlannerAttempts
    /\ \A k \in 0 .. PlannerAttempts :
          k < PlannerAttempts => k + 1 \in 0 .. PlannerAttempts
BY LoopAssumption

(* The statuses the reducers write.                                          *)
LEMMA Statuses ==
    /\ "proposed" \in Status /\ "ready" \in Status /\ "running" \in Status
    /\ "verifying" \in Status /\ "reviewing" \in Status /\ "retrying" \in Status
    /\ "completed" \in Status /\ "escalated" \in Status
BY DEF Status, Worked, Terminal

(* What a completion leaves required is a milestone or nothing, and never    *)
(* the one that completes.                                                   *)
LEMMA RequiredTyped ==
    ASSUME NEW m \in Milestones, required \in Milestones \cup {None}
    PROVE  RequiredAfter(m) \in Milestones \cup {None} /\ RequiredAfter(m) # m
<1>1. Consumer[m] \in Milestones \cup {None} /\ Consumer[m] # m /\ None # m
  BY LoopAssumption
<1> QED BY <1>1 DEF RequiredAfter

------------------------------------------------------------------------------
(* Updates of a milestone record, of the run and of the count of launches    *)
(* keep them typed.                                                          *)
LEMMA SetStatus ==
    ASSUME StateTyped, NEW m \in Milestones, NEW s \in Status
    PROVE  [ms EXCEPT ![m].status = s] \in [Milestones -> Milestone]
BY DEF StateTyped, Milestone

(* So does the verdict of a verification.                                    *)
LEMMA SetVerdict ==
    ASSUME StateTyped, NEW m \in Milestones, NEW t \in Tree
    PROVE  [ms EXCEPT ![m].verdict = t] \in [Milestones -> Milestone]
BY DEF StateTyped, Milestone

(* So does what becomes of the workspace.                                    *)
LEMMA SetWorkspace ==
    ASSUME StateTyped, NEW m \in Milestones, NEW w \in {"present", "settled"}
    PROVE  [ms EXCEPT ![m].workspace = w] \in [Milestones -> Milestone]
BY DEF StateTyped, Milestone

(* So does the feedback of a failure.                                        *)
LEMMA SetFeedback ==
    ASSUME StateTyped, NEW m \in Milestones
    PROVE  [ms EXCEPT ![m].feedback = TRUE] \in [Milestones -> Milestone]
BY DEF StateTyped, Milestone

(* So does beginAttempt.                                                     *)
LEMMA SetBegun ==
    ASSUME StateTyped, NEW m \in Milestones
    PROVE  [ms EXCEPT ![m].status = "running", ![m].attempts = @ + 1]
               \in [Milestones -> Milestone]
<1>1. ms[m] \in Milestone /\ ms[m].attempts + 1 \in Nat
  BY DEF StateTyped, Milestone
<1>2. [ms[m] EXCEPT !.status = "running", !.attempts = @ + 1] \in Milestone
  BY <1>1, Statuses DEF Milestone
<1> QED BY <1>2 DEF StateTyped

(* So does completeCandidatePrepareOperation.                                *)
LEMMA SetPrepared ==
    ASSUME StateTyped, NEW m \in Milestones
    PROVE  [ms EXCEPT ![m].status = "verifying", ![m].feedback = FALSE]
               \in [Milestones -> Milestone]
BY Statuses DEF StateTyped, Milestone

(* So does the count of milestones a run processed.                          *)
LEMMA RunProcessed ==
    ASSUME run \in [status : RunStatus, processed : Nat, infra : Nat],
           NEW st \in RunStatus
    PROVE  [run EXCEPT !.status = st, !.processed = @ + 1]
               \in [status : RunStatus, processed : Nat, infra : Nat]
<1>1. run.processed + 1 \in Nat OBVIOUS
<1> QED BY <1>1

(* A new status leaves everything else as it was.                            *)
LEMMA StatusOnly ==
    ASSUME StateTyped, NEW c \in Milestones, NEW s,
           ms' = [ms EXCEPT ![c].status = s]
    PROVE  /\ ms'[c].status = s
           /\ \A m \in Milestones : m # c => ms'[m].status = ms[m].status
           /\ \A m \in Milestones : /\ ms'[m].attempts = ms[m].attempts
                                    /\ ms'[m].verdict = ms[m].verdict
BY DEF StateTyped, Milestone

(* A launch is counted for one milestone.                                    *)
LEMMA OneLaunch ==
    ASSUME launches \in [Milestones -> Nat], NEW c \in Milestones,
           launches' = [launches EXCEPT ![c] = @ + 1]
    PROVE  /\ launches' \in [Milestones -> Nat]
           /\ launches'[c] = launches[c] + 1
           /\ \A m \in Milestones : m # c => launches'[m] = launches[m]
OBVIOUS

(* A milestone that has not been completed changes its status without harm   *)
(* to the gates, outside review and integration.                             *)
LEMMA GatedStatus ==
    ASSUME StateTyped, Gated, NEW c \in Milestones, NEW s,
           ms' = [ms EXCEPT ![c].status = s], ms[c].status # "completed",
           UNCHANGED <<pending, approved, integrated>>, pending.kind = "none",
           pc' \notin {"approved", "reviewed"}
    PROVE  Gated'
<1>1. integrated[c] = 0 BY DEF Gated
<1> QED BY <1>1, StatusOnly DEF Gated, IntegratedSurvivedGates

(* What openLeased leads to.                                                 *)
LEMMA OpenCases ==
    ASSUME Inductive, Open
    PROVE  /\ UNCHANGED <<run, ms, active, required, launches, approved,
                          integrated>>
           /\ \/ UNCHANGED pending /\ pc' = "down"
              \/ /\ UNCHANGED pending /\ pc' = "recover" /\ opening'
                 /\ pending.kind # "none"
              \/ UNCHANGED pending /\ pc' = "start" /\ pending.kind = "none"
              \/ /\ pending'.kind = "workspace-cleanup" /\ pc' = "recover"
                 /\ opening' /\ pending.kind = "none"
<1> USE DEF Inductive, Located, state, process, world, history
<1>1. CASE pending.kind # "none" BY <1>1 DEF Open, Exit, Goto, Idle
<1>2. CASE pending.kind = "none" /\ \E m \in Milestones : CleanUp(m)
  BY <1>2 DEF Open, CleanUp, Continue, Operation, NeedsCleanup
<1>3. CASE pending.kind = "none" /\ ~\E m \in Milestones : CleanUp(m)
  BY <1>3 DEF Open
<1> QED BY <1>1, <1>2, <1>3

(* What the command canary leads to.                                         *)
LEMMA EnqueueCases ==
    ASSUME Inductive, Enqueue
    PROVE  /\ UNCHANGED <<run, active, required, action, pending, world, history>>
           /\ tries' \in {tries, 0} /\ opening' \in {opening, FALSE}
           /\ run.status = "running" /\ pending.kind = "none"
           /\ \/ /\ UNCHANGED <<ms, queue>> /\ pc' \in {"down", "select"}
                 /\ cmd' \in Command /\ cur' \in {cur, None}
                 /\ result' \in {result, "none"}
              \/ /\ pc' = "approve" /\ cmd' = "canary" /\ cur' = Canary
                 /\ UNCHANGED result
                 /\ Canary \in Milestones /\ Acceptable(Canary)
                 /\ ms' = [ms EXCEPT ![Canary].status = "proposed"]
                 /\ queue' = Append(queue, Canary)
<1>1. Canary \in Milestones BY LoopAssumption
<1>2. cmd = "canary" /\ run.status = "running" /\ pending.kind = "none"
  BY DEF Enqueue, Inductive, Located, RunGoesOn
<1>3. CASE Acceptable(Canary) /\ pc' = "approve"
  BY <1>1, <1>2, <1>3 DEF Enqueue, Exit, Idle, state, world, history
<1>4. CASE ~(Acceptable(Canary) /\ pc' = "approve")
  BY <1>2, <1>4 DEF Enqueue, Exit, Idle, state, world, history, Command
<1> QED BY <1>3, <1>4

------------------------------------------------------------------------------
(* A step leaves milestone records. *)
LEMMA MsTypedStep ==
    ASSUME Inductive, Next
    PROVE  ms' \in [Milestones -> Milestone]
<1> USE DEF Inductive, TypeOK, state, process, world, history
<1>0. CASE Escalation
  <2>1. PICK m \in Milestones \cup {None} : Escalate(m) BY <1>0 DEF Escalation
  <2>2. CASE m \in Milestones /\ ms[m].status \notin Terminal
    <3>1. ms' = [ms EXCEPT ![m].status = "escalated"]
      BY <2>1, <2>2 DEF Escalate
    <3> QED BY <3>1, <2>2, Statuses, SetStatus
  <2>3. CASE ~(m \in Milestones /\ ms[m].status \notin Terminal)
    BY <2>1, <2>3 DEF Escalate, StateTyped
  <2> QED BY <2>2, <2>3
<1>1. CASE Start BY <1>1 DEF StateTyped, Start
<1>2. CASE Open
  BY <1>2 DEF StateTyped, Open, Goto, Idle, Exit, Continue, CleanUp,
     NeedsCleanup, Operation
<1>3. CASE StartRun
  BY <1>3 DEF StateTyped, StartRun, Goto, Idle, Exit, Continue, EntryOf,
     OnlyReported
<1>4. CASE PlanRetention
  BY <1>4 DEF StateTyped, PlanRetention, Goto, Idle, EntryOf, OnlyReported
<1>5. CASE PlanOnly BY <1>5 DEF StateTyped, PlanOnly, Goto
<1>6. CASE Stop BY <1>6 DEF StateTyped, Stop, Idle
<1>7. CASE Plan /\ ~Escalation
  <2>1. CASE UNCHANGED ms BY <2>1 DEF StateTyped
  <2>2. ASSUME NEW m \in Milestones, ProposalAccepted(m)
        PROVE  ms' \in [Milestones -> Milestone]
    BY <2>2, Statuses, SetStatus DEF ProposalAccepted
  <2> QED
    BY <1>7, <2>1, <2>2 DEF Plan, ProposalRejected, StateTyped, Escalation
<1>8. CASE Approve
  BY <1>8, Statuses, SetStatus, SetFeedback DEF StateTyped, Located, AtWork,
     InAttempt, PendingTyped, Approve, Continue
<1>9. CASE Select /\ ~Escalation
  BY <1>9 DEF StateTyped, Escalation, Select, Goto, Idle, Exit, Choose
<1>10. CASE Leave /\ ~Escalation
  BY <1>10 DEF StateTyped, Escalation, Leave, Goto
<1>11. CASE BeginAttempt
  BY <1>11, SetBegun, SetFeedback DEF StateTyped, Located, AtWork, InAttempt,
     PendingTyped, BeginAttempt, Continue, Here
<1>12. CASE CreateWorkspace
  BY <1>12 DEF StateTyped, CreateWorkspace, Goto, Continue, Throw, Operation
<1>13. CASE PrepareWorkspace
  BY <1>13 DEF StateTyped, PrepareWorkspace, Goto, Throw
<1>14. CASE RunWorker /\ ~Escalation
  BY <1>14 DEF StateTyped, Located, AtWork, Escalation, RunWorker, Continue,
     Throw, Operation, Here
<1>15. CASE Verify /\ ~Escalation
  <2>1. cur \in Milestones /\ tree[cur] \in Tree
    BY <1>15 DEF Verify, Located, AtWork, WorldTyped, Here
  <2>2. PICK t \in Tree : ms' = [ms EXCEPT ![cur].verdict = t]
    BY <1>15, <2>1, Trees DEF Verify, Escalation, StateTyped, Here
  <2> QED BY <2>1, <2>2, SetVerdict
<1>16. CASE Verified /\ ~Escalation
  <2>1. cur \in Milestones
    BY <1>16 DEF Verified, Located, AtWork, InAttempt, Continue, Throw
  <2>2. CASE UNCHANGED ms BY <2>2 DEF StateTyped
  <2>3. CASE ms' = [ms EXCEPT ![cur].status = "reviewing"]
    BY <2>1, <2>3, Statuses, SetStatus
  <2> QED BY <1>16, <2>1, <2>2, <2>3 DEF Verified, Escalation, Continue, Throw
<1>17. CASE Review /\ ~Escalation
  BY <1>17 DEF StateTyped, Located, AtWork, Escalation, Review, Throw, Here
<1>18. CASE Reviewed /\ ~Escalation
  BY <1>18 DEF StateTyped, Located, AtWork, InAttempt, Escalation, Reviewed,
     Goto, Throw
<1>19. CASE Integrate /\ ~Escalation
  BY <1>19 DEF StateTyped, Located, AtWork, InAttempt, Escalation, Integrate,
     Continue, Throw, Operation
<1>20. CASE RecordFailure
  BY <1>20, SetFeedback DEF StateTyped, Located, AtWork, InAttempt,
     PendingTyped, RecordFailure, Continue
<1>21. CASE Decide /\ ~Escalation
  <2>1. cur \in Milestones
    BY <1>21 DEF Decide, Located, AtWork, InAttempt, Continue, MayRetry
  <2>2. ms' = [ms EXCEPT ![cur].status = "retrying"]
    BY <1>21, <2>1 DEF Decide, Escalation, Continue, MayRetry
  <2> QED BY <2>1, <2>2, Statuses, SetStatus
<1>22. CASE Ended
  BY <1>22 DEF StateTyped, Ended, Goto, Continue, CleanUp, NeedsCleanup,
     Operation
<1>23. CASE Block BY <1>23 DEF StateTyped, Block, Idle
<1>24. CASE CompleteCreate
  BY <1>24, SetWorkspace, SetFeedback DEF StateTyped, Located, AtWork,
     InAttempt, PendingTyped, CompleteCreate, Continue, AfterRecovery,
     NoOperation, Recovering
<1>25. CASE Launch
  BY <1>25 DEF StateTyped, Launch, Idle, Exit, Continue, Recovering
<1>26. CASE WorkerReturns BY <1>26 DEF StateTyped, WorkerReturns, Continue
<1>27. CASE CompletePrepare
  BY <1>27, SetPrepared, SetFeedback DEF StateTyped, Located, AtWork,
     InAttempt, PendingTyped, CompletePrepare, Continue, AfterRecovery,
     NoOperation, Recovering
<1>28. CASE CompleteIntegration
  <2>1. pending.milestone \in Milestones
    BY <1>28 DEF CompleteIntegration, PendingTyped, Idle, Continue,
       AfterRecovery, NoOperation, Recovering
  <2>2. CASE UNCHANGED ms BY <2>2 DEF StateTyped
  <2>3. CASE ms' = [ms EXCEPT ![pending.milestone].status = "completed"]
    BY <2>1, <2>3, Statuses, SetStatus
  <2> QED
    BY <1>28, <2>2, <2>3 DEF CompleteIntegration, Idle, Continue,
       AfterRecovery, NoOperation, Recovering
<1>29. CASE CompleteCleanup
  BY <1>29, SetWorkspace, SetFeedback DEF StateTyped, Located, AtWork,
     InAttempt, PendingTyped, CompleteCleanup, Continue, AfterRecovery,
     NoOperation, Recovering
<1>30. CASE Crash BY <1>30 DEF StateTyped, Crash, Idle
<1>31. CASE Drift BY <1>31 DEF StateTyped, Drift
<1>32. CASE ReachLimit BY <1>32 DEF StateTyped, ReachLimit
<1>33. CASE Enqueue
  <2>1. CASE ms' = ms BY <2>1 DEF StateTyped
  <2>2. CASE ms' # ms
    <3>1. Canary \in Milestones /\ ms' = [ms EXCEPT ![Canary].status = "proposed"]
      BY <1>33, <2>2, EnqueueCases
    <3> QED BY <3>1, Statuses, SetStatus
  <2> QED BY <2>1, <2>2
<1> QED
  BY <1>0, <1>1, <1>2, <1>3, <1>4, <1>5, <1>6, <1>7, <1>8, <1>9, <1>10, <1>11,
     <1>12, <1>13, <1>14, <1>15, <1>16, <1>17, <1>18, <1>19, <1>20, <1>21,
     <1>22, <1>23, <1>24, <1>25, <1>26, <1>27, <1>28, <1>29, <1>30, <1>31,
     <1>32, <1>33 DEF Next, Controller, Recover

(* A step keeps the published state but for `pending` typed. *)
LEMMA StateTypedStep ==
    ASSUME Inductive, Next
    PROVE  StateTyped'
<1> USE DEF Inductive, TypeOK, state, process, world, history
<1>m. ms' \in [Milestones -> Milestone] BY MsTypedStep
<1>0. CASE Escalation
  BY <1>0, <1>m DEF StateTyped, Action, RunStatus, Escalation, Escalate
<1>1. CASE Start BY <1>1, <1>m DEF StateTyped, Start
<1>2. CASE Open
  BY <1>2, <1>m DEF StateTyped, Open, Goto, Idle, Exit, Continue, CleanUp,
     NeedsCleanup, Operation
<1>3. CASE StartRun
  BY <1>3, <1>m DEF StateTyped, RunStatus, StartRun, Goto, Idle, Exit,
     Continue, EntryOf, OnlyReported
<1>4. CASE PlanRetention
  BY <1>4, <1>m DEF StateTyped, Action, RunStatus, PlanRetention, Goto, Idle,
     EntryOf, OnlyReported
<1>5. CASE PlanOnly BY <1>5, <1>m DEF StateTyped, PlanOnly, Goto
<1>6. CASE Stop BY <1>6, <1>m DEF StateTyped, RunStatus, Stop, Idle
<1>7. CASE Plan /\ ~Escalation
  <2>1. ASSUME NEW m \in Milestones, ProposalAccepted(m) PROVE StateTyped'
    <3>1. queue' \in Seq(Milestones)
      BY <1>m, <2>1 DEF ProposalAccepted, StateTyped
    <3> QED BY <1>m, <2>1, <3>1 DEF ProposalAccepted, StateTyped
  <2>2. CASE ProposalRejected BY <1>m, <2>2 DEF ProposalRejected, StateTyped
  <2> QED BY <1>m, <1>7, <2>1, <2>2 DEF Plan, StateTyped, Escalation
<1>8. CASE Approve
  BY <1>8, <1>m DEF StateTyped, Action, RunStatus, Approve, Continue
<1>9. CASE Select /\ ~Escalation
  BY <1>9, <1>m DEF StateTyped, Escalation, Select, Goto, Idle, Exit, Choose
<1>10. CASE Leave /\ ~Escalation
  BY <1>10, <1>m DEF StateTyped, Escalation, Leave, Goto
<1>11. CASE BeginAttempt
  BY <1>11, <1>m DEF StateTyped, Action, RunStatus, BeginAttempt, Continue,
     Here
<1>12. CASE CreateWorkspace
  BY <1>12, <1>m DEF StateTyped, CreateWorkspace, Goto, Continue, Throw,
     Operation
<1>13. CASE PrepareWorkspace
  BY <1>13, <1>m DEF StateTyped, PrepareWorkspace, Goto, Throw
<1>14. CASE RunWorker /\ ~Escalation
  BY <1>14, <1>m DEF StateTyped, Located, AtWork, Escalation, RunWorker,
     Continue, Throw, Operation, Here
<1>15. CASE Verify /\ ~Escalation
  BY <1>15, <1>m DEF StateTyped, Escalation, Verify, Here
<1>16. CASE Verified /\ ~Escalation
  BY <1>16, <1>m DEF StateTyped, Located, AtWork, InAttempt, Action,
     RunStatus, Escalation, Verified, Continue, Throw
<1>17. CASE Review /\ ~Escalation
  BY <1>17, <1>m DEF StateTyped, Located, AtWork, Escalation, Review, Throw,
     Here
<1>18. CASE Reviewed /\ ~Escalation
  BY <1>18, <1>m DEF StateTyped, Located, AtWork, InAttempt, Escalation,
     Reviewed, Goto, Throw
<1>19. CASE Integrate /\ ~Escalation
  BY <1>19, <1>m DEF StateTyped, Located, AtWork, InAttempt, Escalation,
     Integrate, Continue, Throw, Operation
<1>20. CASE RecordFailure
  BY <1>20, <1>m DEF StateTyped, RecordFailure, Continue
<1>21. CASE Decide /\ ~Escalation
  BY <1>21, <1>m DEF StateTyped, Located, AtWork, InAttempt, Action,
     RunStatus, Escalation, Decide, Continue, MayRetry
<1>22. CASE Ended
  BY <1>22, <1>m DEF StateTyped, Ended, Goto, Continue, CleanUp, NeedsCleanup,
     Operation
<1>23. CASE Block BY <1>23, <1>m DEF StateTyped, Block, Idle
<1>24. CASE CompleteCreate
  BY <1>24, <1>m DEF StateTyped, CompleteCreate, Continue, AfterRecovery,
     NoOperation, Recovering
<1>25. CASE Launch
  BY <1>25, <1>m DEF StateTyped, Launch, Idle, Exit, Continue, Recovering
<1>26. CASE WorkerReturns
  BY <1>26, <1>m DEF StateTyped, WorkerReturns, Continue
<1>27. CASE CompletePrepare
  BY <1>27, <1>m DEF StateTyped, Action, RunStatus, CompletePrepare, Continue,
     AfterRecovery, NoOperation, Recovering
<1>28. CASE CompleteIntegration
  <2>1. pending.milestone \in Milestones
    BY <1>m, <1>28 DEF CompleteIntegration, PendingTyped, Idle, Continue,
       AfterRecovery, NoOperation, Recovering
  <2>2. CASE ~Publishable(pending.milestone)
    BY <1>m, <1>28, <2>2 DEF CompleteIntegration, StateTyped, Idle, Continue,
       AfterRecovery, NoOperation, Recovering
  <2>3. CASE Publishable(pending.milestone)
    <3>1. run' \in [status : RunStatus, processed : Nat, infra : Nat]
      <4>1. PICK st \in {run.status, "stopped"} :
                run' = [run EXCEPT !.status = st, !.processed = @ + 1]
        BY <1>m, <1>28, <2>3 DEF CompleteIntegration, Idle, Continue,
           AfterRecovery, NoOperation, Recovering
      <4>2. st \in RunStatus BY <1>m, <4>1 DEF StateTyped, RunStatus
      <4>3. run \in [status : RunStatus, processed : Nat, infra : Nat]
        BY <1>m DEF StateTyped
      <4> QED BY <1>m, <4>1, <4>2, <4>3, RunProcessed
    <3>2. queue' \in Seq(Milestones)
      <4>1. PICK i \in DOMAIN queue : queue' = RemoveAt(queue, i)
        BY <1>m, <1>28, <2>3 DEF CompleteIntegration, Idle, Continue,
           AfterRecovery, NoOperation, Recovering
      <4>2. queue \in Seq(Milestones) /\ i \in 1 .. Len(queue)
        BY <1>m, <4>1 DEF StateTyped
      <4> QED BY <1>m, <4>1, <4>2 DEF RemoveAt
    <3>3. RequiredAfter(pending.milestone) \in Milestones \cup {None}
      BY <1>m, <2>1, RequiredTyped DEF StateTyped
    <3> QED
      BY <1>m, <1>28, <2>3, <3>1, <3>2, <3>3 DEF CompleteIntegration,
         StateTyped, Action, Idle, Continue, AfterRecovery, NoOperation,
         Recovering
  <2> QED BY <1>m, <2>2, <2>3
<1>29. CASE CompleteCleanup
  BY <1>29, <1>m DEF StateTyped, CompleteCleanup, Continue, AfterRecovery,
     NoOperation, Recovering
<1>30. CASE Crash BY <1>30, <1>m DEF StateTyped, Crash, Idle
<1>31. CASE Drift BY <1>31, <1>m DEF StateTyped, Drift
<1>32. CASE ReachLimit BY <1>32, <1>m DEF StateTyped, ReachLimit
<1>33. CASE Enqueue
  <2>1. Canary \in Milestones /\ queue' \in {queue, Append(queue, Canary)}
    BY <1>33, EnqueueCases, LoopAssumption
  <2>2. queue' \in Seq(Milestones) BY <2>1 DEF StateTyped
  <2> QED BY <1>33, <1>m, <2>2, EnqueueCases DEF StateTyped
<1> QED
  BY <1>0, <1>1, <1>2, <1>3, <1>4, <1>5, <1>6, <1>7, <1>8, <1>9, <1>10, <1>11,
     <1>12, <1>13, <1>14, <1>15, <1>16, <1>17, <1>18, <1>19, <1>20, <1>21,
     <1>22, <1>23, <1>24, <1>25, <1>26, <1>27, <1>28, <1>29, <1>30, <1>31,
     <1>32, <1>33 DEF Next, Controller, Recover

(* A step keeps the pending operation typed, and it has a milestone. *)
LEMMA PendingTypedStep ==
    ASSUME Inductive, Next
    PROVE  PendingTyped'
<1> USE DEF Inductive, TypeOK, state, process, world, history
<1>0. CASE Escalation BY <1>0 DEF PendingTyped, Escalation, Escalate
<1>1. CASE Start BY <1>1 DEF PendingTyped, Start
<1>2. CASE Open
  <2>1. CASE \E m \in Milestones : CleanUp(m)
    BY <2>1, Trees DEF PendingTyped, Kind, Continue, CleanUp, NeedsCleanup,
       Operation
  <2>2. CASE ~\E m \in Milestones : CleanUp(m)
    <3>1. UNCHANGED pending
      BY <1>2, <2>2 DEF Open, Goto, Idle, Exit, Continue, CleanUp,
         NeedsCleanup, Operation
    <3> QED BY <3>1 DEF PendingTyped
  <2> QED BY <2>1, <2>2 DEF Continue, CleanUp, NeedsCleanup, Operation
<1>3. CASE StartRun
  BY <1>3 DEF PendingTyped, StartRun, Goto, Idle, Exit, Continue, EntryOf,
     OnlyReported
<1>4. CASE PlanRetention
  BY <1>4 DEF PendingTyped, PlanRetention, Goto, Idle, EntryOf, OnlyReported
<1>5. CASE PlanOnly BY <1>5 DEF PendingTyped, PlanOnly, Goto
<1>6. CASE Stop BY <1>6 DEF PendingTyped, Stop, Idle
<1>7. CASE Plan /\ ~Escalation
  BY <1>7 DEF PendingTyped, StateTyped, Escalation, Plan, ProposalAccepted,
     ProposalRejected
<1>8. CASE Approve BY <1>8 DEF PendingTyped, Approve, Continue
<1>9. CASE Select /\ ~Escalation
  BY <1>9 DEF PendingTyped, StateTyped, Escalation, Select, Goto, Idle, Exit,
     Choose
<1>10. CASE Leave /\ ~Escalation
  BY <1>10 DEF PendingTyped, StateTyped, Escalation, Leave, Goto
<1>11. CASE BeginAttempt
  BY <1>11 DEF PendingTyped, BeginAttempt, Continue, Here
<1>12. CASE CreateWorkspace
  BY <1>12, Trees DEF PendingTyped, Kind, Located, AtWork, InAttempt,
     CreateWorkspace, Goto, Continue, Throw, Operation
<1>13. CASE PrepareWorkspace
  BY <1>13 DEF PendingTyped, PrepareWorkspace, Goto, Throw
<1>14. CASE RunWorker /\ ~Escalation
  BY <1>14 DEF PendingTyped, WorldTyped, Kind, Located, AtWork, InAttempt,
     Escalation, RunWorker, Continue, Throw, Operation, Here
<1>15. CASE Verify /\ ~Escalation
  BY <1>15 DEF PendingTyped, StateTyped, Escalation, Verify, Here
<1>16. CASE Verified /\ ~Escalation
  BY <1>16 DEF PendingTyped, Located, AtWork, InAttempt, Escalation, Verified,
     Continue, Throw
<1>17. CASE Review /\ ~Escalation
  BY <1>17 DEF PendingTyped, Located, AtWork, Escalation, Review, Throw, Here
<1>18. CASE Reviewed /\ ~Escalation
  BY <1>18 DEF PendingTyped, Located, AtWork, InAttempt, Escalation, Reviewed,
     Goto, Throw
<1>19. CASE Integrate /\ ~Escalation
  BY <1>19 DEF PendingTyped, WorldTyped, Kind, Located, AtWork, InAttempt,
     Escalation, Integrate, Continue, Throw, Operation
<1>20. CASE RecordFailure BY <1>20 DEF PendingTyped, RecordFailure, Continue
<1>21. CASE Decide /\ ~Escalation
  BY <1>21 DEF PendingTyped, Located, AtWork, InAttempt, Escalation, Decide,
     Continue, MayRetry
<1>22. CASE Ended
  BY <1>22, Trees DEF PendingTyped, Kind, Ended, Goto, Continue, CleanUp,
     NeedsCleanup, Operation
<1>23. CASE Block BY <1>23 DEF PendingTyped, Block, Idle
<1>24. CASE CompleteCreate
  BY <1>24, Trees DEF PendingTyped, CompleteCreate, Continue, AfterRecovery,
     NoOperation, Recovering
<1>25. CASE Launch
  BY <1>25 DEF PendingTyped, Launch, Idle, Exit, Continue, Recovering
<1>26. CASE WorkerReturns BY <1>26 DEF PendingTyped, WorkerReturns, Continue
<1>27. CASE CompletePrepare
  BY <1>27, Trees DEF PendingTyped, CompletePrepare, Continue, AfterRecovery,
     NoOperation, Recovering
<1>28. CASE CompleteIntegration
  BY <1>28, Trees DEF PendingTyped, CompleteIntegration, Idle, Continue,
     AfterRecovery, NoOperation, Recovering
<1>29. CASE CompleteCleanup
  BY <1>29, Trees DEF PendingTyped, CompleteCleanup, Continue, AfterRecovery,
     NoOperation, Recovering
<1>30. CASE Crash BY <1>30 DEF PendingTyped, Crash, Idle
<1>31. CASE Drift BY <1>31 DEF PendingTyped, Drift
<1>32. CASE ReachLimit BY <1>32 DEF PendingTyped, ReachLimit
<1>33. CASE Enqueue BY <1>33, EnqueueCases DEF PendingTyped
<1> QED
  BY <1>0, <1>1, <1>2, <1>3, <1>4, <1>5, <1>6, <1>7, <1>8, <1>9, <1>10, <1>11,
     <1>12, <1>13, <1>14, <1>15, <1>16, <1>17, <1>18, <1>19, <1>20, <1>21,
     <1>22, <1>23, <1>24, <1>25, <1>26, <1>27, <1>28, <1>29, <1>30, <1>31,
     <1>32, <1>33 DEF Next, Controller, Recover

(* A step keeps what the process holds typed, and the proposals asked of the
   planner within their limit. *)
LEMMA ProcessTypedStep ==
    ASSUME Inductive, Next
    PROVE  ProcessTyped'
<1> USE DEF Inductive, TypeOK, state, process, world, history
<1>0. CASE Escalation
  BY <1>0, Limits DEF ProcessTyped, Stage, Command, AtWork, InAttempt,
     Escalation,
     Escalate
<1>1. CASE Start
  BY <1>1 DEF ProcessTyped, Stage, Command, AtWork, InAttempt, Start
<1>2. CASE Open
  BY <1>2, Trees, Limits DEF ProcessTyped, Stage, Command, AtWork, InAttempt,
     Open,
     Goto, Idle, Exit, Continue, CleanUp, NeedsCleanup, Operation
<1>3. CASE StartRun
  BY <1>3, Limits DEF ProcessTyped, Stage, Command, AtWork, InAttempt,
     StartRun, Goto,
     Idle, Exit, Continue, EntryOf, OnlyReported
<1>4. CASE PlanRetention
  BY <1>4, Limits DEF ProcessTyped, Stage, Command, AtWork, InAttempt,
     PlanRetention,
     Goto, Idle, EntryOf, OnlyReported
<1>5. CASE PlanOnly
  BY <1>5, Limits DEF ProcessTyped, Stage, Command, AtWork, InAttempt,
     PlanOnly, Goto
<1>6. CASE Stop
  BY <1>6, Limits DEF ProcessTyped, Stage, Command, AtWork, InAttempt, Stop,
     Idle
<1>7. CASE Plan /\ ~Escalation
  BY <1>7, Limits DEF ProcessTyped, Stage, Command, StateTyped, AtWork,
     InAttempt,
     Escalation, Plan, ProposalAccepted, ProposalRejected, Acceptable
<1>8. CASE Approve
  BY <1>8 DEF ProcessTyped, Stage, Command, AtWork, InAttempt, Approve, Continue
<1>9. CASE Select /\ ~Escalation
  BY <1>9, Trees, Limits DEF ProcessTyped, Stage, Command, StateTyped, AtWork,
     InAttempt, Escalation, Select, Goto, Idle, Exit, Choose
<1>10. CASE Leave /\ ~Escalation
  BY <1>10 DEF ProcessTyped, Stage, Command, StateTyped, AtWork, InAttempt,
     Escalation,
     Leave, Goto
<1>11. CASE BeginAttempt
  BY <1>11 DEF ProcessTyped, Stage, Command, AtWork, InAttempt, BeginAttempt,
     Continue,
     Here
<1>12. CASE CreateWorkspace
  BY <1>12 DEF ProcessTyped, Stage, Command, Failure, AtWork, InAttempt,
     CreateWorkspace, Goto, Continue, Throw, Operation
<1>13. CASE PrepareWorkspace
  BY <1>13 DEF ProcessTyped, Stage, Command, Failure, AtWork, InAttempt,
     PrepareWorkspace, Goto, Throw
<1>14. CASE RunWorker /\ ~Escalation
  BY <1>14 DEF ProcessTyped, Stage, Command, Failure, AtWork, InAttempt,
     Escalation,
     RunWorker, Continue, Throw, Operation, Here
<1>15. CASE Verify /\ ~Escalation
  BY <1>15 DEF ProcessTyped, Stage, Command, Failure, StateTyped, AtWork,
     InAttempt,
     Escalation, Verify, Here
<1>16. CASE Verified /\ ~Escalation
  BY <1>16 DEF ProcessTyped, Stage, Command, AtWork, InAttempt, Escalation,
     Verified,
     Continue, Throw
<1>17. CASE Review /\ ~Escalation
  BY <1>17 DEF ProcessTyped, Stage, Command, Failure, AtWork, InAttempt,
     Escalation,
     Review, Throw, Here
<1>18. CASE Reviewed /\ ~Escalation
  BY <1>18 DEF ProcessTyped, Stage, Command, Failure, AtWork, InAttempt,
     Escalation,
     Reviewed, Goto, Throw
<1>19. CASE Integrate /\ ~Escalation
  BY <1>19 DEF ProcessTyped, Stage, Command, Failure, AtWork, InAttempt,
     Escalation,
     Integrate, Continue, Throw, Operation
<1>20. CASE RecordFailure
  BY <1>20 DEF ProcessTyped, Stage, Command, AtWork, InAttempt, RecordFailure,
     Continue
<1>21. CASE Decide /\ ~Escalation
  BY <1>21 DEF ProcessTyped, Stage, Command, AtWork, InAttempt, Escalation,
     Decide,
     Continue, MayRetry
<1>22. CASE Ended
  BY <1>22 DEF ProcessTyped, Stage, Command, AtWork, InAttempt, Ended, Goto,
     Continue,
     CleanUp, NeedsCleanup, Operation
<1>23. CASE Block
  BY <1>23, Limits DEF ProcessTyped, Stage, Command, AtWork, InAttempt, Block,
     Idle
<1>24. CASE CompleteCreate
  BY <1>24 DEF ProcessTyped, Stage, Command, AtWork, InAttempt, CompleteCreate,
     Continue, AfterRecovery, NoOperation, Recovering
<1>25. CASE Launch
  BY <1>25, Limits DEF ProcessTyped, Stage, Command, AtWork, InAttempt,
     Launch, Idle,
     Exit, Continue, Recovering
<1>26. CASE WorkerReturns
  BY <1>26 DEF ProcessTyped, Stage, Command, AtWork, InAttempt, WorkerReturns,
     Continue
<1>27. CASE CompletePrepare
  BY <1>27 DEF ProcessTyped, Stage, Command, AtWork, InAttempt, CompletePrepare,
     Continue, AfterRecovery, NoOperation, Recovering
<1>28. CASE CompleteIntegration
  BY <1>28, Limits DEF ProcessTyped, Stage, Command, AtWork, InAttempt,
     CompleteIntegration, Idle, Continue, AfterRecovery, NoOperation,
     Recovering
<1>29. CASE CompleteCleanup
  BY <1>29 DEF ProcessTyped, Stage, Command, AtWork, InAttempt, CompleteCleanup,
     Continue, AfterRecovery, NoOperation, Recovering
<1>30. CASE Crash
  BY <1>30, Limits DEF ProcessTyped, Stage, Command, AtWork, InAttempt, Crash,
     Idle
<1>31. CASE Drift BY <1>31 DEF ProcessTyped, Drift
<1>32. CASE ReachLimit BY <1>32 DEF ProcessTyped, ReachLimit
<1>33. CASE Enqueue
  BY <1>33, EnqueueCases, Limits DEF ProcessTyped, Stage, Command
<1> QED
  BY <1>0, <1>1, <1>2, <1>3, <1>4, <1>5, <1>6, <1>7, <1>8, <1>9, <1>10, <1>11,
     <1>12, <1>13, <1>14, <1>15, <1>16, <1>17, <1>18, <1>19, <1>20, <1>21,
     <1>22, <1>23, <1>24, <1>25, <1>26, <1>27, <1>28, <1>29, <1>30, <1>31,
     <1>32, <1>33 DEF Next, Controller, Recover

(* A step keeps the workspaces and the history typed: attempts, which name the
   content they leave, are bounded. *)
LEMMA WorldTypedStep ==
    ASSUME Inductive, Next
    PROVE  WorldTyped'
<1> USE DEF Inductive, TypeOK, state, process, world, history
<1>0. CASE Escalation BY <1>0 DEF WorldTyped, Escalation, Escalate
<1>1. CASE Start BY <1>1 DEF WorldTyped, Start
<1>2. CASE Open
  BY <1>2 DEF WorldTyped, Open, Goto, Idle, Exit, Continue, CleanUp,
     NeedsCleanup, Operation
<1>3. CASE StartRun
  BY <1>3 DEF WorldTyped, StartRun, Goto, Idle, Exit, Continue, EntryOf,
     OnlyReported
<1>4. CASE PlanRetention
  BY <1>4 DEF WorldTyped, PlanRetention, Goto, Idle, EntryOf, OnlyReported
<1>5. CASE PlanOnly BY <1>5 DEF WorldTyped, PlanOnly, Goto
<1>6. CASE Stop BY <1>6 DEF WorldTyped, Stop, Idle
<1>7. CASE Plan /\ ~Escalation
  BY <1>7 DEF WorldTyped, StateTyped, Escalation, Plan, ProposalAccepted,
     ProposalRejected
<1>8. CASE Approve BY <1>8 DEF WorldTyped, Approve, Continue
<1>9. CASE Select /\ ~Escalation
  BY <1>9 DEF WorldTyped, StateTyped, Escalation, Select, Goto, Idle, Exit,
     Choose
<1>10. CASE Leave /\ ~Escalation
  BY <1>10 DEF WorldTyped, StateTyped, Escalation, Leave, Goto
<1>11. CASE BeginAttempt BY <1>11 DEF WorldTyped, BeginAttempt, Continue, Here
<1>12. CASE CreateWorkspace
  BY <1>12 DEF WorldTyped, CreateWorkspace, Goto, Continue, Throw, Operation
<1>13. CASE PrepareWorkspace
  BY <1>13 DEF WorldTyped, PrepareWorkspace, Goto, Throw
<1>14. CASE RunWorker /\ ~Escalation
  BY <1>14 DEF WorldTyped, Located, AtWork, Escalation, RunWorker, Continue,
     Throw, Operation, Here
<1>15. CASE Verify /\ ~Escalation
  BY <1>15 DEF WorldTyped, StateTyped, Escalation, Verify, Here
<1>16. CASE Verified /\ ~Escalation
  BY <1>16 DEF WorldTyped, Located, AtWork, InAttempt, Escalation, Verified,
     Continue, Throw
<1>17. CASE Review /\ ~Escalation
  <2>1. cur \in Milestones BY <1>17 DEF Review, Located, AtWork, Throw, Here
  <2>2. UNCHANGED approved \/ approved' = [approved EXCEPT ![cur] = tree[cur]]
    BY <1>17, <2>1 DEF Review, Escalation, Throw, Here
  <2>3. approved' \in [Milestones -> Tree] BY <2>1, <2>2 DEF WorldTyped
  <2> QED BY <1>17, <2>1, <2>3 DEF Review, Escalation, WorldTyped, Throw, Here
<1>18. CASE Reviewed /\ ~Escalation
  BY <1>18 DEF WorldTyped, Located, AtWork, InAttempt, Escalation, Reviewed,
     Goto, Throw
<1>19. CASE Integrate /\ ~Escalation
  BY <1>19 DEF WorldTyped, Located, AtWork, InAttempt, Escalation, Integrate,
     Continue, Throw, Operation
<1>20. CASE RecordFailure BY <1>20 DEF WorldTyped, RecordFailure, Continue
<1>21. CASE Decide /\ ~Escalation
  BY <1>21 DEF WorldTyped, Located, AtWork, InAttempt, Escalation, Decide,
     Continue, MayRetry
<1>22. CASE Ended
  BY <1>22 DEF WorldTyped, Ended, Goto, Continue, CleanUp, NeedsCleanup,
     Operation
<1>23. CASE Block BY <1>23 DEF WorldTyped, Block, Idle
<1>24. CASE CompleteCreate
  BY <1>24, Trees DEF WorldTyped, CompleteCreate, Continue, AfterRecovery,
     NoOperation, Recovering
<1>25. CASE Launch
  <2>1. CASE exhausted
    BY <1>25, <2>1 DEF Launch, WorldTyped, Idle, Exit, Continue, Recovering
  <2>2. CASE ~exhausted
    <3>1. pending.milestone \in Milestones
      BY <1>25 DEF Launch, PendingTyped, Idle, Exit, Continue, Recovering
    <3>2. launches' \in [Milestones -> Nat]
      BY <1>25, <2>2, <3>1, OneLaunch DEF Launch, WorldTyped, Idle, Exit,
         Continue, Recovering
    <3> QED
      BY <1>25, <2>2, <3>2 DEF Launch, WorldTyped, Idle, Exit, Continue,
         Recovering
  <2> QED BY <2>1, <2>2
<1>26. CASE WorkerReturns BY <1>26 DEF WorldTyped, WorkerReturns, Continue
<1>27. CASE CompletePrepare
  BY <1>27, Trees DEF WorldTyped, PendingTyped, StateTyped, Milestone,
     InAttempt, Counted, CompletePrepare, Continue, AfterRecovery,
     NoOperation, Recovering
<1>28. CASE CompleteIntegration
  BY <1>28 DEF WorldTyped, PendingTyped, CompleteIntegration, Idle, Continue,
     AfterRecovery, NoOperation, Recovering
<1>29. CASE CompleteCleanup
  BY <1>29 DEF WorldTyped, CompleteCleanup, Continue, AfterRecovery,
     NoOperation, Recovering
<1>30. CASE Crash BY <1>30 DEF WorldTyped, Crash, Idle
<1>31. CASE Drift BY <1>31, Trees DEF WorldTyped, Drift
<1>32. CASE ReachLimit BY <1>32 DEF WorldTyped, ReachLimit
<1>33. CASE Enqueue BY <1>33, EnqueueCases DEF WorldTyped
<1> QED
  BY <1>0, <1>1, <1>2, <1>3, <1>4, <1>5, <1>6, <1>7, <1>8, <1>9, <1>10, <1>11,
     <1>12, <1>13, <1>14, <1>15, <1>16, <1>17, <1>18, <1>19, <1>20, <1>21,
     <1>22, <1>23, <1>24, <1>25, <1>26, <1>27, <1>28, <1>29, <1>30, <1>31,
     <1>32, <1>33 DEF Next, Controller, Recover

(* A step keeps where the process is and what is pending together. *)
LEMMA LocatedStep ==
    ASSUME Inductive, Next
    PROVE  Located'
<1> USE DEF Inductive, TypeOK, state, process, world, history
<1>0. CASE Escalation
  BY <1>0 DEF Located, AtWork, InAttempt, Escalation, Escalate
<1>1. CASE Start BY <1>1 DEF Located, AtWork, InAttempt, Start
<1>2. CASE Open BY <1>2, OpenCases DEF Located, AtWork, InAttempt
<1>3. CASE StartRun
  BY <1>3 DEF Located, AtWork, InAttempt, StartRun, Goto, Idle, Exit,
     Continue, EntryOf, OnlyReported
<1>4. CASE PlanRetention
  BY <1>4 DEF Located, AtWork, InAttempt, PlanRetention, Goto, Idle, EntryOf,
     OnlyReported
<1>5. CASE PlanOnly BY <1>5 DEF Located, AtWork, InAttempt, PlanOnly, Goto
<1>6. CASE Stop BY <1>6 DEF Located, AtWork, InAttempt, Stop, Idle
<1>7. CASE Plan /\ ~Escalation
  <2>1. ASSUME NEW m \in Milestones, ProposalAccepted(m) PROVE Located'
    BY <1>7, <2>1 DEF Plan, ProposalAccepted, Located
  <2>2. CASE ProposalRejected
    BY <1>7, <2>2 DEF Plan, ProposalRejected, Located
  <2> QED BY <1>7, <2>1, <2>2 DEF Plan, StateTyped, Escalation
<1>8. CASE Approve BY <1>8 DEF Located, AtWork, Approve, Continue
<1>9. CASE Select /\ ~Escalation
  BY <1>9 DEF StateTyped, Located, AtWork, InAttempt, Escalation, Select,
     Goto, Idle, Exit, Choose
<1>10. CASE Leave /\ ~Escalation
  BY <1>10 DEF StateTyped, Located, AtWork, Escalation, Leave, Goto
<1>11. CASE BeginAttempt
  BY <1>11 DEF Located, AtWork, BeginAttempt, Continue, Here
<1>12. CASE CreateWorkspace
  BY <1>12 DEF Located, AtWork, InAttempt, CreateWorkspace, Goto, Continue,
     Throw, Operation
<1>13. CASE PrepareWorkspace
  BY <1>13 DEF Located, AtWork, InAttempt, PrepareWorkspace, Goto, Throw
<1>14. CASE RunWorker /\ ~Escalation
  BY <1>14 DEF Located, AtWork, Escalation, RunWorker, Continue, Throw,
     Operation, Here
<1>15. CASE Verify /\ ~Escalation
  BY <1>15 DEF StateTyped, Located, AtWork, Escalation, Verify, Here
<1>16. CASE Verified /\ ~Escalation
  BY <1>16 DEF Located, AtWork, InAttempt, Escalation, Verified, Continue,
     Throw
<1>17. CASE Review /\ ~Escalation
  BY <1>17 DEF Located, AtWork, Escalation, Review, Throw, Here
<1>18. CASE Reviewed /\ ~Escalation
  BY <1>18 DEF Located, AtWork, InAttempt, Escalation, Reviewed, Goto, Throw
<1>19. CASE Integrate /\ ~Escalation
  BY <1>19 DEF Located, AtWork, InAttempt, Escalation, Integrate, Continue,
     Throw, Operation
<1>20. CASE RecordFailure
  BY <1>20 DEF Located, AtWork, InAttempt, RecordFailure, Continue
<1>21. CASE Decide /\ ~Escalation
  BY <1>21 DEF Located, AtWork, InAttempt, Escalation, Decide, Continue,
     MayRetry
<1>22. CASE Ended
  BY <1>22 DEF Located, AtWork, InAttempt, Ended, Goto, Continue, CleanUp,
     NeedsCleanup, Operation
<1>23. CASE Block BY <1>23 DEF Located, AtWork, InAttempt, Block, Idle
<1>24. CASE CompleteCreate
  BY <1>24 DEF PendingTyped, Located, AtWork, InAttempt, CompleteCreate,
     Continue, AfterRecovery, NoOperation, Recovering
<1>25. CASE Launch
  BY <1>25 DEF PendingTyped, Located, AtWork, InAttempt, Launch, Idle, Exit,
     Continue, Recovering
<1>26. CASE WorkerReturns
  BY <1>26 DEF Located, AtWork, InAttempt, WorkerReturns, Continue
<1>27. CASE CompletePrepare
  BY <1>27 DEF PendingTyped, Located, AtWork, InAttempt, CompletePrepare,
     Continue, AfterRecovery, NoOperation, Recovering
<1>28. CASE CompleteIntegration
  BY <1>28 DEF Located, AtWork, InAttempt, CompleteIntegration, Idle,
     Continue, AfterRecovery, NoOperation, Recovering
<1>29. CASE CompleteCleanup
  BY <1>29 DEF Located, AtWork, InAttempt, CompleteCleanup, Continue,
     AfterRecovery, NoOperation, Recovering
<1>30. CASE Crash BY <1>30 DEF Located, AtWork, InAttempt, Crash, Idle
<1>31. CASE Drift BY <1>31 DEF Located, Drift
<1>32. CASE ReachLimit BY <1>32 DEF Located, ReachLimit
<1>33. CASE Enqueue BY <1>33, EnqueueCases DEF Located, AtWork, InAttempt
<1> QED
  BY <1>0, <1>1, <1>2, <1>3, <1>4, <1>5, <1>6, <1>7, <1>8, <1>9, <1>10, <1>11,
     <1>12, <1>13, <1>14, <1>15, <1>16, <1>17, <1>18, <1>19, <1>20, <1>21,
     <1>22, <1>23, <1>24, <1>25, <1>26, <1>27, <1>28, <1>29, <1>30, <1>31,
     <1>32, <1>33 DEF Next, Controller, Recover

(* A step begins no attempt beyond the last. *)
LEMMA CountedStep ==
    ASSUME Inductive, Next
    PROVE  Counted'
<1> USE DEF Inductive, TypeOK, state, process, world, history
<1>0. CASE Escalation BY <1>0 DEF Counted, Escalation, Escalate
<1>1. CASE Start BY <1>1 DEF Counted, Start
<1>2. CASE Open
  BY <1>2 DEF Counted, Open, Goto, Idle, Exit, Continue, CleanUp,
     NeedsCleanup, Operation
<1>3. CASE StartRun
  BY <1>3 DEF Counted, StartRun, Goto, Idle, Exit, Continue, EntryOf,
     OnlyReported
<1>4. CASE PlanRetention
  BY <1>4 DEF Counted, PlanRetention, Goto, Idle, EntryOf, OnlyReported
<1>5. CASE PlanOnly BY <1>5 DEF Counted, PlanOnly, Goto
<1>6. CASE Stop BY <1>6 DEF Counted, Stop, Idle
<1>7. CASE Plan /\ ~Escalation
  <2>1. ASSUME NEW m \in Milestones, ProposalAccepted(m) PROVE Counted'
    <3>1. ms[m].attempts = 0 BY <2>1 DEF ProposalAccepted, Acceptable, Counted
    <3>2. ms' = [ms EXCEPT ![m].status = "proposed"] /\ cur' = m
      BY <2>1 DEF ProposalAccepted
    <3>3. ms'[m].status = "proposed" /\ ms'[m].attempts = 0
      BY <3>1, <3>2, StatusOnly
    <3> QED BY <3>2, <3>3, StatusOnly DEF Counted
  <2>2. CASE ProposalRejected
    BY <1>7, <2>2 DEF Plan, ProposalRejected, Counted
  <2> QED BY <1>7, <2>1, <2>2 DEF Plan, StateTyped, Escalation
<1>8. CASE Approve BY <1>8 DEF Counted, Approve, Continue
<1>9. CASE Select /\ ~Escalation
  BY <1>9 DEF Counted, StateTyped, Escalation, Select, Goto, Idle, Exit,
     Choose
<1>10. CASE Leave /\ ~Escalation
  BY <1>10 DEF Counted, StateTyped, Escalation, Leave, Goto
<1>11. CASE BeginAttempt
  BY <1>11, Limits DEF StateTyped, PendingTyped, Located, AtWork, Milestone,
     BeginAttempt, Continue, Here
<1>12. CASE CreateWorkspace
  BY <1>12 DEF Counted, CreateWorkspace, Goto, Continue, Throw, Operation
<1>13. CASE PrepareWorkspace
  BY <1>13 DEF Counted, PrepareWorkspace, Goto, Throw
<1>14. CASE RunWorker /\ ~Escalation
  BY <1>14 DEF Counted, Located, AtWork, Escalation, RunWorker, Continue,
     Throw, Operation, Here
<1>15. CASE Verify /\ ~Escalation
  <2>1. cur \in Milestones BY <1>15 DEF Verify, Located, AtWork, Here
  <2>2. PICK t : ms' = [ms EXCEPT ![cur].verdict = t]
    BY <1>15, <2>1 DEF Verify, Escalation, StateTyped, Here
  <2>3. pc' # "approve"
    BY <1>15, <2>1 DEF Verify, Escalation, StateTyped, Here
  <2>4. \A m \in Milestones : /\ ms'[m].attempts = ms[m].attempts
                              /\ ms'[m].status = ms[m].status
    BY <2>1, <2>2
  <2> QED BY <2>3, <2>4 DEF Counted
<1>16. CASE Verified /\ ~Escalation
  <2>1. cur \in Milestones
    BY <1>16 DEF Verified, Located, AtWork, InAttempt, Continue, Throw
  <2>2. pc' # "approve"
    BY <1>16, <2>1 DEF Verified, Escalation, Continue, Throw
  <2>3. CASE UNCHANGED ms BY <2>2, <2>3 DEF Counted
  <2>4. CASE ms' = [ms EXCEPT ![cur].status = "reviewing"]
    BY <2>1, <2>2, <2>4, StatusOnly DEF Counted
  <2> QED BY <1>16, <2>1, <2>3, <2>4 DEF Verified, Escalation, Continue, Throw
<1>17. CASE Review /\ ~Escalation
  BY <1>17 DEF Counted, Located, AtWork, Escalation, Review, Throw, Here
<1>18. CASE Reviewed /\ ~Escalation
  BY <1>18 DEF Counted, Located, AtWork, InAttempt, Escalation, Reviewed,
     Goto, Throw
<1>19. CASE Integrate /\ ~Escalation
  BY <1>19 DEF Counted, Located, AtWork, InAttempt, Escalation, Integrate,
     Continue, Throw, Operation
<1>20. CASE RecordFailure BY <1>20 DEF Counted, RecordFailure, Continue
<1>21. CASE Decide /\ ~Escalation
  <2>1. cur \in Milestones
    BY <1>21 DEF Decide, Located, AtWork, InAttempt, Continue, MayRetry
  <2>2. ms' = [ms EXCEPT ![cur].status = "retrying"]
        /\ ms[cur].attempts < Attempts /\ pc' # "approve"
    BY <1>21, <2>1 DEF Decide, Escalation, Continue, MayRetry
  <2> QED BY <2>1, <2>2, StatusOnly DEF Counted
<1>22. CASE Ended
  BY <1>22 DEF Counted, Ended, Goto, Continue, CleanUp, NeedsCleanup,
     Operation
<1>23. CASE Block BY <1>23 DEF Counted, Block, Idle
<1>24. CASE CompleteCreate
  BY <1>24 DEF Counted, CompleteCreate, Continue, AfterRecovery, NoOperation,
     Recovering
<1>25. CASE Launch
  BY <1>25 DEF Counted, Launch, Idle, Exit, Continue, Recovering
<1>26. CASE WorkerReturns BY <1>26 DEF Counted, WorkerReturns, Continue
<1>27. CASE CompletePrepare
  BY <1>27 DEF Counted, StateTyped, CompletePrepare, Continue, AfterRecovery,
     NoOperation, Recovering
<1>28. CASE CompleteIntegration
  <2>1. pending.milestone \in Milestones
    BY <1>28 DEF CompleteIntegration, PendingTyped, Idle, Continue,
       AfterRecovery, NoOperation, Recovering
  <2>2. pc' # "approve"
    BY <1>28 DEF CompleteIntegration, Idle, Continue, AfterRecovery,
       NoOperation, Recovering
  <2>3. CASE UNCHANGED ms BY <2>2, <2>3 DEF Counted
  <2>4. CASE ms' = [ms EXCEPT ![pending.milestone].status = "completed"]
    BY <2>1, <2>2, <2>4, StatusOnly DEF Counted
  <2> QED
    BY <1>28, <2>3, <2>4 DEF CompleteIntegration, Idle, Continue,
       AfterRecovery, NoOperation, Recovering
<1>29. CASE CompleteCleanup
  BY <1>29 DEF Counted, CompleteCleanup, Continue, AfterRecovery, NoOperation,
     Recovering
<1>30. CASE Crash BY <1>30 DEF Counted, Crash, Idle
<1>31. CASE Drift BY <1>31 DEF Counted, Drift
<1>32. CASE ReachLimit BY <1>32 DEF Counted, ReachLimit
<1>33. CASE Enqueue
  <2>1. CASE ms' = ms /\ pc' # "approve" BY <1>33, <2>1, EnqueueCases DEF Counted
  <2>2. CASE ~(ms' = ms /\ pc' # "approve")
    <3>1. /\ Canary \in Milestones /\ pc' = "approve" /\ cur' = Canary
          /\ ms' = [ms EXCEPT ![Canary].status = "proposed"]
          /\ ms[Canary].attempts = 0
      BY <1>33, <2>2, EnqueueCases DEF Acceptable, Counted
    <3>2. ms'[Canary].status = "proposed" /\ ms'[Canary].attempts = 0
      BY <3>1, StatusOnly
    <3> QED BY <3>1, <3>2, StatusOnly DEF Counted
  <2> QED BY <2>1, <2>2
<1> QED
  BY <1>0, <1>1, <1>2, <1>3, <1>4, <1>5, <1>6, <1>7, <1>8, <1>9, <1>10, <1>11,
     <1>12, <1>13, <1>14, <1>15, <1>16, <1>17, <1>18, <1>19, <1>20, <1>21,
     <1>22, <1>23, <1>24, <1>25, <1>26, <1>27, <1>28, <1>29, <1>30, <1>31,
     <1>32, <1>33 DEF Next, Controller, Recover

(* A step keeps the milestone in hand, the active one and the one an operation
   is pending for the same. *)
LEMMA InChargeStep ==
    ASSUME Inductive, Next
    PROVE  InCharge'
<1> USE DEF Inductive, TypeOK, state, process, world, history
<1>0. CASE Escalation
  BY <1>0 DEF InCharge, OneAtATime, Located, InAttempt, Worked, Escalation,
     Escalate
<1>1. CASE Start BY <1>1 DEF InCharge, OneAtATime, InAttempt, Start
<1>2. CASE Open BY <1>2, OpenCases DEF InCharge, OneAtATime, InAttempt
<1>3. CASE StartRun
  BY <1>3 DEF InCharge, OneAtATime, InAttempt, StartRun, Goto, Idle, Exit,
     Continue, EntryOf, OnlyReported
<1>4. CASE PlanRetention
  BY <1>4 DEF InCharge, OneAtATime, InAttempt, PlanRetention, Goto, Idle,
     EntryOf, OnlyReported
<1>5. CASE PlanOnly
  BY <1>5 DEF InCharge, OneAtATime, Located, InAttempt, PlanOnly, Goto
<1>6. CASE Stop BY <1>6 DEF InCharge, OneAtATime, InAttempt, Stop, Idle
<1>7. CASE Plan /\ ~Escalation
  <2>1. ASSUME NEW m \in Milestones, ProposalAccepted(m) PROVE InCharge'
    <3>1. ms' = [ms EXCEPT ![m].status = "proposed"]
      BY <2>1 DEF ProposalAccepted
    <3>2. pc' = "approve" /\ UNCHANGED <<active, cmd, pending>>
          /\ pending.kind = "none"
      BY <1>7, <2>1 DEF Plan, ProposalAccepted, Located
    <3>3. OneAtATime'
      BY <3>1, <3>2, StatusOnly DEF InCharge, OneAtATime, Worked
    <3> QED BY <1>7, <3>2, <3>3 DEF Plan, InCharge, InAttempt
  <2>2. CASE ProposalRejected
    BY <1>7, <2>2 DEF Plan, ProposalRejected, InCharge, OneAtATime
  <2> QED BY <1>7, <2>1, <2>2 DEF Plan, StateTyped, Escalation
<1>8. CASE Approve
  BY <1>8 DEF InCharge, OneAtATime, Located, InAttempt, Worked, Terminal,
     StateTyped, PendingTyped, ProcessTyped, Command, Kind, Milestone, Status,
     Failure, Approve
<1>9. CASE Select /\ ~Escalation
  BY <1>9 DEF InCharge, OneAtATime, InAttempt, StateTyped, Escalation, Select,
     Goto, Idle, Exit, Choose
<1>10. CASE Leave /\ ~Escalation
  BY <1>10 DEF InCharge, OneAtATime, Located, AtWork, InAttempt, Escalation,
     Leave, Goto
<1>11. CASE BeginAttempt
  BY <1>11, Limits DEF InCharge, Located, AtWork, Terminal, StateTyped,
     PendingTyped, ProcessTyped, Kind, Milestone, Status, Failure,
     BeginAttempt, Continue, Here
<1>12. CASE CreateWorkspace
  BY <1>12 DEF InCharge, OneAtATime, Located, AtWork, InAttempt,
     CreateWorkspace, Goto, Continue, Throw, Operation
<1>13. CASE PrepareWorkspace
  BY <1>13 DEF InCharge, OneAtATime, Located, AtWork, InAttempt,
     PrepareWorkspace, Goto, Throw
<1>14. CASE RunWorker /\ ~Escalation
  BY <1>14 DEF InCharge, OneAtATime, Located, AtWork, Worked, Escalation,
     RunWorker, Continue, Throw, Operation, Here
<1>15. CASE Verify /\ ~Escalation
  <2>1. /\ cur \in Milestones /\ ms[cur].status = "verifying"
        /\ pc = "process" /\ pc' = "verified" /\ pending.kind = "none"
        /\ UNCHANGED <<active, pending, cur>>
    BY <1>15 DEF Verify, Here, Escalation, Located, AtWork, StateTyped
  <2>2. \E v \in Tree : ms' = [ms EXCEPT ![cur].verdict = v]
    BY <1>15, <2>1, Trees DEF Verify, Escalation, WorldTyped, StateTyped
  <2>3. \A m \in Milestones : ms'[m].status = ms[m].status
    BY <2>1, <2>2 DEF StateTyped, Milestone
  <2> QED BY <2>1, <2>3 DEF InCharge, OneAtATime, InAttempt, Worked, Kind
<1>16. CASE Verified /\ ~Escalation
  BY <1>16 DEF InCharge, OneAtATime, Located, AtWork, InAttempt, StateTyped,
     Escalation, Verified, Continue, Throw
<1>17. CASE Review /\ ~Escalation
  BY <1>17 DEF InCharge, OneAtATime, Located, AtWork, Worked, Escalation,
     Review, Throw, Here
<1>18. CASE Reviewed /\ ~Escalation
  BY <1>18 DEF InCharge, OneAtATime, Located, AtWork, InAttempt, Escalation,
     Reviewed, Goto, Throw
<1>19. CASE Integrate /\ ~Escalation
  BY <1>19 DEF InCharge, OneAtATime, Located, AtWork, InAttempt, Escalation,
     Integrate, Continue, Throw, Operation
<1>20. CASE RecordFailure
  BY <1>20 DEF InCharge, OneAtATime, InAttempt, RecordFailure, Continue
<1>21. CASE Decide /\ ~Escalation
  BY <1>21 DEF InCharge, OneAtATime, Located, AtWork, InAttempt, StateTyped,
     Escalation, Decide, Continue, MayRetry
<1>22. CASE Ended
  BY <1>22 DEF InCharge, OneAtATime, InAttempt, Ended, Goto, Continue,
     CleanUp, NeedsCleanup, Operation
<1>23. CASE Block BY <1>23 DEF InCharge, OneAtATime, InAttempt, Block, Idle
<1>24. CASE CompleteCreate
  BY <1>24 DEF InCharge, OneAtATime, Located, InAttempt, Worked, Terminal,
     StateTyped, PendingTyped, ProcessTyped, Kind, Milestone, Status, Failure,
     CompleteCreate, Continue, AfterRecovery, NoOperation, Recovering
<1>25. CASE Launch
  BY <1>25 DEF InCharge, OneAtATime, InAttempt, PendingTyped, Launch, Idle,
     Exit, Continue, Recovering
<1>26. CASE WorkerReturns
  BY <1>26 DEF InCharge, OneAtATime, InAttempt, WorkerReturns, Continue
<1>27. CASE CompletePrepare
  BY <1>27 DEF InCharge, OneAtATime, Located, InAttempt, Terminal, StateTyped,
     PendingTyped, ProcessTyped, Kind, Milestone, Status, Failure,
     CompletePrepare, Continue, AfterRecovery, NoOperation, Recovering
<1>28. CASE CompleteIntegration
  <2> DEFINE c == pending.milestone
  <2>1. c \in Milestones /\ pending.kind = "target-integrate" /\ active = c
    BY <1>28 DEF CompleteIntegration, PendingTyped, InCharge, OneAtATime,
       Idle, Continue, AfterRecovery, NoOperation, Recovering
  <2>2. CASE ~Publishable(c)
    BY <1>28, <2>2 DEF CompleteIntegration, InCharge, OneAtATime, InAttempt,
       Idle, Continue, AfterRecovery, NoOperation, Recovering
  <2>3. CASE Publishable(c)
    <3>1. ms' = [ms EXCEPT ![c].status = "completed"] /\ active' = None
          /\ pending'.kind = "none"
          /\ pc' \in {"open", "ended"}
      BY <1>28, <2>3 DEF CompleteIntegration, Idle, Continue, AfterRecovery,
         NoOperation, Recovering
    <3>2. \A m \in Milestones : ms'[m].status \notin Worked
      <4>1. ms'[c].status = "completed"
            /\ \A m \in Milestones : m # c => ms'[m].status = ms[m].status
        BY <2>1, <3>1, StatusOnly
      <4>2. \A m \in Milestones : m # c => ms[m].status \notin Worked
        BY <2>1 DEF InCharge, OneAtATime
      <4> QED BY <4>1, <4>2 DEF Worked
    <3> QED BY <3>1, <3>2 DEF InCharge, OneAtATime, InAttempt, Kind
  <2> QED BY <2>2, <2>3
<1>29. CASE CompleteCleanup
  BY <1>29 DEF InCharge, OneAtATime, InAttempt, Kind, CompleteCleanup,
     Continue, AfterRecovery, NoOperation, Recovering
<1>30. CASE Crash BY <1>30 DEF InCharge, OneAtATime, InAttempt, Crash, Idle
<1>31. CASE Drift BY <1>31 DEF InCharge, OneAtATime, Drift
<1>32. CASE ReachLimit BY <1>32 DEF InCharge, OneAtATime, ReachLimit
<1>33. CASE Enqueue
  <2>1. CASE ms' = ms
    BY <1>33, <2>1, EnqueueCases DEF InCharge, OneAtATime, InAttempt
  <2>2. CASE ms' # ms
    <3>1. /\ Canary \in Milestones /\ UNCHANGED <<active, pending>>
          /\ ms' = [ms EXCEPT ![Canary].status = "proposed"]
          /\ pending.kind = "none" /\ pc' = "approve" /\ cmd' = "canary"
      BY <1>33, <2>2, EnqueueCases
    <3>2. OneAtATime' BY <3>1, StatusOnly DEF InCharge, OneAtATime, Worked
    <3> QED BY <3>1, <3>2 DEF InCharge, InAttempt
  <2> QED BY <2>1, <2>2
<1> QED
  BY <1>0, <1>1, <1>2, <1>3, <1>4, <1>5, <1>6, <1>7, <1>8, <1>9, <1>10, <1>11,
     <1>12, <1>13, <1>14, <1>15, <1>16, <1>17, <1>18, <1>19, <1>20, <1>21,
     <1>22, <1>23, <1>24, <1>25, <1>26, <1>27, <1>28, <1>29, <1>30, <1>31,
     <1>32, <1>33 DEF Next, Controller, Recover

(* A step ends the run if it ends the active milestone without completing it. *)
LEMMA RunGoesOnStep ==
    ASSUME Inductive, Next
    PROVE  RunGoesOn'
<1> USE DEF Inductive, TypeOK, state, process, world, history
<1>0. CASE Escalation BY <1>0 DEF RunGoesOn, Escalation, Escalate
<1>1. CASE Start BY <1>1 DEF RunGoesOn, Start
<1>2. CASE Open
  BY <1>2 DEF RunGoesOn, Open, Goto, Idle, Exit, Continue, CleanUp,
     NeedsCleanup, Operation
<1>3. CASE StartRun
  BY <1>3 DEF RunGoesOn, StartRun, Goto, Idle, Exit, Continue, EntryOf,
     OnlyReported
<1>4. CASE PlanRetention
  BY <1>4 DEF RunGoesOn, PlanRetention, Goto, Idle, EntryOf, OnlyReported
<1>5. CASE PlanOnly BY <1>5 DEF RunGoesOn, PlanOnly, Goto
<1>6. CASE Stop BY <1>6 DEF RunGoesOn, Stop, Idle
<1>7. CASE Plan /\ ~Escalation
  <2>1. ASSUME NEW m \in Milestones, ProposalAccepted(m) PROVE RunGoesOn'
    <3>1. ms' = [ms EXCEPT ![m].status = "proposed"]
          /\ ms[m].status = "absent"
      BY <2>1 DEF ProposalAccepted, Acceptable
    <3>2. UNCHANGED <<active, run>> BY <2>1 DEF ProposalAccepted
    <3> QED BY <1>7, <3>1, <3>2, StatusOnly DEF Plan, RunGoesOn, Worked
  <2>2. CASE ProposalRejected
    BY <1>7, <2>2 DEF Plan, ProposalRejected, RunGoesOn
  <2> QED BY <1>7, <2>1, <2>2 DEF Plan, StateTyped, Escalation
<1>8. CASE Approve
  <2>1. cur \in Milestones /\ ms[cur].status = "proposed"
    BY <1>8 DEF Approve, Located, AtWork, Counted, Continue
  <2>2. ms' = [ms EXCEPT ![cur].status = "ready"] /\ UNCHANGED <<active, run>>
    BY <1>8 DEF Approve, Continue
  <2> QED
    BY <1>8, <2>1, <2>2, StatusOnly DEF Approve, RunGoesOn, Worked, Continue
<1>9. CASE Select /\ ~Escalation
  BY <1>9 DEF RunGoesOn, StateTyped, Escalation, Select, Goto, Idle, Exit,
     Choose
<1>10. CASE Leave /\ ~Escalation
  BY <1>10 DEF RunGoesOn, StateTyped, Escalation, Leave, Goto
<1>11. CASE BeginAttempt
  BY <1>11 DEF RunGoesOn, Located, AtWork, Worked, StateTyped, PendingTyped,
     Milestone, BeginAttempt, Continue, Here
<1>12. CASE CreateWorkspace
  BY <1>12 DEF RunGoesOn, CreateWorkspace, Goto, Continue, Throw, Operation
<1>13. CASE PrepareWorkspace
  BY <1>13 DEF RunGoesOn, PrepareWorkspace, Goto, Throw
<1>14. CASE RunWorker /\ ~Escalation
  BY <1>14 DEF RunGoesOn, Located, AtWork, Escalation, RunWorker, Continue,
     Throw, Operation, Here
<1>15. CASE Verify /\ ~Escalation
  BY <1>15 DEF InCharge, RunGoesOn, Worked, StateTyped, PendingTyped,
     Milestone, Escalation, Verify, Here
<1>16. CASE Verified /\ ~Escalation
  BY <1>16 DEF InCharge, OneAtATime, RunGoesOn, Located, AtWork, InAttempt,
     Worked, StateTyped, PendingTyped, Milestone, Escalation, Verified,
     Continue, Throw
<1>17. CASE Review /\ ~Escalation
  BY <1>17 DEF RunGoesOn, Located, AtWork, Escalation, Review, Throw, Here
<1>18. CASE Reviewed /\ ~Escalation
  BY <1>18 DEF RunGoesOn, Located, AtWork, InAttempt, Escalation, Reviewed,
     Goto, Throw
<1>19. CASE Integrate /\ ~Escalation
  BY <1>19 DEF RunGoesOn, Located, AtWork, InAttempt, Escalation, Integrate,
     Continue, Throw, Operation
<1>20. CASE RecordFailure BY <1>20 DEF RunGoesOn, RecordFailure, Continue
<1>21. CASE Decide /\ ~Escalation
  BY <1>21 DEF InCharge, OneAtATime, RunGoesOn, Located, AtWork, InAttempt,
     Worked, StateTyped, PendingTyped, Milestone, Escalation, Decide,
     Continue, MayRetry
<1>22. CASE Ended
  BY <1>22 DEF RunGoesOn, Ended, Goto, Continue, CleanUp, NeedsCleanup,
     Operation
<1>23. CASE Block BY <1>23 DEF RunGoesOn, Block, Idle
<1>24. CASE CompleteCreate
  BY <1>24 DEF RunGoesOn, CompleteCreate, Continue, AfterRecovery,
     NoOperation, Recovering
<1>25. CASE Launch
  BY <1>25 DEF RunGoesOn, Launch, Idle, Exit, Continue, Recovering
<1>26. CASE WorkerReturns BY <1>26 DEF RunGoesOn, WorkerReturns, Continue
<1>27. CASE CompletePrepare
  BY <1>27 DEF RunGoesOn, Worked, StateTyped, PendingTyped, Milestone,
     CompletePrepare, Continue, AfterRecovery, NoOperation, Recovering
<1>28. CASE CompleteIntegration
  BY <1>28 DEF RunGoesOn, CompleteIntegration, Idle, Continue, AfterRecovery,
     NoOperation, Recovering
<1>29. CASE CompleteCleanup
  BY <1>29 DEF RunGoesOn, CompleteCleanup, Continue, AfterRecovery,
     NoOperation, Recovering
<1>30. CASE Crash BY <1>30 DEF RunGoesOn, Crash, Idle
<1>31. CASE Drift BY <1>31 DEF RunGoesOn, Drift
<1>32. CASE ReachLimit BY <1>32 DEF RunGoesOn, ReachLimit
<1>33. CASE Enqueue
  <2>1. CASE ms' = ms BY <1>33, <2>1, EnqueueCases DEF RunGoesOn
  <2>2. CASE ms' # ms
    <3>1. /\ Canary \in Milestones /\ ms[Canary].status = "absent"
          /\ ms' = [ms EXCEPT ![Canary].status = "proposed"]
          /\ UNCHANGED <<active, run>> /\ run.status = "running"
      BY <1>33, <2>2, EnqueueCases DEF Acceptable
    <3> QED BY <3>1, StatusOnly DEF RunGoesOn, Worked
  <2> QED BY <2>1, <2>2
<1> QED
  BY <1>0, <1>1, <1>2, <1>3, <1>4, <1>5, <1>6, <1>7, <1>8, <1>9, <1>10, <1>11,
     <1>12, <1>13, <1>14, <1>15, <1>16, <1>17, <1>18, <1>19, <1>20, <1>21,
     <1>22, <1>23, <1>24, <1>25, <1>26, <1>27, <1>28, <1>29, <1>30, <1>31,
     <1>32, <1>33 DEF Next, Controller, Recover

(* A step launches a Worker only for an attempt that had none. *)
LEMMA LaunchLeftStep ==
    ASSUME Inductive, Next
    PROVE  LaunchLeft'
<1> USE DEF Inductive, TypeOK, state, process, world, history
<1>0. CASE Escalation BY <1>0 DEF LaunchLeft, Escalation, Escalate
<1>1. CASE Start BY <1>1 DEF LaunchLeft, Start
<1>2. CASE Open BY <1>2, OpenCases DEF LaunchLeft
<1>3. CASE StartRun
  BY <1>3 DEF LaunchLeft, StartRun, Goto, Idle, Exit, Continue, EntryOf,
     OnlyReported
<1>4. CASE PlanRetention
  BY <1>4 DEF LaunchLeft, PlanRetention, Goto, Idle, EntryOf, OnlyReported
<1>5. CASE PlanOnly BY <1>5 DEF LaunchLeft, PlanOnly, Goto
<1>6. CASE Stop BY <1>6 DEF LaunchLeft, Stop, Idle
<1>7. CASE Plan /\ ~Escalation
  <2>1. ASSUME NEW m \in Milestones, ProposalAccepted(m) PROVE LaunchLeft'
    <3>1. ms' = [ms EXCEPT ![m].status = "proposed"]
          /\ UNCHANGED <<launches, pending>>
      BY <2>1 DEF ProposalAccepted
    <3> QED BY <3>1, StatusOnly DEF LaunchLeft
  <2>2. CASE ProposalRejected BY <2>2 DEF ProposalRejected, LaunchLeft
  <2> QED BY <1>7, <2>1, <2>2 DEF Plan, StateTyped, Escalation
<1>8. CASE Approve BY <1>8 DEF LaunchLeft, Approve, Continue
<1>9. CASE Select /\ ~Escalation
  BY <1>9 DEF LaunchLeft, StateTyped, Escalation, Select, Goto, Idle, Exit,
     Choose
<1>10. CASE Leave /\ ~Escalation
  BY <1>10 DEF LaunchLeft, StateTyped, Escalation, Leave, Goto
<1>11. CASE BeginAttempt
  BY <1>11 DEF LaunchLeft, Worked, StateTyped, PendingTyped, WorldTyped,
     Milestone, BeginAttempt, Continue, Here
<1>12. CASE CreateWorkspace
  BY <1>12 DEF LaunchLeft, Located, CreateWorkspace, Goto, Continue, Throw,
     Operation
<1>13. CASE PrepareWorkspace
  BY <1>13 DEF LaunchLeft, PrepareWorkspace, Goto, Throw
<1>14. CASE RunWorker /\ ~Escalation
  BY <1>14 DEF LaunchLeft, Located, AtWork, Escalation, RunWorker, Continue,
     Throw, Operation, Here
<1>15. CASE Verify /\ ~Escalation
  <2>1. cur \in Milestones /\ ms[cur].status = "verifying"
    BY <1>15 DEF Verify, Located, AtWork, Here
  <2>2. UNCHANGED <<launches, pending>>
    BY <1>15, <2>1 DEF Verify, Escalation, StateTyped, Here
  <2>3. PICK t : ms' = [ms EXCEPT ![cur].verdict = t]
    BY <1>15, <2>1 DEF Verify, Escalation, StateTyped, Here
  <2>4. \A m \in Milestones : /\ ms'[m].attempts = ms[m].attempts
                              /\ ms'[m].status = ms[m].status
    BY <2>1, <2>3
  <2> QED BY <2>2, <2>4 DEF LaunchLeft
<1>16. CASE Verified /\ ~Escalation
  <2>1. cur \in Milestones
    BY <1>16 DEF Verified, Located, AtWork, InAttempt, Continue, Throw
  <2>2. UNCHANGED <<launches, pending>>
    BY <1>16, <2>1 DEF Verified, Escalation, Continue, Throw
  <2>3. CASE UNCHANGED ms BY <2>2, <2>3 DEF LaunchLeft
  <2>4. CASE ms' = [ms EXCEPT ![cur].status = "reviewing"]
    BY <2>1, <2>2, <2>4, StatusOnly DEF LaunchLeft
  <2> QED BY <1>16, <2>1, <2>3, <2>4 DEF Verified, Escalation, Continue, Throw
<1>17. CASE Review /\ ~Escalation
  BY <1>17 DEF LaunchLeft, Located, AtWork, Escalation, Review, Throw, Here
<1>18. CASE Reviewed /\ ~Escalation
  BY <1>18 DEF LaunchLeft, Located, AtWork, InAttempt, Escalation, Reviewed,
     Goto, Throw
<1>19. CASE Integrate /\ ~Escalation
  BY <1>19 DEF LaunchLeft, Located, AtWork, InAttempt, Escalation, Integrate,
     Continue, Throw, Operation
<1>20. CASE RecordFailure BY <1>20 DEF LaunchLeft, RecordFailure, Continue
<1>21. CASE Decide /\ ~Escalation
  <2>1. cur \in Milestones
    BY <1>21 DEF Decide, Located, AtWork, InAttempt, Continue, MayRetry
  <2>2. ms' = [ms EXCEPT ![cur].status = "retrying"]
        /\ UNCHANGED <<launches, pending>>
    BY <1>21, <2>1 DEF Decide, Escalation, Continue, MayRetry
  <2> QED BY <2>1, <2>2, StatusOnly DEF LaunchLeft
<1>22. CASE Ended
  BY <1>22 DEF LaunchLeft, Located, Ended, Goto, Continue, CleanUp,
     NeedsCleanup, Operation
<1>23. CASE Block BY <1>23 DEF LaunchLeft, Block, Idle
<1>24. CASE CompleteCreate
  BY <1>24 DEF LaunchLeft, CompleteCreate, Continue, AfterRecovery,
     NoOperation, Recovering
<1>25. CASE Launch
  <2>1. CASE exhausted
    BY <1>25, <2>1 DEF Launch, LaunchLeft, Idle, Exit, Continue, Recovering
  <2>2. CASE ~exhausted
    <3> DEFINE c == pending.milestone
    <3>1. c \in Milestones /\ ms[c].status = "running"
      BY <1>25 DEF Launch, PendingTyped, InCharge, Idle, Exit, Continue,
         Recovering
    <3>2. launches[c] < ms[c].attempts
      <4>1. pending.phase = "intent-persisted"
        BY <1>25 DEF Launch, Idle, Exit, Continue, Recovering
      <4>2. launches[c] <= ms[c].attempts /\ launches[c] # ms[c].attempts
        BY <3>1, <4>1 DEF LaunchLeft
      <4>3. launches[c] \in Nat /\ ms[c].attempts \in Nat
        BY <3>1 DEF WorldTyped, StateTyped, Milestone
      <4> QED BY <4>2, <4>3
    <3>3. launches' = [launches EXCEPT ![c] = @ + 1] /\ UNCHANGED ms
      BY <1>25, <2>2 DEF Launch, Idle, Exit, Continue, Recovering
    <3>4. pending' = [pending EXCEPT !.phase = "worker-invocation-started"]
      BY <1>25, <2>2 DEF Launch, Idle, Exit, Continue, Recovering
    <3>5. pending'.kind = "candidate-prepare" /\ pending'.milestone = c
          /\ pending'.phase = "worker-invocation-started"
      BY <1>25, <3>4 DEF Launch, Idle, Exit, Continue, Recovering
    <3>6. pending.kind = "candidate-prepare"
      BY <1>25 DEF Launch, Idle, Exit, Continue, Recovering
    <3>7. launches[c] + 1 <= ms[c].attempts
      BY <3>1, <3>2 DEF WorldTyped, StateTyped, Milestone
    <3> QED BY <3>1, <3>3, <3>5, <3>6, <3>7, OneLaunch DEF LaunchLeft
  <2> QED BY <2>1, <2>2
<1>26. CASE WorkerReturns BY <1>26 DEF LaunchLeft, WorkerReturns, Continue
<1>27. CASE CompletePrepare
  BY <1>27 DEF LaunchLeft, StateTyped, CompletePrepare, Continue,
     AfterRecovery, NoOperation, Recovering
<1>28. CASE CompleteIntegration
  <2>1. pending.milestone \in Milestones /\ pending.kind = "target-integrate"
    BY <1>28 DEF CompleteIntegration, PendingTyped, Idle, Continue,
       AfterRecovery, NoOperation, Recovering
  <2>2. UNCHANGED launches
    BY <1>28 DEF CompleteIntegration, Idle, Continue, AfterRecovery,
       NoOperation, Recovering
  <2>3. CASE UNCHANGED <<ms, pending>> BY <2>2, <2>3 DEF LaunchLeft
  <2>4. CASE ms' = [ms EXCEPT ![pending.milestone].status = "completed"]
    BY <2>1, <2>2, <2>4, StatusOnly DEF LaunchLeft
  <2> QED
    BY <1>28, <2>3, <2>4 DEF CompleteIntegration, Idle, Continue,
       AfterRecovery, NoOperation, Recovering
<1>29. CASE CompleteCleanup
  BY <1>29 DEF LaunchLeft, CompleteCleanup, Continue, AfterRecovery,
     NoOperation, Recovering
<1>30. CASE Crash BY <1>30 DEF LaunchLeft, Crash, Idle
<1>31. CASE Drift BY <1>31 DEF LaunchLeft, Drift
<1>32. CASE ReachLimit BY <1>32 DEF LaunchLeft, ReachLimit
<1>33. CASE Enqueue
  <2>1. CASE ms' = ms BY <1>33, <2>1, EnqueueCases DEF LaunchLeft
  <2>2. CASE ms' # ms
    <3>1. /\ Canary \in Milestones /\ UNCHANGED <<launches, pending>>
          /\ ms' = [ms EXCEPT ![Canary].status = "proposed"]
      BY <1>33, <2>2, EnqueueCases
    <3> QED BY <3>1, StatusOnly DEF LaunchLeft
  <2> QED BY <2>1, <2>2
<1> QED
  BY <1>0, <1>1, <1>2, <1>3, <1>4, <1>5, <1>6, <1>7, <1>8, <1>9, <1>10, <1>11,
     <1>12, <1>13, <1>14, <1>15, <1>16, <1>17, <1>18, <1>19, <1>20, <1>21,
     <1>22, <1>23, <1>24, <1>25, <1>26, <1>27, <1>28, <1>29, <1>30, <1>31,
     <1>32, <1>33 DEF Next, Controller, Recover

(* A step moves the target only to what passed both gates. *)
LEMMA GatedStep ==
    ASSUME Inductive, Next
    PROVE  Gated'
<1> USE DEF Inductive, TypeOK, state, process, world, history
<1>0. CASE Escalation
  <2>1. PICK m \in Milestones \cup {None} : Escalate(m) BY <1>0 DEF Escalation
  <2>2. pc' = "ended" /\ UNCHANGED <<pending, approved, integrated>>
        /\ pending.kind = "none"
    BY <1>0, <2>1 DEF Escalation, Escalate, Located
  <2>3. CASE m \in Milestones /\ ms[m].status \notin Terminal
    <3>1. ms' = [ms EXCEPT ![m].status = "escalated"]
          /\ ms[m].status # "completed"
      BY <2>1, <2>3 DEF Escalate, Terminal
    <3> QED BY <2>2, <2>3, <3>1, GatedStatus
  <2>4. CASE ~(m \in Milestones /\ ms[m].status \notin Terminal)
    BY <2>1, <2>2, <2>4 DEF Escalate, Gated, IntegratedSurvivedGates
  <2> QED BY <2>3, <2>4
<1>1. CASE Start BY <1>1 DEF Gated, IntegratedSurvivedGates, Start
<1>2. CASE Open BY <1>2, OpenCases DEF Gated, IntegratedSurvivedGates
<1>3. CASE StartRun
  BY <1>3 DEF Gated, IntegratedSurvivedGates, StartRun, Goto, Idle, Exit,
     Continue, EntryOf, OnlyReported
<1>4. CASE PlanRetention
  BY <1>4 DEF Gated, IntegratedSurvivedGates, PlanRetention, Goto, Idle,
     EntryOf, OnlyReported
<1>5. CASE PlanOnly BY <1>5 DEF Gated, IntegratedSurvivedGates, PlanOnly, Goto
<1>6. CASE Stop BY <1>6 DEF Gated, IntegratedSurvivedGates, Stop, Idle
<1>7. CASE Plan /\ ~Escalation
  <2>1. ASSUME NEW m \in Milestones, ProposalAccepted(m) PROVE Gated'
    <3>1. ms' = [ms EXCEPT ![m].status = "proposed"]
          /\ ms[m].status # "completed"
      BY <2>1 DEF ProposalAccepted, Acceptable
    <3>2. pc' = "approve" /\ UNCHANGED <<pending, approved, integrated>>
          /\ pending.kind = "none"
      BY <1>7, <2>1 DEF Plan, ProposalAccepted, Located
    <3> QED BY <3>1, <3>2, GatedStatus
  <2>2. CASE ProposalRejected
    BY <1>7, <2>2 DEF Plan, ProposalRejected, Gated, IntegratedSurvivedGates
  <2> QED BY <1>7, <2>1, <2>2 DEF Plan, StateTyped, Escalation
<1>8. CASE Approve
  <2>1. cur \in Milestones /\ ms[cur].status # "completed"
    BY <1>8 DEF Approve, Located, AtWork, Counted, Continue
  <2>2. ms' = [ms EXCEPT ![cur].status = "ready"]
        /\ UNCHANGED <<pending, approved, integrated>>
        /\ pending.kind = "none" /\ pc' \notin {"approved", "reviewed"}
    BY <1>8 DEF Approve, Located, Continue
  <2> QED BY <2>1, <2>2, GatedStatus
<1>9. CASE Select /\ ~Escalation
  BY <1>9 DEF Gated, IntegratedSurvivedGates, StateTyped, Escalation, Select,
     Goto, Idle, Exit, Choose
<1>10. CASE Leave /\ ~Escalation
  BY <1>10 DEF Gated, IntegratedSurvivedGates, StateTyped, Escalation, Leave,
     Goto
<1>11. CASE BeginAttempt
  BY <1>11 DEF Gated, IntegratedSurvivedGates, Located, StateTyped,
     BeginAttempt, Continue, Here
<1>12. CASE CreateWorkspace
  BY <1>12 DEF Gated, IntegratedSurvivedGates, Located, CreateWorkspace, Goto,
     Continue, Throw, Operation
<1>13. CASE PrepareWorkspace
  BY <1>13 DEF Gated, IntegratedSurvivedGates, PrepareWorkspace, Goto, Throw
<1>14. CASE RunWorker /\ ~Escalation
  BY <1>14 DEF Gated, IntegratedSurvivedGates, Located, AtWork, Escalation,
     RunWorker, Continue, Throw, Operation, Here
<1>15. CASE Verify /\ ~Escalation
  <2>1. cur \in Milestones /\ ms[cur].status = "verifying"
    BY <1>15 DEF Verify, Located, AtWork, Here
  <2>2. UNCHANGED <<approved, integrated, pending>>
        /\ pending.kind = "none" /\ pc' = "verified"
    BY <1>15, <2>1 DEF Verify, Escalation, StateTyped, Located, Here
  <2>3. PICK t : ms' = [ms EXCEPT ![cur].verdict = t]
    BY <1>15, <2>1 DEF Verify, Escalation, StateTyped, Here
  <2>4. \A m \in Milestones : ms'[m].status = ms[m].status
        /\ (m # cur => ms'[m].verdict = ms[m].verdict)
    BY <2>1, <2>3
  <2>5. integrated[cur] = 0 BY <2>1, <2>2 DEF Gated
  <2> QED BY <2>2, <2>4, <2>5 DEF Gated, IntegratedSurvivedGates
<1>16. CASE Verified /\ ~Escalation
  <2>1. cur \in Milestones /\ ms[cur].status # "completed"
    BY <1>16 DEF Verified, Located, AtWork, InAttempt, InCharge, Worked,
       Continue, Throw
  <2>2. UNCHANGED <<approved, integrated, pending>>
        /\ pending.kind = "none" /\ pc' \notin {"approved", "reviewed"}
    BY <1>16, <2>1 DEF Verified, Escalation, Located, Continue, Throw
  <2>3. CASE UNCHANGED ms BY <2>2, <2>3 DEF Gated, IntegratedSurvivedGates
  <2>4. CASE ms' = [ms EXCEPT ![cur].status = "reviewing"]
    BY <2>1, <2>2, <2>4, GatedStatus
  <2> QED BY <1>16, <2>1, <2>3, <2>4 DEF Verified, Escalation, Continue, Throw
<1>17. CASE Review /\ ~Escalation
  BY <1>17 DEF Gated, IntegratedSurvivedGates, InCharge, Located, AtWork,
     InAttempt, Worked, StateTyped, PendingTyped, WorldTyped, Milestone,
     Escalation, Review, Throw, Here
<1>18. CASE Reviewed /\ ~Escalation
  BY <1>18 DEF Gated, IntegratedSurvivedGates, Located, AtWork, InAttempt,
     Escalation, Reviewed, Goto, Throw
<1>19. CASE Integrate /\ ~Escalation
  BY <1>19 DEF Gated, IntegratedSurvivedGates, Located, AtWork, InAttempt,
     Escalation, Integrate, Continue, Throw, Operation
<1>20. CASE RecordFailure
  BY <1>20 DEF Gated, IntegratedSurvivedGates, RecordFailure, Continue
<1>21. CASE Decide /\ ~Escalation
  <2>1. cur \in Milestones /\ ms[cur].status # "completed"
    BY <1>21 DEF Decide, Located, AtWork, InAttempt, InCharge, Worked,
       Continue, MayRetry
  <2>2. ms' = [ms EXCEPT ![cur].status = "retrying"]
        /\ UNCHANGED <<approved, integrated, pending>>
        /\ pending.kind = "none" /\ pc' = "process"
    BY <1>21, <2>1 DEF Decide, Escalation, Located, Continue, MayRetry
  <2> QED BY <2>1, <2>2, GatedStatus
<1>22. CASE Ended
  BY <1>22 DEF Gated, IntegratedSurvivedGates, Located, Ended, Goto, Continue,
     CleanUp, NeedsCleanup, Operation
<1>23. CASE Block BY <1>23 DEF Gated, IntegratedSurvivedGates, Block, Idle
<1>24. CASE CompleteCreate
  BY <1>24 DEF Gated, IntegratedSurvivedGates, CompleteCreate, Continue,
     AfterRecovery, NoOperation, Recovering
<1>25. CASE Launch
  <2>1. pending.kind = "candidate-prepare"
        /\ pending'.kind = "candidate-prepare"
    BY <1>25 DEF Launch, PendingTyped, Idle, Exit, Continue, Recovering
  <2>2. UNCHANGED <<ms, approved, integrated>> /\ pc' \in {"down", "worker"}
    BY <1>25 DEF Launch, Idle, Exit, Continue, Recovering
  <2> QED BY <2>1, <2>2 DEF Gated, IntegratedSurvivedGates
<1>26. CASE WorkerReturns
  BY <1>26 DEF Gated, IntegratedSurvivedGates, WorkerReturns, Continue
<1>27. CASE CompletePrepare
  BY <1>27 DEF Gated, IntegratedSurvivedGates, InCharge, InAttempt, Worked,
     StateTyped, PendingTyped, WorldTyped, Milestone, CompletePrepare,
     Continue, AfterRecovery, NoOperation, Recovering
<1>28. CASE CompleteIntegration
  BY <1>28, Trees, Limits DEF Gated, IntegratedSurvivedGates, InCharge,
     OneAtATime, Located, AtWork, InAttempt, Worked, StateTyped, PendingTyped,
     WorldTyped, Milestone, CompleteIntegration, Idle, Continue,
     AfterRecovery, NoOperation, Recovering
<1>29. CASE CompleteCleanup
  BY <1>29 DEF Gated, IntegratedSurvivedGates, CompleteCleanup, Continue,
     AfterRecovery, NoOperation, Recovering
<1>30. CASE Crash BY <1>30 DEF Gated, IntegratedSurvivedGates, Crash, Idle
<1>31. CASE Drift BY <1>31 DEF Gated, IntegratedSurvivedGates, Drift
<1>32. CASE ReachLimit BY <1>32 DEF Gated, IntegratedSurvivedGates, ReachLimit
<1>33. CASE Enqueue
  <2>1. CASE ms' = ms
    BY <1>33, <2>1, EnqueueCases DEF Gated, IntegratedSurvivedGates
  <2>2. CASE ms' # ms
    <3>1. /\ Canary \in Milestones /\ ms[Canary].status # "completed"
          /\ ms' = [ms EXCEPT ![Canary].status = "proposed"]
          /\ UNCHANGED <<pending, approved, integrated>>
          /\ pending.kind = "none" /\ pc' = "approve"
      BY <1>33, <2>2, EnqueueCases DEF Acceptable
    <3> QED BY <3>1, GatedStatus
  <2> QED BY <2>1, <2>2
<1> QED
  BY <1>0, <1>1, <1>2, <1>3, <1>4, <1>5, <1>6, <1>7, <1>8, <1>9, <1>10, <1>11,
     <1>12, <1>13, <1>14, <1>15, <1>16, <1>17, <1>18, <1>19, <1>20, <1>21,
     <1>22, <1>23, <1>24, <1>25, <1>26, <1>27, <1>28, <1>29, <1>30, <1>31,
     <1>32, <1>33 DEF Next, Controller, Recover

(* A step begins no milestone while another one is owed to its exception. *)
LEMMA OwedStep ==
    ASSUME Inductive, Next
    PROVE  Owed'
<1> USE DEF Inductive, TypeOK, state, process, world, history
<1>0. CASE Escalation
  BY <1>0 DEF Owed, RequiredConsumerNext, Worked, Escalation, Escalate
<1>1. CASE Start BY <1>1 DEF Owed, RequiredConsumerNext, Start
<1>2. CASE Open
  BY <1>2 DEF Owed, RequiredConsumerNext, Open, Goto, Idle, Exit, Continue,
     CleanUp, NeedsCleanup, Operation
<1>3. CASE StartRun
  BY <1>3 DEF Owed, RequiredConsumerNext, StartRun, Goto, Idle, Exit,
     Continue, EntryOf, OnlyReported
<1>4. CASE PlanRetention
  BY <1>4 DEF Owed, RequiredConsumerNext, PlanRetention, Goto, Idle, EntryOf,
     OnlyReported
<1>5. CASE PlanOnly BY <1>5 DEF Owed, RequiredConsumerNext, PlanOnly, Goto
<1>6. CASE Stop BY <1>6 DEF Owed, RequiredConsumerNext, Stop, Idle
<1>7. CASE Plan /\ ~Escalation
  BY <1>7 DEF Owed, RequiredConsumerNext, AtWork, InAttempt, Worked,
     StateTyped, PendingTyped, Milestone, Acceptable, Escalation, Plan,
     ProposalAccepted, ProposalRejected
<1>8. CASE Approve BY <1>8 DEF Owed, RequiredConsumerNext, Approve, Continue
<1>9. CASE Select /\ ~Escalation
  BY <1>9 DEF Owed, RequiredConsumerNext, RunGoesOn, AtWork, InAttempt,
     Worked, StateTyped, PendingTyped, Milestone, Runnable, Selectable,
     FirstSelectable, Escalation, Select, Goto, Idle, Exit, Choose
<1>10. CASE Leave /\ ~Escalation
  BY <1>10 DEF Owed, RequiredConsumerNext, StateTyped, Escalation, Leave, Goto
<1>11. CASE BeginAttempt
  BY <1>11 DEF Owed, RequiredConsumerNext, StateTyped, BeginAttempt, Continue,
     Here
<1>12. CASE CreateWorkspace
  BY <1>12 DEF Owed, RequiredConsumerNext, CreateWorkspace, Goto, Continue,
     Throw, Operation
<1>13. CASE PrepareWorkspace
  BY <1>13 DEF Owed, RequiredConsumerNext, InCharge, Located, AtWork,
     InAttempt, PrepareWorkspace, Goto, Throw
<1>14. CASE RunWorker /\ ~Escalation
  BY <1>14 DEF Owed, RequiredConsumerNext, Located, AtWork, Escalation,
     RunWorker, Continue, Throw, Operation, Here
<1>15. CASE Verify /\ ~Escalation
  BY <1>15 DEF Owed, RequiredConsumerNext, Located, AtWork, InAttempt, Worked,
     StateTyped, PendingTyped, Milestone, Escalation, Verify, Here
<1>16. CASE Verified /\ ~Escalation
  BY <1>16 DEF Owed, RequiredConsumerNext, InCharge, Located, AtWork,
     InAttempt, Worked, StateTyped, PendingTyped, Milestone, Escalation,
     Verified, Continue, Throw
<1>17. CASE Review /\ ~Escalation
  BY <1>17 DEF Owed, RequiredConsumerNext, Located, AtWork, Escalation,
     Review, Throw, Here
<1>18. CASE Reviewed /\ ~Escalation
  BY <1>18 DEF Owed, RequiredConsumerNext, Located, AtWork, InAttempt,
     Escalation, Reviewed, Goto, Throw
<1>19. CASE Integrate /\ ~Escalation
  BY <1>19 DEF Owed, RequiredConsumerNext, Located, AtWork, InAttempt,
     Escalation, Integrate, Continue, Throw, Operation
<1>20. CASE RecordFailure
  BY <1>20 DEF Owed, RequiredConsumerNext, RecordFailure, Continue
<1>21. CASE Decide /\ ~Escalation
  BY <1>21 DEF Owed, RequiredConsumerNext, InCharge, Located, AtWork,
     InAttempt, Worked, StateTyped, PendingTyped, Milestone, Escalation,
     Decide, Continue, MayRetry
<1>22. CASE Ended
  BY <1>22 DEF Owed, RequiredConsumerNext, Ended, Goto, Continue, CleanUp,
     NeedsCleanup, Operation
<1>23. CASE Block BY <1>23 DEF Owed, RequiredConsumerNext, Block, Idle
<1>24. CASE CompleteCreate
  BY <1>24 DEF Owed, RequiredConsumerNext, CompleteCreate, Continue,
     AfterRecovery, NoOperation, Recovering
<1>25. CASE Launch
  BY <1>25 DEF Owed, RequiredConsumerNext, Launch, Idle, Exit, Continue,
     Recovering
<1>26. CASE WorkerReturns
  BY <1>26 DEF Owed, RequiredConsumerNext, WorkerReturns, Continue
<1>27. CASE CompletePrepare
  BY <1>27 DEF Owed, RequiredConsumerNext, InCharge, Located, AtWork,
     InAttempt, Worked, StateTyped, PendingTyped, Milestone, CompletePrepare,
     Continue, AfterRecovery, NoOperation, Recovering
<1>28. CASE CompleteIntegration
  <2> DEFINE c == pending.milestone
  <2>1. c \in Milestones /\ pending.kind = "target-integrate" /\ active = c
    BY <1>28 DEF CompleteIntegration, PendingTyped, InCharge, OneAtATime,
       Idle, Continue, AfterRecovery, NoOperation, Recovering
  <2>2. CASE ~Publishable(c)
    BY <1>28, <2>2 DEF CompleteIntegration, Owed, RequiredConsumerNext, Idle,
       Continue, AfterRecovery, NoOperation, Recovering
  <2>3. CASE Publishable(c)
    <3>1. ms' = [ms EXCEPT ![c].status = "completed"]
          /\ required' = RequiredAfter(c)
          /\ pc' \in {"open", "ended"}
      BY <1>28, <2>3 DEF CompleteIntegration, Idle, Continue, AfterRecovery,
         NoOperation, Recovering
    <3>2. ms'[c].status = "completed"
          /\ \A m \in Milestones : m # c => ms'[m].status = ms[m].status
      BY <2>1, <3>1, StatusOnly
    <3>3. \A m \in Milestones : ms'[m].status \notin Worked
      <4>1. \A m \in Milestones : m # c => ms[m].status \notin Worked
        BY <2>1 DEF InCharge, OneAtATime
      <4> QED BY <3>2, <4>1 DEF Worked
    <3>4. required' \in Milestones \cup {None} /\ required' # c
      BY <2>1, <3>1, RequiredTyped DEF StateTyped
    <3>5. required' # None => ms[required'].status # "completed"
      BY <2>3, <3>1 DEF Publishable
    <3>6. required' # None => ms'[required'].status # "completed"
      BY <3>2, <3>4, <3>5
    <3> QED BY <3>1, <3>3, <3>6 DEF Owed, RequiredConsumerNext
  <2> QED BY <2>2, <2>3
<1>29. CASE CompleteCleanup
  BY <1>29 DEF Owed, RequiredConsumerNext, CompleteCleanup, Continue,
     AfterRecovery, NoOperation, Recovering
<1>30. CASE Crash BY <1>30 DEF Owed, RequiredConsumerNext, Crash, Idle
<1>31. CASE Drift BY <1>31 DEF Owed, RequiredConsumerNext, Drift
<1>32. CASE ReachLimit BY <1>32 DEF Owed, RequiredConsumerNext, ReachLimit
<1>33. CASE Enqueue
  <2>1. CASE pc' # "approve"
    BY <1>33, <2>1, EnqueueCases DEF Owed, RequiredConsumerNext
  <2>2. CASE pc' = "approve"
    <3>1. /\ Canary \in Milestones /\ UNCHANGED <<required, active, run, pending>>
          /\ ms' = [ms EXCEPT ![Canary].status = "proposed"]
          /\ ms[Canary].status = "absent"
          /\ cur' = Canary /\ required \in {None, Canary}
      BY <1>33, <2>2, EnqueueCases DEF Acceptable
    <3> QED BY <3>1, StatusOnly DEF Owed, RequiredConsumerNext, Worked
  <2> QED BY <2>1, <2>2
<1> QED
  BY <1>0, <1>1, <1>2, <1>3, <1>4, <1>5, <1>6, <1>7, <1>8, <1>9, <1>10, <1>11,
     <1>12, <1>13, <1>14, <1>15, <1>16, <1>17, <1>18, <1>19, <1>20, <1>21,
     <1>22, <1>23, <1>24, <1>25, <1>26, <1>27, <1>28, <1>29, <1>30, <1>31,
     <1>32, <1>33 DEF Next, Controller, Recover
------------------------------------------------------------------------------
(* The initial state has the invariant.                                      *)
LEMMA InitInductive == Init => Inductive
<1> SUFFICES ASSUME Init PROVE Inductive OBVIOUS
<1>1. StateTyped
  BY Trees DEF Init, StateTyped, Milestone, Status, Action, RunStatus
<1>2. PendingTyped BY Trees DEF Init, PendingTyped, NoOperation
<1>3. ProcessTyped BY Limits DEF Init, ProcessTyped, Stage, Command
<1>4. WorldTyped BY Trees DEF Init, WorldTyped
<1>5. Located /\ RunGoesOn
  BY DEF Init, Located, RunGoesOn, NoOperation, AtWork, InAttempt
<1>6. Counted BY Limits DEF Init, Counted
<1>7. InCharge
  BY DEF Init, InCharge, OneAtATime, NoOperation, InAttempt, Worked, Kind
<1>8. LaunchLeft /\ Gated /\ Owed
  BY DEF Init, LaunchLeft, Gated, IntegratedSurvivedGates, Owed,
     RequiredConsumerNext,
         NoOperation
<1> QED
  BY <1>1, <1>2, <1>3, <1>4, <1>5, <1>6, <1>7, <1>8 DEF Inductive, TypeOK

(* Every step keeps it.                                                      *)
LEMMA NextInductive == Inductive /\ [Next]_vars => Inductive'
<1> SUFFICES ASSUME Inductive, [Next]_vars PROVE Inductive' OBVIOUS
<1>1. CASE Next
  <2>1. TypeOK'
    BY <1>1, StateTypedStep, PendingTypedStep, ProcessTypedStep, WorldTypedStep
       DEF TypeOK
  <2>2. Located' /\ Counted' /\ InCharge'
    BY <1>1, LocatedStep, CountedStep, InChargeStep
  <2>3. RunGoesOn' /\ LaunchLeft' /\ Gated' /\ Owed'
    BY <1>1, RunGoesOnStep, LaunchLeftStep, GatedStep, OwedStep
  <2> QED BY <2>1, <2>2, <2>3 DEF Inductive
<1>2. CASE UNCHANGED vars
  <2> USE <1>2 DEF Inductive, vars, state, process, world, history
  <2>1. TypeOK'
    BY DEF TypeOK, StateTyped, PendingTyped, ProcessTyped, WorldTyped
  <2>2. Located' /\ Counted' /\ RunGoesOn' /\ LaunchLeft'
    BY DEF Located, Counted, RunGoesOn, LaunchLeft
  <2>3. InCharge' BY DEF InCharge, OneAtATime
  <2>4. Gated' /\ Owed'
    BY DEF Gated, IntegratedSurvivedGates, Owed, RequiredConsumerNext
  <2> QED BY <2>1, <2>2, <2>3, <2>4
<1> QED BY <1>1, <1>2

(* The invariant of the loop: types, place and the parts behind each         *)
(* property below hold in every reachable state.                             *)
THEOREM LoopInvariant == Spec => []Inductive
<1> QED BY InitInductive, NextInductive, PTL DEF Spec

(* The published state, the process and the workspaces stay of their types   *)
(* (milestone-state.ts, the schemas of the state).                           *)
THEOREM LoopTyped == Spec => []TypeOK
<1>1. Inductive => TypeOK BY DEF Inductive
<1> QED BY <1>1, LoopInvariant, PTL

(* A Worker is launched at most once for an attempt, and there are never     *)
(* more attempts than allowed, whatever crashes (beginAttempt,               *)
(* launchCandidateWorker, decideRetry).                                      *)
THEOREM WorkerOnce == Spec => []WorkerOncePerAttempt
<1>1. Inductive => WorkerOncePerAttempt
  BY DEF Inductive, LaunchLeft, Counted, WorkerOncePerAttempt
<1> QED BY <1>1, LoopInvariant, PTL

(* One milestone is worked on at a time, and it is the one an operation is   *)
(* pending for (run, processMilestone, the recovery of an operation).        *)
THEOREM OneMilestone == Spec => []OneAtATime
<1>1. Inductive => OneAtATime BY DEF Inductive, InCharge
<1> QED BY <1>1, LoopInvariant, PTL

(* The target moves only to what verification passed and a reviewer          *)
(* approved, however workspaces change meanwhile (verify, review, integrate). *)
THEOREM GatesSurvived == Spec => []IntegratedSurvivedGates
<1>1. Inductive => IntegratedSurvivedGates BY DEF Inductive, Gated
<1> QED BY <1>1, LoopInvariant, PTL

(* The consumer of an exception goes before any other milestone              *)
(* (assertRequiredVerticalConsumerStart,                                     *)
(* requiredVerticalConsumerAfterCompletion).                                 *)
THEOREM ConsumerNext == Spec => []RequiredConsumerNext
<1>1. Inductive => RequiredConsumerNext BY DEF Inductive, Owed
<1> QED BY <1>1, LoopInvariant, PTL
=============================================================================
