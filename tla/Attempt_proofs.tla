---------------------------- MODULE Attempt_proofs ----------------------------
(***************************************************************************)
(* Safety of an attempt, for any number of faults, any timeout and grace     *)
(* period, and any interference.  The inductive invariant has a part for     *)
(* each part of the attempt, which says what its process, its published      *)
(* phase and the world know of one another.                                  *)
(***************************************************************************)
EXTENDS Attempt, TLAPS

------------------------------------------------------------------------------
(* Creation of the workspace.                                                *)

(* Without outsiders, and with a final name that was free, there is one      *)
(* entry at most, and what the process decided on is still what it finds.    *)
CreateUndisturbed ==
    ~disturbed =>
        /\ rootSafe /\ target /\ ~raced
        /\ final # "foreign" =>
              /\ temp \in {"missing", "source-clone", "ready"} /\ final \in {"missing", "ready"}
              /\ temp = "missing" \/ final = "missing"
              /\ durable = "published" => final = "ready"
              /\ pc # "blocking"
              /\ pc = "cloning" => temp = "missing" /\ final = "missing"
              /\ pc = "rename" => temp = "ready"

(* What the process found, if outsiders did not act since it started.        *)
CreateSeen == ~raced /\ pc \in {"adopt", "complete"} => Create!Classify = "final-ready"

CreateInv == Create!TypeOK /\ CreateUndisturbed /\ CreateSeen

(* Every step of the creation, and of outsiders, keeps its types.            *)
LEMMA CreateTyped ==
    ASSUME Create!TypeOK, Create!Next
    PROVE  Create!TypeOK'
<1> USE AttemptAssumption DEF Create!TypeOK, Create!Persist, Create!Look, Create!Goto,
        Create!Fault, Create!FailedCall, Create!entryVars, Create!outsideVars, Create!faultVars,
        Create!Phase, Create!Active, Create!Stage, Create!Entry
<1>1. durable' \in Create!Phase /\ pc' \in Create!Stage /\ faults' \in Nat
  <2>1. CASE Create!PublishIntent \/ Create!Restart \/ Create!Inspect
    BY <2>1 DEF Create!PublishIntent, Create!Restart, Create!Inspect, Create!Manual,
       Create!Classify
  <2>2. CASE Create!BeginClone \/ Create!RecordClone \/ Create!BeginPublish \/ Create!AdoptFinal
    BY <2>2 DEF Create!BeginClone, Create!RecordClone, Create!BeginPublish, Create!AdoptFinal,
       Create!AdvanceTo
  <2>3. CASE Create!BeforeClone \/ Create!Clone \/ Create!Finish
    BY <2>3 DEF Create!BeforeClone, Create!Clone, Create!Finish
  <2>4. CASE Create!BeforeRename \/ Create!Rename \/ Create!AfterRename
    BY <2>4 DEF Create!BeforeRename, Create!Rename, Create!AfterRename
  <2>5. CASE Create!Complete \/ Create!Block \/ Create!Catch \/ Create!Crash
    BY <2>5 DEF Create!Complete, Create!Block, Create!Catch, Create!Crash
  <2>6. CASE Create!TearClone \/ Create!Drift \/ Create!TargetRestored
    BY <2>6 DEF Create!TearClone, Create!Drift, Create!TargetRestored
  <2> QED
    BY <2>1, <2>2, <2>3, <2>4, <2>5, <2>6
    DEF Create!Next, Create!Controller, Create!Environment
<1>2. temp' \in Create!Entry /\ final' \in Create!Entry
  BY DEF Create!Next, Create!Controller, Create!Environment, Create!PublishIntent,
     Create!Restart, Create!Inspect, Create!BeginClone, Create!RecordClone,
     Create!BeginPublish, Create!AdoptFinal, Create!AdvanceTo, Create!BeforeClone,
     Create!Clone, Create!Finish, Create!BeforeRename, Create!Rename, Create!AfterRename,
     Create!Complete, Create!Block, Create!Catch, Create!Crash, Create!TearClone,
     Create!Drift, Create!TargetRestored
<1>3. /\ rootSafe' \in BOOLEAN /\ target' \in BOOLEAN
      /\ disturbed' \in BOOLEAN /\ raced' \in BOOLEAN
  <2>1. CASE Create!Restart \/ Create!Clone \/ Create!TearClone
    BY <2>1 DEF Create!Restart, Create!Clone, Create!TearClone
  <2>2. CASE Create!Drift
    BY <2>2 DEF Create!Drift
  <2>3. CASE Create!TargetRestored
    BY <2>3 DEF Create!TargetRestored
  <2>4. CASE ~(Create!Restart \/ Create!Clone \/ Create!TearClone \/ Create!Drift
              \/ Create!TargetRestored)
    <3>1. UNCHANGED <<rootSafe, target, disturbed, raced>>
      BY <2>4 DEF Create!Next, Create!Controller, Create!Environment, Create!PublishIntent,
         Create!Inspect, Create!BeginClone, Create!RecordClone, Create!BeginPublish,
         Create!AdoptFinal, Create!AdvanceTo, Create!BeforeClone, Create!Finish,
         Create!BeforeRename, Create!Rename, Create!AfterRename, Create!Complete,
         Create!Block, Create!Catch, Create!Crash
    <3> QED BY <3>1
  <2> QED BY <2>1, <2>2, <2>3, <2>4
<1> QED BY <1>1, <1>2, <1>3

(* Without outsiders, every step of the creation leaves what it expects.     *)
LEMMA CreateUndisturbedKept ==
    ASSUME CreateInv, Create!Next
    PROVE  CreateUndisturbed'
<1> USE DEF CreateInv, CreateUndisturbed, CreateSeen, Create!TypeOK, Create!Persist, Create!Look,
        Create!Goto, Create!Fault, Create!FailedCall, Create!entryVars, Create!outsideVars,
        Create!faultVars, Create!Classify, Create!Manual
<1>1. CASE Create!PublishIntent \/ Create!Restart
  BY <1>1 DEF Create!PublishIntent, Create!Restart, Create!Active
<1>2. CASE Create!Inspect
  BY <1>2 DEF Create!Inspect, Create!Entry
<1>3. CASE Create!BeginClone \/ Create!RecordClone \/ Create!BeginPublish
  BY <1>3 DEF Create!BeginClone, Create!RecordClone, Create!BeginPublish,
     Create!AdvanceTo, Create!Rank, Create!Active, Create!Phase
<1>4. CASE Create!AdoptFinal
  BY <1>4 DEF Create!AdoptFinal, Create!AdvanceTo
<1>5. CASE Create!BeforeClone \/ Create!Clone \/ Create!Finish
  BY <1>5 DEF Create!BeforeClone, Create!Clone, Create!Finish
<1>6. CASE Create!BeforeRename \/ Create!Rename \/ Create!AfterRename
  BY <1>6 DEF Create!BeforeRename, Create!Rename, Create!AfterRename
<1>7. CASE Create!Complete \/ Create!Block \/ Create!Catch \/ Create!Crash
  BY <1>7 DEF Create!Complete, Create!Block, Create!Catch, Create!Crash
<1>8. CASE Create!TearClone \/ Create!Drift \/ Create!TargetRestored
  BY <1>8 DEF Create!TearClone, Create!Drift, Create!TargetRestored
<1> QED
  BY <1>1, <1>2, <1>3, <1>4, <1>5, <1>6, <1>7, <1>8
  DEF Create!Next, Create!Controller, Create!Environment

(* What the process has found stays so, unless outsiders act.                *)
LEMMA CreateSeenKept ==
    ASSUME CreateInv, Create!Next
    PROVE  CreateSeen'
<1> USE DEF CreateInv, CreateSeen, Create!Persist, Create!Look, Create!Goto, Create!Fault,
        Create!FailedCall, Create!entryVars, Create!outsideVars, Create!faultVars
<1>1. CASE Create!AdoptFinal
  BY <1>1 DEF Create!AdoptFinal, Create!AdvanceTo, Create!Classify
<1>2. CASE Create!Inspect
  BY <1>2 DEF Create!Inspect, Create!Classify, Create!Manual
<1>3. CASE Create!Drift \/ Create!TargetRestored
  BY <1>3 DEF Create!Drift, Create!TargetRestored, Create!TypeOK, Create!Classify
<1>4. CASE ~(Create!AdoptFinal \/ Create!Inspect \/ Create!Drift \/ Create!TargetRestored)
  <2>1. pc' \notin {"adopt", "complete"}
    BY <1>4 DEF Create!Next, Create!Controller, Create!Environment, Create!PublishIntent,
       Create!Restart, Create!BeginClone, Create!RecordClone, Create!BeginPublish,
       Create!AdvanceTo, Create!BeforeClone, Create!Clone, Create!Finish, Create!BeforeRename,
       Create!Rename, Create!AfterRename, Create!Complete, Create!Block, Create!Catch,
       Create!Crash, Create!TearClone
  <2> QED BY <2>1
<1> QED BY <1>1, <1>2, <1>3, <1>4

(* Every step of the creation destroys nothing, completes only with the      *)
(* exact clone, and blocks only for a cause.                                 *)
LEMMA CreateAuthorised ==
    ASSUME CreateInv, Create!Next
    PROVE  Create!DestroysNothing /\ Create!CompletesExact /\ Create!BlocksForCause
<1> USE DEF Create!Persist, Create!Look, Create!Goto, Create!Fault, Create!FailedCall,
        Create!entryVars, Create!outsideVars, Create!faultVars
<1>1. Create!DestroysNothing
  BY DEF Create!DestroysNothing, Create!Next, Create!Controller, Create!Environment,
     Create!PublishIntent, Create!Restart, Create!Inspect, Create!BeginClone,
     Create!RecordClone, Create!BeginPublish, Create!AdoptFinal, Create!AdvanceTo,
     Create!BeforeClone, Create!Clone, Create!Finish, Create!BeforeRename, Create!Rename,
     Create!AfterRename, Create!Complete, Create!Block, Create!Catch, Create!Crash,
     Create!TearClone, Create!TargetRestored
<1>2. durable' \in {"completed", "blocked"} /\ durable' # durable =>
         Create!Complete \/ Create!Block \/ Create!Catch
  BY DEF Create!Next, Create!Controller, Create!Environment, Create!Active,
     Create!PublishIntent, Create!Restart, Create!Inspect, Create!BeginClone,
     Create!RecordClone, Create!BeginPublish, Create!AdoptFinal, Create!AdvanceTo,
     Create!BeforeClone, Create!Clone, Create!Finish, Create!BeforeRename, Create!Rename,
     Create!AfterRename, Create!Crash, Create!TearClone, Create!Drift, Create!TargetRestored
<1>3. Create!CompletesExact
  BY <1>2 DEF Create!CompletesExact, Create!Complete, Create!Block, Create!Catch, CreateInv,
     CreateSeen, Create!Classify
<1>4. Create!BlocksForCause
  BY <1>2 DEF Create!BlocksForCause, Create!Complete, Create!Block, Create!Catch, CreateInv,
     CreateUndisturbed, Create!TypeOK, Create!Classify, Create!Manual
<1> QED BY <1>1, <1>3, <1>4

------------------------------------------------------------------------------
(* Preparation of the candidate.                                             *)

(* The published phase that each stage belongs to.                           *)
StageFits ==
    /\ pc = "launch" => durable = "intent-persisted"
    /\ pc = "gateway" => durable = "worker-invocation-started"
    /\ pc \in {"running", "failed"} => durable \in Prepare!Uncertain
    /\ pc \in {"first-turn", "turn", "record"} => durable = "worker-completed"
    /\ pc \in {"plan", "stage", "prepare"} => durable = "worker-evidence-recorded"
    /\ pc \in {"commit", "committing", "adopt"} => durable = "checkpoint-prepared"
    /\ pc \in {"evidence", "recorded"} => durable = "checkpoint-committed"
    /\ pc = "complete" => durable = "checkpoint-recorded"
    /\ pc # "down" => durable \in Prepare!Active

(* The Worker at each phase, and its launches.                               *)
WorkerFits ==
    /\ launches = IF worker = "idle" THEN 0 ELSE 1
    /\ durable \in {"none", "intent-persisted"} \/ pc = "gateway" => worker = "idle"
    /\ pc \in {"running", "failed"} => worker # "idle"
    /\ durable \in {"worker-completed", "worker-evidence-recorded", "checkpoint-prepared",
                    "checkpoint-committed", "checkpoint-recorded", "completed"} =>
          worker = "done"

(* What the process found, if outsiders did not act since it started.        *)
PrepareSeen ==
    ~raced =>
        /\ pc \in {"commit", "committing", "adopt", "evidence", "recorded", "complete"} =>
              bound = "ok" /\ ~Prepare!Banned /\ turn = "exact"
        /\ pc \in {"commit", "committing"} => Prepare!Committable
        /\ pc = "adopt" => Prepare!Adoptable
        /\ pc \in {"evidence", "recorded", "complete"} => Prepare!ResultStands
        /\ pc \in {"recorded", "complete"} => checkpoint = "exact"

(* Without outsiders, what a phase stands for is there.                      *)
PrepareUndisturbed ==
    ~disturbed =>
        /\ ~raced /\ bound = "ok" /\ head \in {"start", "worker", "checkpoint"}
        /\ turn # "conflict" /\ checkpoint # "conflict"
        /\ durable = "intent-persisted" => head = "start" /\ Prepare!Clean
        /\ \/ pc = "record"
           \/ durable \in {"worker-evidence-recorded", "checkpoint-prepared",
                           "checkpoint-committed", "checkpoint-recorded"}
           => turn = "exact"
        /\ pc = "stage" => plan.commit /\ plan.parent = head
        /\ pc = "prepare" \/ durable = "checkpoint-prepared" =>
              Prepare!Adoptable \/ Prepare!Committable
        /\ durable \in {"checkpoint-committed", "checkpoint-recorded"} => Prepare!ResultStands
        /\ durable = "checkpoint-recorded" => checkpoint = "exact"
        /\ pc = "blocking" => durable \in Prepare!Uncertain \/ Prepare!Banned

PrepareInv == Prepare!TypeOK /\ StageFits /\ WorkerFits /\ PrepareSeen /\ PrepareUndisturbed

(* The plan of a clean workspace takes it as it is, any other is committed.  *)
LEMMA PlanDrafted ==
    ASSUME Prepare!PlanCheckpoint
    PROVE  \/ pc' = "down" /\ plan' = plan
           \/ /\ pc' = "prepare" /\ Prepare!Clean
              /\ plan' = [parent |-> head, tree |-> headTree, commit |-> FALSE]
           \/ /\ pc' = "stage" /\ ~Prepare!Clean
              /\ plan' = [parent |-> head, tree |-> headTree, commit |-> TRUE]
<1>1. \/ pc' = "down" /\ plan' = plan
      \/ /\ pc' = IF Prepare!Clean THEN "prepare" ELSE "stage"
         /\ plan' = [parent |-> head, tree |-> headTree, commit |-> ~Prepare!Clean]
  BY DEF Prepare!PlanCheckpoint, Prepare!Look, Prepare!Goto, Prepare!Still, Prepare!planVars
<1>2. CASE Prepare!Clean
  <2>1. (~Prepare!Clean) = FALSE
    BY <1>2
  <2> QED BY <1>1, <1>2, <2>1, Zenon
<1>3. CASE ~Prepare!Clean
  <2>1. (~Prepare!Clean) = TRUE
    BY <1>3
  <2> QED BY <1>1, <1>3, <2>1, Zenon
<1> QED BY <1>2, <1>3

(* Every step of the preparation, and of outsiders, keeps its types.         *)
LEMMA PrepareTyped ==
    ASSUME Prepare!TypeOK, Prepare!Next
    PROVE  Prepare!TypeOK'
<1> USE AttemptAssumption
    DEF Prepare!TypeOK, Prepare!Look, Prepare!Goto, Prepare!Still,
        Prepare!Publish, Prepare!Persist, Prepare!PersistInGateway,
        Prepare!Fault, Prepare!treeVars, Prepare!evidenceVars,
        Prepare!planVars, Prepare!workerVars, Prepare!faultVars
<1>1. durable' \in Prepare!Phase /\ pc' \in Prepare!Stage
  <2> USE DEF Prepare!Phase, Prepare!Stage, Prepare!Active, Prepare!Uncertain
  <2>1. CASE Prepare!PublishIntent \/ Prepare!EscalateUnowned \/ Prepare!Restart
    BY <2>1
    DEF Prepare!PublishIntent, Prepare!EscalateUnowned, Prepare!Restart
  <2>2. CASE Prepare!Inspect
    BY <2>2
    DEF Prepare!Inspect, Prepare!NextSafeAction
  <2>3. CASE Prepare!BeginInvocation \/ Prepare!Launch \/ Prepare!RecordThread
             \/ Prepare!WorkerReturns
    BY <2>3
    DEF Prepare!BeginInvocation, Prepare!Launch, Prepare!RecordThread,
        Prepare!WorkerReturns
  <2>4. CASE Prepare!RecordCompletion \/ Prepare!GatewayFails
             \/ Prepare!BlockAmbiguous
    BY <2>4
    DEF Prepare!RecordCompletion, Prepare!GatewayFails, Prepare!BlockAmbiguous
  <2>5. CASE Prepare!WriteTurn \/ Prepare!RecordEvidence
    BY <2>5
    DEF Prepare!WriteTurn, Prepare!RecordEvidence
  <2>6. CASE Prepare!PlanCheckpoint \/ Prepare!StageChanges
             \/ Prepare!PublishPlan
    BY <2>6
    DEF Prepare!PlanCheckpoint, Prepare!StageChanges, Prepare!PublishPlan
  <2>7. CASE Prepare!BeforeCommit \/ Prepare!CommitStaged
    BY <2>7
    DEF Prepare!BeforeCommit, Prepare!CommitStaged
  <2>8. CASE Prepare!Adopt \/ Prepare!WriteCheckpoint
             \/ Prepare!RecordCheckpoint
    BY <2>8
    DEF Prepare!Adopt, Prepare!WriteCheckpoint, Prepare!RecordCheckpoint
  <2>9. CASE Prepare!Complete \/ Prepare!Block
    BY <2>9
    DEF Prepare!Complete, Prepare!Block
  <2>10. CASE Prepare!WorkerWrites
    BY <2>10
    DEF Prepare!WorkerWrites
  <2>11. CASE Prepare!Crash \/ Prepare!TearGit \/ Prepare!LimitReached
    BY <2>11
    DEF Prepare!Crash, Prepare!TearGit, Prepare!LimitReached
  <2>12. CASE Prepare!Drift
    BY <2>12
    DEF Prepare!Drift
  <2> QED
    BY <2>1, <2>2, <2>3, <2>4, <2>5, <2>6, <2>7, <2>8, <2>9, <2>10, <2>11, <2>12
    DEF Prepare!Next, Prepare!Controller, Prepare!Environment
<1>2. /\ head' \in Prepare!Commit /\ headTree' \in Prepare!Content
      /\ index' \in Prepare!Content /\ work' \in Prepare!Content
      /\ bound' \in Prepare!Binding /\ turn' \in Prepare!File /\ checkpoint' \in Prepare!File
      /\ worker' \in {"idle", "running", "done"}
  BY
  DEF Prepare!PublishIntent, Prepare!EscalateUnowned, Prepare!Restart,
      Prepare!Inspect, Prepare!BeginInvocation, Prepare!Launch,
      Prepare!RecordThread, Prepare!WorkerReturns, Prepare!RecordCompletion,
      Prepare!GatewayFails, Prepare!BlockAmbiguous, Prepare!WriteTurn,
      Prepare!RecordEvidence, Prepare!PlanCheckpoint, Prepare!StageChanges,
      Prepare!PublishPlan, Prepare!BeforeCommit, Prepare!CommitStaged,
      Prepare!Adopt, Prepare!WriteCheckpoint, Prepare!RecordCheckpoint,
      Prepare!Complete, Prepare!Block, Prepare!WorkerWrites, Prepare!Crash,
      Prepare!TearGit, Prepare!LimitReached, Prepare!Drift, Prepare!Next,
      Prepare!Controller, Prepare!Environment, Prepare!Commit, Prepare!Content,
      Prepare!Binding, Prepare!File
<1>3. plan' \in Prepare!Plan /\ result' \in Prepare!Result
  <2> USE DEF Prepare!Plan, Prepare!Result
  <2>1. CASE Prepare!Restart
    BY <2>1 DEF Prepare!Restart, Prepare!NoPlan, Prepare!Commit, Prepare!Content
  <2>2. CASE Prepare!PlanCheckpoint
    <3>1. plan' \in Prepare!Plan
      <4>1. head \in Prepare!Commit /\ headTree \in Prepare!Content /\ plan \in Prepare!Plan
        OBVIOUS
      <4> HIDE DEF Prepare!TypeOK
      <4>2. [parent |-> head, tree |-> headTree, commit |-> FALSE] \in Prepare!Plan
        BY <4>1
      <4>3. [parent |-> head, tree |-> headTree, commit |-> TRUE] \in Prepare!Plan
        BY <4>1
      <4> QED BY <2>2, <4>1, <4>2, <4>3, PlanDrafted, Zenon
    <3> QED BY <2>2, <3>1 DEF Prepare!PlanCheckpoint
  <2>3. CASE Prepare!StageChanges
    BY <2>3 DEF Prepare!StageChanges
  <2>4. CASE Prepare!Adopt
    BY <2>4 DEF Prepare!Adopt
  <2>5. CASE ~(Prepare!Restart \/ Prepare!PlanCheckpoint \/ Prepare!StageChanges \/ Prepare!Adopt)
    <3>1. UNCHANGED <<plan, result>>
      BY <2>5
      DEF Prepare!PublishIntent, Prepare!EscalateUnowned, Prepare!Inspect,
          Prepare!BeginInvocation, Prepare!Launch, Prepare!RecordThread,
          Prepare!WorkerReturns, Prepare!RecordCompletion,
          Prepare!GatewayFails, Prepare!BlockAmbiguous, Prepare!WriteTurn,
          Prepare!RecordEvidence, Prepare!PublishPlan, Prepare!BeforeCommit,
          Prepare!CommitStaged, Prepare!WriteCheckpoint,
          Prepare!RecordCheckpoint, Prepare!Complete, Prepare!Block,
          Prepare!WorkerWrites, Prepare!Crash, Prepare!TearGit,
          Prepare!LimitReached, Prepare!Drift, Prepare!Next,
          Prepare!Controller, Prepare!Environment
    <3> QED BY <3>1
  <2> QED BY <2>1, <2>2, <2>3, <2>4, <2>5
<1>4. launches' \in Nat /\ faults' \in Nat
  BY
  DEF Prepare!PublishIntent, Prepare!EscalateUnowned, Prepare!Restart,
      Prepare!Inspect, Prepare!BeginInvocation, Prepare!Launch,
      Prepare!RecordThread, Prepare!WorkerReturns, Prepare!RecordCompletion,
      Prepare!GatewayFails, Prepare!BlockAmbiguous, Prepare!WriteTurn,
      Prepare!RecordEvidence, Prepare!PlanCheckpoint, Prepare!StageChanges,
      Prepare!PublishPlan, Prepare!BeforeCommit, Prepare!CommitStaged,
      Prepare!Adopt, Prepare!WriteCheckpoint, Prepare!RecordCheckpoint,
      Prepare!Complete, Prepare!Block, Prepare!WorkerWrites, Prepare!Crash,
      Prepare!TearGit, Prepare!LimitReached, Prepare!Drift, Prepare!Next,
      Prepare!Controller, Prepare!Environment
<1>5. fresh' \in BOOLEAN /\ expired' \in BOOLEAN /\ disturbed' \in BOOLEAN /\ raced' \in BOOLEAN
  BY
  DEF Prepare!PublishIntent, Prepare!EscalateUnowned, Prepare!Restart,
      Prepare!Inspect, Prepare!BeginInvocation, Prepare!Launch,
      Prepare!RecordThread, Prepare!WorkerReturns, Prepare!RecordCompletion,
      Prepare!GatewayFails, Prepare!BlockAmbiguous, Prepare!WriteTurn,
      Prepare!RecordEvidence, Prepare!PlanCheckpoint, Prepare!StageChanges,
      Prepare!PublishPlan, Prepare!BeforeCommit, Prepare!CommitStaged,
      Prepare!Adopt, Prepare!WriteCheckpoint, Prepare!RecordCheckpoint,
      Prepare!Complete, Prepare!Block, Prepare!WorkerWrites, Prepare!Crash,
      Prepare!TearGit, Prepare!LimitReached, Prepare!Drift, Prepare!Next,
      Prepare!Controller, Prepare!Environment
<1> QED BY <1>1, <1>2, <1>3, <1>4, <1>5

(* Stage and published phase keep fitting each other.                        *)
LEMMA StageFitsKept ==
    ASSUME PrepareInv, Prepare!Next
    PROVE  StageFits'
<1> USE
    DEF PrepareInv, StageFits, Prepare!Uncertain, Prepare!Active, Prepare!Look,
        Prepare!Goto, Prepare!Still, Prepare!Publish, Prepare!Persist,
        Prepare!PersistInGateway, Prepare!Fault, Prepare!treeVars,
        Prepare!evidenceVars, Prepare!planVars, Prepare!workerVars,
        Prepare!faultVars
<1>1. CASE Prepare!PublishIntent \/ Prepare!EscalateUnowned \/ Prepare!Restart
  BY <1>1
  DEF Prepare!PublishIntent, Prepare!EscalateUnowned, Prepare!Restart
<1>2. CASE Prepare!Inspect
  BY <1>2
  DEF Prepare!Inspect, Prepare!NextSafeAction, Prepare!Drifted,
      Prepare!Unchanged, Prepare!Adoptable, Prepare!Committable,
      Prepare!ResultStands, Prepare!Clean, Prepare!Banned
<1>3. CASE Prepare!BeginInvocation \/ Prepare!Launch \/ Prepare!RecordThread
           \/ Prepare!WorkerReturns
  BY <1>3
  DEF Prepare!BeginInvocation, Prepare!Launch, Prepare!RecordThread,
      Prepare!WorkerReturns
<1>4. CASE Prepare!RecordCompletion \/ Prepare!GatewayFails
           \/ Prepare!BlockAmbiguous
  BY <1>4
  DEF Prepare!RecordCompletion, Prepare!GatewayFails, Prepare!BlockAmbiguous
<1>5. CASE Prepare!WriteTurn \/ Prepare!RecordEvidence
  BY <1>5
  DEF Prepare!WriteTurn, Prepare!RecordEvidence
<1>6. CASE Prepare!PlanCheckpoint \/ Prepare!StageChanges
           \/ Prepare!PublishPlan
  BY <1>6
  DEF Prepare!PlanCheckpoint, Prepare!StageChanges, Prepare!PublishPlan
<1>7. CASE Prepare!BeforeCommit \/ Prepare!CommitStaged
  BY <1>7
  DEF Prepare!BeforeCommit, Prepare!CommitStaged
<1>8. CASE Prepare!Adopt \/ Prepare!WriteCheckpoint
           \/ Prepare!RecordCheckpoint
  BY <1>8
  DEF Prepare!Adopt, Prepare!WriteCheckpoint, Prepare!RecordCheckpoint
<1>9. CASE Prepare!Complete \/ Prepare!Block
  BY <1>9
  DEF Prepare!Complete, Prepare!Block
<1>10. CASE Prepare!WorkerWrites
  BY <1>10
  DEF Prepare!WorkerWrites
<1>11. CASE Prepare!Crash \/ Prepare!TearGit \/ Prepare!LimitReached
  BY <1>11
  DEF Prepare!Crash, Prepare!TearGit, Prepare!LimitReached
<1>12. CASE Prepare!Drift
  BY <1>12
  DEF Prepare!Drift
<1> QED
  BY <1>1, <1>2, <1>3, <1>4, <1>5, <1>6, <1>7, <1>8, <1>9, <1>10, <1>11, <1>12
  DEF Prepare!Next, Prepare!Controller, Prepare!Environment

(* The Worker is where the published phase says.                             *)
LEMMA WorkerFitsKept ==
    ASSUME PrepareInv, Prepare!Next
    PROVE  WorkerFits'
<1> USE
    DEF PrepareInv, StageFits, WorkerFits, Prepare!TypeOK, Prepare!Uncertain,
        Prepare!Active, Prepare!Look, Prepare!Goto, Prepare!Still,
        Prepare!Publish, Prepare!Persist, Prepare!PersistInGateway,
        Prepare!Fault, Prepare!treeVars, Prepare!evidenceVars,
        Prepare!planVars, Prepare!workerVars, Prepare!faultVars
<1>1. CASE Prepare!PublishIntent \/ Prepare!EscalateUnowned \/ Prepare!Restart
  BY <1>1
  DEF Prepare!PublishIntent, Prepare!EscalateUnowned, Prepare!Restart
<1>2. CASE Prepare!Inspect
  BY <1>2
  DEF Prepare!Inspect, Prepare!NextSafeAction, Prepare!Drifted,
      Prepare!Unchanged, Prepare!Adoptable, Prepare!Committable,
      Prepare!ResultStands, Prepare!Clean, Prepare!Banned
<1>3. CASE Prepare!BeginInvocation \/ Prepare!Launch \/ Prepare!RecordThread
           \/ Prepare!WorkerReturns
  BY <1>3
  DEF Prepare!BeginInvocation, Prepare!Launch, Prepare!RecordThread,
      Prepare!WorkerReturns
<1>4. CASE Prepare!RecordCompletion \/ Prepare!GatewayFails
           \/ Prepare!BlockAmbiguous
  BY <1>4
  DEF Prepare!RecordCompletion, Prepare!GatewayFails, Prepare!BlockAmbiguous
<1>5. CASE Prepare!WriteTurn \/ Prepare!RecordEvidence
  BY <1>5
  DEF Prepare!WriteTurn, Prepare!RecordEvidence
<1>6. CASE Prepare!PlanCheckpoint \/ Prepare!StageChanges
           \/ Prepare!PublishPlan
  BY <1>6
  DEF Prepare!PlanCheckpoint, Prepare!StageChanges, Prepare!PublishPlan
<1>7. CASE Prepare!BeforeCommit \/ Prepare!CommitStaged
  BY <1>7
  DEF Prepare!BeforeCommit, Prepare!CommitStaged
<1>8. CASE Prepare!Adopt \/ Prepare!WriteCheckpoint
           \/ Prepare!RecordCheckpoint
  BY <1>8
  DEF Prepare!Adopt, Prepare!WriteCheckpoint, Prepare!RecordCheckpoint
<1>9. CASE Prepare!Complete \/ Prepare!Block
  BY <1>9
  DEF Prepare!Complete, Prepare!Block
<1>10. CASE Prepare!WorkerWrites
  BY <1>10
  DEF Prepare!WorkerWrites
<1>11. CASE Prepare!Crash \/ Prepare!TearGit \/ Prepare!LimitReached
  BY <1>11
  DEF Prepare!Crash, Prepare!TearGit, Prepare!LimitReached
<1>12. CASE Prepare!Drift
  BY <1>12
  DEF Prepare!Drift
<1> QED
  BY <1>1, <1>2, <1>3, <1>4, <1>5, <1>6, <1>7, <1>8, <1>9, <1>10, <1>11, <1>12
  DEF Prepare!Next, Prepare!Controller, Prepare!Environment

(* What the inspection found of the workspace, when it goes on.              *)
LEMMA SafeAction ==
    ASSUME Prepare!TypeOK, NEW action, action = Prepare!NextSafeAction
    PROVE  /\ action \in {"commit", "adopt", "evidence", "recorded", "complete"} =>
                 bound = "ok" /\ ~Prepare!Banned /\ turn = "exact"
           /\ action = "commit" => Prepare!Committable
           /\ action = "adopt" => Prepare!Adoptable
           /\ action \in {"evidence", "recorded", "complete"} => Prepare!ResultStands
           /\ action \in {"recorded", "complete"} => checkpoint = "exact"
           /\ action # "committing"
<1>1. CASE Prepare!Drifted \/ Prepare!Unchanged
  BY <1>1 DEF Prepare!NextSafeAction
<1>2. CASE ~Prepare!Drifted /\ ~Prepare!Unchanged
  <2>1. bound = "ok" /\ ~Prepare!Banned /\ checkpoint \in {"absent", "exact", "conflict"}
    BY <1>2 DEF Prepare!Drifted, Prepare!TypeOK, Prepare!File
  <2> HIDE DEF Prepare!TypeOK
  <2>2. CASE durable \in {"worker-completed", "worker-evidence-recorded"}
    BY <1>2, <2>1, <2>2 DEF Prepare!NextSafeAction
  <2>3. CASE durable = "checkpoint-prepared"
    BY <1>2, <2>1, <2>3 DEF Prepare!NextSafeAction
  <2>4. CASE durable = "checkpoint-committed"
    BY <1>2, <2>1, <2>4 DEF Prepare!NextSafeAction
  <2>5. CASE durable = "checkpoint-recorded"
    BY <1>2, <2>1, <2>5 DEF Prepare!NextSafeAction
  <2>6. CASE durable \notin {"worker-completed", "worker-evidence-recorded",
                            "checkpoint-prepared", "checkpoint-committed", "checkpoint-recorded"}
    BY <1>2, <2>1, <2>6 DEF Prepare!NextSafeAction
  <2> QED BY <2>2, <2>3, <2>4, <2>5, <2>6
<1> QED BY <1>1, <1>2

(* What the process has found stays so, unless outsiders act.                *)
LEMMA PrepareSeenKept ==
    ASSUME PrepareInv, Prepare!Next
    PROVE  PrepareSeen'
<1> USE
    DEF PrepareInv, StageFits, WorkerFits, PrepareSeen, Prepare!TypeOK,
        Prepare!Uncertain, Prepare!Active, Prepare!Clean, Prepare!Banned,
        Prepare!Adoptable, Prepare!Committable, Prepare!ResultStands,
        Prepare!Look, Prepare!Goto, Prepare!Still, Prepare!Publish,
        Prepare!Persist, Prepare!PersistInGateway, Prepare!Fault,
        Prepare!treeVars, Prepare!evidenceVars, Prepare!planVars,
        Prepare!workerVars, Prepare!faultVars
<1>1. CASE Prepare!PublishIntent \/ Prepare!EscalateUnowned \/ Prepare!Restart
  BY <1>1
  DEF Prepare!PublishIntent, Prepare!EscalateUnowned, Prepare!Restart
<1>2. CASE Prepare!Inspect
  <2>1. pc' = Prepare!NextSafeAction
        /\ UNCHANGED <<durable, head, headTree, index, work, bound, turn, checkpoint>>
        /\ UNCHANGED <<plan, result, raced>>
    BY <1>2 DEF Prepare!Inspect
  <2>2. /\ pc' \in {"commit", "adopt", "evidence", "recorded", "complete"} =>
              bound = "ok" /\ ~Prepare!Banned /\ turn = "exact"
        /\ pc' = "commit" => Prepare!Committable
        /\ pc' = "adopt" => Prepare!Adoptable
        /\ pc' \in {"evidence", "recorded", "complete"} => Prepare!ResultStands
        /\ pc' \in {"recorded", "complete"} => checkpoint = "exact"
        /\ pc' # "committing"
    BY <2>1, SafeAction
  <2> QED BY <2>1, <2>2
<1>3. CASE Prepare!BeginInvocation \/ Prepare!Launch \/ Prepare!RecordThread
           \/ Prepare!WorkerReturns
  BY <1>3
  DEF Prepare!BeginInvocation, Prepare!Launch, Prepare!RecordThread,
      Prepare!WorkerReturns
<1>4. CASE Prepare!RecordCompletion \/ Prepare!GatewayFails
           \/ Prepare!BlockAmbiguous
  BY <1>4
  DEF Prepare!RecordCompletion, Prepare!GatewayFails, Prepare!BlockAmbiguous
<1>5. CASE Prepare!WriteTurn \/ Prepare!RecordEvidence
  BY <1>5
  DEF Prepare!WriteTurn, Prepare!RecordEvidence
<1>6. CASE Prepare!PlanCheckpoint \/ Prepare!StageChanges
           \/ Prepare!PublishPlan
  BY <1>6
  DEF Prepare!PlanCheckpoint, Prepare!StageChanges, Prepare!PublishPlan
<1>7. CASE Prepare!BeforeCommit \/ Prepare!CommitStaged
  BY <1>7
  DEF Prepare!BeforeCommit, Prepare!CommitStaged
<1>8. CASE Prepare!Adopt \/ Prepare!WriteCheckpoint
           \/ Prepare!RecordCheckpoint
  BY <1>8
  DEF Prepare!Adopt, Prepare!WriteCheckpoint, Prepare!RecordCheckpoint
<1>9. CASE Prepare!Complete \/ Prepare!Block
  BY <1>9
  DEF Prepare!Complete, Prepare!Block
<1>10. CASE Prepare!WorkerWrites
  BY <1>10
  DEF Prepare!WorkerWrites
<1>11. CASE Prepare!Crash \/ Prepare!TearGit \/ Prepare!LimitReached
  BY <1>11
  DEF Prepare!Crash, Prepare!TearGit, Prepare!LimitReached
<1>12. CASE Prepare!Drift
  BY <1>12
  DEF Prepare!Drift
<1> QED
  BY <1>1, <1>2, <1>3, <1>4, <1>5, <1>6, <1>7, <1>8, <1>9, <1>10, <1>11, <1>12
  DEF Prepare!Next, Prepare!Controller, Prepare!Environment

(* Without outsiders, every step of the preparation leaves what is expected. *)
LEMMA PrepareUndisturbedKept ==
    ASSUME PrepareInv, Prepare!Next
    PROVE  PrepareUndisturbed'
<1> USE
    DEF PrepareInv, StageFits, WorkerFits, PrepareSeen, PrepareUndisturbed,
        Prepare!TypeOK, Prepare!Uncertain, Prepare!Active, Prepare!Clean,
        Prepare!Banned, Prepare!Adoptable, Prepare!Committable,
        Prepare!ResultStands, Prepare!Look, Prepare!Goto, Prepare!Still,
        Prepare!Publish, Prepare!Persist, Prepare!PersistInGateway,
        Prepare!Fault, Prepare!treeVars, Prepare!evidenceVars,
        Prepare!planVars, Prepare!workerVars, Prepare!faultVars
<1>1. CASE Prepare!PublishIntent \/ Prepare!EscalateUnowned \/ Prepare!Restart
  BY <1>1
  DEF Prepare!PublishIntent, Prepare!EscalateUnowned, Prepare!Restart
<1>2. CASE Prepare!Inspect
  BY <1>2
  DEF Prepare!Inspect, Prepare!NextSafeAction, Prepare!Drifted,
      Prepare!Unchanged, Prepare!File
<1>3. CASE Prepare!BeginInvocation \/ Prepare!Launch \/ Prepare!RecordThread
           \/ Prepare!WorkerReturns
  BY <1>3
  DEF Prepare!BeginInvocation, Prepare!Launch, Prepare!RecordThread,
      Prepare!WorkerReturns
<1>4. CASE Prepare!RecordCompletion \/ Prepare!GatewayFails
           \/ Prepare!BlockAmbiguous
  BY <1>4
  DEF Prepare!RecordCompletion, Prepare!GatewayFails, Prepare!BlockAmbiguous
<1>5. CASE Prepare!WriteTurn \/ Prepare!RecordEvidence
  BY <1>5
  DEF Prepare!WriteTurn, Prepare!RecordEvidence
<1>6. CASE Prepare!PlanCheckpoint \/ Prepare!StageChanges \/ Prepare!PublishPlan
  <2>1. CASE Prepare!PlanCheckpoint
    <3>1. /\ UNCHANGED <<durable, head, headTree, index, work, bound, turn, checkpoint>>
          /\ UNCHANGED <<result, disturbed, raced>> /\ pc = "plan"
      BY <2>1 DEF Prepare!PlanCheckpoint
    <3> QED BY <2>1, <3>1, PlanDrafted
  <2>2. CASE Prepare!StageChanges
    <3>1. plan' = [parent |-> plan.parent, tree |-> work, commit |-> plan.commit]
      BY <2>2 DEF Prepare!StageChanges, Prepare!Plan
    <3> QED BY <2>2, <3>1 DEF Prepare!StageChanges
  <2>3. CASE Prepare!PublishPlan
    BY <2>3 DEF Prepare!PublishPlan
  <2> QED BY <1>6, <2>1, <2>2, <2>3
<1>7. CASE Prepare!BeforeCommit \/ Prepare!CommitStaged
  BY <1>7
  DEF Prepare!BeforeCommit, Prepare!CommitStaged
<1>8. CASE Prepare!Adopt \/ Prepare!WriteCheckpoint
           \/ Prepare!RecordCheckpoint
  BY <1>8
  DEF Prepare!Adopt, Prepare!WriteCheckpoint, Prepare!RecordCheckpoint
<1>9. CASE Prepare!Complete \/ Prepare!Block
  BY <1>9
  DEF Prepare!Complete, Prepare!Block
<1>10. CASE Prepare!WorkerWrites
  BY <1>10
  DEF Prepare!WorkerWrites
<1>11. CASE Prepare!Crash \/ Prepare!TearGit \/ Prepare!LimitReached
  BY <1>11
  DEF Prepare!Crash, Prepare!TearGit, Prepare!LimitReached
<1>12. CASE Prepare!Drift
  BY <1>12
  DEF Prepare!Drift
<1> QED
  BY <1>1, <1>2, <1>3, <1>4, <1>5, <1>6, <1>7, <1>8, <1>9, <1>10, <1>11, <1>12
  DEF Prepare!Next, Prepare!Controller, Prepare!Environment

(* The controller commits only what a published plan authorises, publishes   *)
(* only what was planned, completes only what is exact, and blocks only for  *)
(* a cause.                                                                  *)
LEMMA PrepareAuthorised ==
    ASSUME PrepareInv, Prepare!Next
    PROVE  Prepare!Authorised /\ Prepare!CompletesTrue /\ Prepare!BlocksForCause
<1> USE
    DEF PrepareInv, Prepare!Look, Prepare!Goto, Prepare!Still, Prepare!Publish,
        Prepare!Persist, Prepare!PersistInGateway, Prepare!Fault,
        Prepare!treeVars, Prepare!evidenceVars, Prepare!planVars,
        Prepare!workerVars, Prepare!faultVars
<1>1. ASSUME ~raced, Prepare!CommitStaged, head' # head
      PROVE  /\ durable = "checkpoint-prepared" /\ worker = "done"
             /\ head = plan.parent /\ headTree' = plan.tree /\ headTree' # "banned"
  BY <1>1 DEF Prepare!CommitStaged, StageFits, WorkerFits, PrepareSeen, Prepare!Committable,
     Prepare!Banned
<1>2. ASSUME ~raced, Prepare!Adopt, durable' # durable
      PROVE  result' = Prepare!Planned
  BY <1>2 DEF Prepare!Adopt, PrepareSeen, Prepare!Adoptable, Prepare!Planned
<1>3. durable' \in {"completed", "blocked"} /\ durable' # durable =>
         Prepare!Complete \/ Prepare!Block \/ Prepare!BlockAmbiguous
  BY
  DEF Prepare!PublishIntent, Prepare!EscalateUnowned, Prepare!Restart,
      Prepare!Inspect, Prepare!BeginInvocation, Prepare!Launch,
      Prepare!RecordThread, Prepare!WorkerReturns, Prepare!RecordCompletion,
      Prepare!GatewayFails, Prepare!WriteTurn, Prepare!RecordEvidence,
      Prepare!PlanCheckpoint, Prepare!StageChanges, Prepare!PublishPlan,
      Prepare!BeforeCommit, Prepare!CommitStaged, Prepare!Adopt,
      Prepare!WriteCheckpoint, Prepare!RecordCheckpoint, Prepare!WorkerWrites,
      Prepare!Crash, Prepare!TearGit, Prepare!LimitReached, Prepare!Drift,
      Prepare!Next, Prepare!Controller, Prepare!Environment, Prepare!Active,
      Prepare!Uncertain
<1>4. Prepare!CompletesTrue
  BY <1>3 DEF Prepare!CompletesTrue, Prepare!Complete, Prepare!Block, Prepare!BlockAmbiguous,
     StageFits, WorkerFits, PrepareSeen, Prepare!ResultStands, Prepare!Clean
<1>5. Prepare!BlocksForCause
  BY <1>3 DEF Prepare!BlocksForCause, Prepare!Complete, Prepare!Block, Prepare!BlockAmbiguous,
     StageFits, PrepareUndisturbed
<1> QED BY <1>1, <1>2, <1>4, <1>5 DEF Prepare!Authorised

------------------------------------------------------------------------------
(* Supervision of a command.                                                 *)

(* In every phase some timer is set that ends it, none is ever overdue, and  *)
(* each was set in time.                                                     *)
TimersFit ==
    /\ \A t \in Install!Timer : timer[t] # Install!Off => now <= timer[t]
    /\ timer["timeout"] <= 1 + Timeout /\ timer["grace"] <= 1 + Timeout + Grace
    /\ timer["abandon"] <= 1 + Timeout + 2 * Grace /\ timer["drain"] <= 1 + Timeout + 3 * Grace
    /\ phase = "idle" => now = 1
    /\ phase \in {"idle", "settled"} => \A t \in Install!Timer : timer[t] = Install!Off
    /\ phase = "running" => timer["timeout"] # Install!Off
    /\ phase = "terminating" => timer["grace"] # Install!Off \/ timer["abandon"] # Install!Off
    /\ phase = "draining" => timer["drain"] # Install!Off
    /\ 1 <= now /\ now <= 1 + Timeout + 3 * Grace

(* What was observed of the root is how it ended.                            *)
ObservedFits ==
    /\ "root" \in alive => root = "running"
    /\ exitCode # "none" => exitCode = root
    /\ exitCode # "none" \/ phase = "draining" => root # "running"
    /\ phase = "idle" => root = "running" /\ alive = {} /\ ~spawnError
    /\ signalled => timedOut \/ outputLimitExceeded
    /\ installed # "none" => phase = "settled"
    /\ installed = "PASS" => exitCode = "zero" /\ ~timedOut /\ ~outputLimitExceeded

(* Unless a kill was refused, whoever is abandoned was killed.               *)
NoneSpared ==
    ~spared =>
        /\ spawnError => alive = {}
        /\ timer["abandon"] # Install!Off => alive \cap Install!Group \subseteq doomed
        /\ phase = "settled" =>
              open \cap Install!Group \subseteq doomed /\ ("root" \in alive => "root" \in doomed)

SupervisionTyped ==
    /\ phase \in {"idle", "running", "terminating", "draining", "settled"}
    /\ now \in Nat /\ timer \in [Install!Timer -> Nat]
    /\ alive \subseteq Install!Process /\ open \subseteq alive /\ doomed \subseteq alive
    /\ root \in {"running", "zero", "nonzero", "signal"}
    /\ exitCode \in {"none", "zero", "nonzero", "signal"}
    /\ timedOut \in BOOLEAN /\ outputLimitExceeded \in BOOLEAN /\ spawnError \in BOOLEAN
    /\ installed \in {"none", "PASS", "FAIL", "TIMEOUT", "ERROR"}
    /\ signalled \in BOOLEAN /\ spared \in BOOLEAN

SupervisionInv == SupervisionTyped /\ TimersFit /\ ObservedFits /\ NoneSpared

(* What a new call of the supervisor starts from.                            *)
LEMMA SupervisionRenewed ==
    ASSUME Install!Renew
    PROVE  SupervisionInv'
<1> USE AttemptAssumption
    DEF Install!Renew, Install!Timer, Install!Off, Install!Process, Install!Group
<1>1. /\ phase' = "idle" /\ now' = 1 /\ timer' = [t \in Install!Timer |-> 0]
      /\ alive' = {} /\ open' = {} /\ doomed' = {} /\ root' = "running" /\ exitCode' = "none"
      /\ timedOut' = FALSE /\ outputLimitExceeded' = FALSE /\ spawnError' = FALSE
      /\ installed' = "none" /\ signalled' = FALSE /\ spared' = FALSE
  OBVIOUS
<1> HIDE DEF Install!Renew
<1>2. SupervisionTyped'
  <2>1. now' \in Nat /\ timer' \in [Install!Timer -> Nat]
    BY <1>1
  <2> QED BY <1>1, <2>1 DEF SupervisionTyped
<1>3. TimersFit'
  BY <1>1 DEF TimersFit
<1>4. ObservedFits' /\ NoneSpared'
  BY <1>1 DEF ObservedFits, NoneSpared
<1> QED BY <1>2, <1>3, <1>4 DEF SupervisionInv

(* Every step of the supervisor, and of its processes, keeps its types.      *)
LEMMA SupervisionStepTyped ==
    ASSUME SupervisionInv, Install!Supervisor \/ Install!Program
    PROVE  SupervisionTyped'
<1> USE AttemptAssumption DEF SupervisionInv, SupervisionTyped, Install!Fault, Install!Set,
        Install!Due, Install!Settle, Install!Doom, Install!KillGroup, Install!Sweep,
        Install!InitiateTermination, Install!processVars, Install!flags,
        Install!ProcessesOnly, Install!Off
<1>1. /\ phase' \in {"idle", "running", "terminating", "draining", "settled"}
      /\ root' \in {"running", "zero", "nonzero", "signal"}
      /\ exitCode' \in {"none", "zero", "nonzero", "signal"}
      /\ installed' \in {"none", "PASS", "FAIL", "TIMEOUT", "ERROR"}
  BY DEF Install!Supervisor, Install!Program, Install!Spawn, Install!TimeoutFires,
     Install!TimeoutLapses, Install!GraceFires, Install!AbandonFires, Install!DrainFires,
     Install!Overflow, Install!ObserveExit, Install!ObserveClose, Install!Report,
     Install!Tick, Install!Fork, Install!End, Install!CloseOutput, Install!Verdict
<1>2. now' \in Nat /\ timer' \in [Install!Timer -> Nat]
  BY DEF Install!Supervisor, Install!Program, Install!Spawn, Install!TimeoutFires,
     Install!TimeoutLapses, Install!GraceFires, Install!AbandonFires, Install!DrainFires,
     Install!Overflow, Install!ObserveExit, Install!ObserveClose, Install!Report,
     Install!Tick, Install!Fork, Install!End, Install!CloseOutput
<1>3. alive' \subseteq Install!Process /\ open' \subseteq alive' /\ doomed' \subseteq alive'
  <2> USE DEF Install!Process, Install!Group
  <2>1. CASE Install!Spawn
    <3>1. doomed \subseteq alive /\ (phase = "idle" => alive = {})
      BY DEF ObservedFits
    <3> QED BY <2>1, <3>1 DEF Install!Spawn
  <2>2. CASE Install!TimeoutFires \/ Install!GraceFires
    BY <2>2 DEF Install!TimeoutFires, Install!GraceFires
  <2>3. CASE Install!TimeoutLapses \/ Install!AbandonFires \/ Install!DrainFires
    BY <2>3 DEF Install!TimeoutLapses, Install!AbandonFires, Install!DrainFires
  <2>4. CASE Install!Overflow
    BY <2>4 DEF Install!Overflow
  <2>5. CASE Install!ObserveExit \/ Install!ObserveClose \/ Install!Report \/ Install!Tick
    BY <2>5 DEF Install!ObserveExit, Install!ObserveClose, Install!Report, Install!Tick
  <2>6. CASE Install!Program
    BY <2>6 DEF Install!Program, Install!Fork, Install!End, Install!CloseOutput
  <2> QED BY <2>1, <2>2, <2>3, <2>4, <2>5, <2>6 DEF Install!Supervisor
<1>4. /\ timedOut' \in BOOLEAN /\ outputLimitExceeded' \in BOOLEAN /\ spawnError' \in BOOLEAN
      /\ signalled' \in BOOLEAN /\ spared' \in BOOLEAN
  BY DEF Install!Supervisor, Install!Program, Install!Spawn, Install!TimeoutFires,
     Install!TimeoutLapses, Install!GraceFires, Install!AbandonFires, Install!DrainFires,
     Install!Overflow, Install!ObserveExit, Install!ObserveClose, Install!Report,
     Install!Tick, Install!Fork, Install!End, Install!CloseOutput
<1> QED BY <1>1, <1>2, <1>3, <1>4

(* Time never passes a timer that is set, and some timer is.                 *)
LEMMA TimersFitKept ==
    ASSUME SupervisionInv, Install!Supervisor \/ Install!Program
    PROVE  TimersFit'
<1> USE AttemptAssumption DEF SupervisionInv, SupervisionTyped, TimersFit,
        Install!Fault, Install!Set, Install!Due, Install!Settle, Install!Timer, Install!Off
<1>1. CASE Install!Spawn
  BY <1>1 DEF Install!Spawn, ObservedFits
<1>2. CASE Install!TimeoutFires
  BY <1>2 DEF Install!TimeoutFires, Install!InitiateTermination
<1>3. CASE Install!TimeoutLapses
  BY <1>3 DEF Install!TimeoutLapses
<1>4. CASE Install!GraceFires
  BY <1>4 DEF Install!GraceFires
<1>5. CASE Install!AbandonFires \/ Install!DrainFires \/ Install!ObserveClose
  <2>1. /\ UNCHANGED now /\ phase' = "settled" /\ timer' = [t \in Install!Timer |-> 0]
    BY <1>5 DEF Install!AbandonFires, Install!DrainFires, Install!ObserveClose
  <2> QED BY <2>1
<1>6. CASE Install!Overflow
  <2>1. CASE phase = "running"
    <3>1. now <= 1 + Timeout
      BY <2>1
    <3>2. /\ phase' = "terminating" /\ UNCHANGED now
          /\ timer' = [timer EXCEPT
                !["timeout"] = IF Install!Due("timeout") THEN 0 ELSE @,
                !["grace"]   = now + Grace,
                !["abandon"] = IF spawnError' /\ @ = 0 THEN now + Grace ELSE @]
      BY <1>6, <2>1 DEF Install!Overflow, Install!InitiateTermination
    <3>3. /\ timer'["timeout"] \in {0, timer["timeout"]} /\ timer'["grace"] = now + Grace
          /\ timer'["abandon"] \in {timer["abandon"], now + Grace}
          /\ timer'["drain"] = timer["drain"]
      BY <3>2
    <3> HIDE DEF Install!Due
    <3> QED BY <2>1, <3>1, <3>2, <3>3
  <2>2. CASE phase = "draining"
    <3>1. /\ UNCHANGED now /\ phase' = "settled" /\ timer' = [t \in Install!Timer |-> 0]
      BY <1>6, <2>2 DEF Install!Overflow
    <3> QED BY <3>1
  <2>3. CASE phase \notin {"running", "draining"}
    <3>1. UNCHANGED <<now, phase, timer>>
      BY <1>6, <2>3 DEF Install!Overflow
    <3> QED BY <3>1
  <2> QED BY <2>1, <2>2, <2>3
<1>7. CASE Install!ObserveExit
  <2>1. now <= 1 + Timeout + 2 * Grace
    BY <1>7 DEF Install!ObserveExit
  <2>2. /\ UNCHANGED now /\ phase' = "draining"
        /\ timer' = [t \in Install!Timer |-> IF t = "drain" THEN now + Grace ELSE 0]
    BY <1>7 DEF Install!ObserveExit
  <2> QED BY <2>1, <2>2
<1>8. CASE Install!Tick
  BY <1>8 DEF Install!Tick
<1>9. CASE Install!Report \/ Install!Program
  BY <1>9 DEF Install!Report, Install!Program, Install!Fork, Install!End,
     Install!CloseOutput, Install!ProcessesOnly
<1> QED
  BY <1>1, <1>2, <1>3, <1>4, <1>5, <1>6, <1>7, <1>8, <1>9 DEF Install!Supervisor

(* What was observed of the root stays how it ended.                         *)
LEMMA ObservedFitsKept ==
    ASSUME SupervisionInv, Install!Supervisor \/ Install!Program
    PROVE  ObservedFits'
<1> USE DEF SupervisionInv, SupervisionTyped, ObservedFits, Install!Fault, Install!Settle,
        Install!KillGroup, Install!InitiateTermination, Install!processVars, Install!flags,
        Install!ProcessesOnly
<1>1. CASE Install!Spawn
  BY <1>1 DEF Install!Spawn
<1>2. CASE Install!TimeoutFires \/ Install!TimeoutLapses \/ Install!GraceFires
  BY <1>2 DEF Install!TimeoutFires, Install!TimeoutLapses, Install!GraceFires
<1>3. CASE Install!AbandonFires \/ Install!DrainFires
  BY <1>3 DEF Install!AbandonFires, Install!DrainFires
<1>4. CASE Install!Overflow
  BY <1>4 DEF Install!Overflow
<1>5. CASE Install!ObserveExit \/ Install!ObserveClose \/ Install!Tick
  BY <1>5 DEF Install!ObserveExit, Install!ObserveClose, Install!Tick
<1>6. CASE Install!Report
  BY <1>6 DEF Install!Report, Install!Verdict
<1>7. CASE Install!Program
  BY <1>7 DEF Install!Program, Install!Fork, Install!End, Install!CloseOutput,
     Install!Process, Install!Group
<1> QED BY <1>1, <1>2, <1>3, <1>4, <1>5, <1>6, <1>7 DEF Install!Supervisor

(* Whoever holds the output when the command settles was killed, unless a    *)
(* kill was refused.                                                         *)
LEMMA NoneSparedKept ==
    ASSUME SupervisionInv, Install!Supervisor \/ Install!Program
    PROVE  NoneSpared'
<1> USE DEF SupervisionInv, SupervisionTyped, ObservedFits, NoneSpared, Install!Fault,
        Install!Settle, Install!Doom, Install!KillGroup, Install!Sweep,
        Install!InitiateTermination, Install!processVars, Install!flags,
        Install!ProcessesOnly, Install!Group, Install!Timer, Install!Off
<1>1. CASE Install!Spawn
  BY <1>1, AttemptAssumption DEF Install!Spawn, Install!Set, TimersFit
<1>2. CASE Install!TimeoutFires
  BY <1>2 DEF Install!TimeoutFires
<1>3. CASE Install!TimeoutLapses \/ Install!GraceFires
  BY <1>3 DEF Install!TimeoutLapses, Install!GraceFires
<1>4. CASE Install!AbandonFires
  BY <1>4 DEF Install!AbandonFires, Install!Due
<1>5. CASE Install!DrainFires
  BY <1>5 DEF Install!DrainFires
<1>6. CASE Install!Overflow
  BY <1>6 DEF Install!Overflow
<1>7. CASE Install!ObserveExit \/ Install!ObserveClose
  BY <1>7 DEF Install!ObserveExit, Install!ObserveClose
<1>8. CASE Install!Report \/ Install!Tick
  BY <1>8 DEF Install!Report, Install!Tick
<1>9. CASE Install!Program
  <2>1. CASE \E p \in Install!Process \ {"root"} : Install!Fork(p)
    BY <2>1 DEF Install!Fork
  <2>2. CASE \E p \in Install!Process : Install!End(p) \/ Install!CloseOutput(p)
    BY <2>2 DEF Install!End, Install!CloseOutput
  <2> QED BY <1>9, <2>1, <2>2 DEF Install!Program
<1> QED
  BY <1>1, <1>2, <1>3, <1>4, <1>5, <1>6, <1>7, <1>8, <1>9 DEF Install!Supervisor

(* Every step of the supervision keeps its part.                             *)
LEMMA SupervisionKept ==
    ASSUME SupervisionInv, Install!Next
    PROVE  SupervisionInv'
<1>1. CASE Install!Crash
  BY <1>1, SupervisionRenewed DEF Install!Crash
<1>2. CASE Install!Supervisor \/ Install!Program
  BY <1>2, SupervisionStepTyped, TimersFitKept, ObservedFitsKept, NoneSparedKept
  DEF SupervisionInv
<1> QED BY <1>1, <1>2 DEF Install!Next

------------------------------------------------------------------------------
(* Execution in a container.                                                 *)
Removed == {"rm-exporter", "rm-workspace", "rm-evidence", "rm-clone", "report", "returned"}
Exported == {"publish", "rm-container"} \cup Removed
Unstopped == {"idle", "image", "clone", "names", "workspace", "evidence", "exporter", "create",
              "policy", "start", "attached"}

(* What exists, or may still come to exist, is owed a removal.               *)
AllOwed ==
    /\ held \subseteq owed /\ late \subseteq owed \cup {"start"}
    /\ container # "absent" \/ stage \in {"policy", "start"} \/ "start" \in late =>
          "container" \in owed

(* An execution that has not failed removed what it has come past.           *)
RemovedSoFar ==
    ~failure =>
        /\ late \subseteq {"start"}
        /\ stage \in Removed => container = "absent" /\ late = {}
        /\ stage \in Removed \ {"rm-exporter"} => "exporter" \notin held
        /\ stage \in Removed \ {"rm-exporter", "rm-workspace"} => "workspace" \notin held
        /\ stage \in {"rm-clone", "report", "returned"} => "evidence" \notin held
        /\ stage = "report" => held = {}

(* A zero that the client returned is the exit of the candidate's process.   *)
ExitIsOwn ==
    ~failure =>
        /\ stage \in Unstopped => ended \in {"none", "zero", "nonzero"} /\ attach = "none"
        /\ attach = "zero" => ended = "zero" /\ container \in {"ended", "absent"}
        /\ attach = "zero" /\ stage \in Exported => copied

ReturnFits ==
    /\ status # "none" => stage = "returned"
    /\ status \in {"PASS", "FAIL", "TIMEOUT"} => ~failure /\ held = {}
    /\ status = "PASS" => attach = "zero" /\ cut = "no"

Heads == {"none", "result", "other"}

ExecutionTyped ==
    /\ stage \in Verify!Stage /\ cloned \in Heads
    /\ owed \subseteq Verify!Resource \cup {"container"} /\ held \subseteq Verify!Resource
    /\ late \subseteq Verify!Resource \cup {"container", "start"}
    /\ container \in {"absent", "created", "running", "ended"} /\ ended \in Verify!Exit
    /\ cut \in {"no", "timeout", "limit"} /\ attach \in {"none", "zero", "nonzero"}
    /\ seen \in Verify!Exit /\ copied \in BOOLEAN /\ failure \in BOOLEAN
    /\ status \in {"none", "PASS", "FAIL", "TIMEOUT", "ERROR", "threw"}
    /\ candidate \in Heads /\ clean \in BOOLEAN

ExecutionInv == ExecutionTyped /\ AllOwed /\ RemovedSoFar /\ ExitIsOwn /\ ReturnFits

(* What a new execution starts from.                                         *)
LEMMA ExecutionRenewed ==
    ASSUME Verify!Renew, stage' = "idle", candidate' \in Heads, clean' \in BOOLEAN
    PROVE  ExecutionInv'
<1> USE DEF Verify!Renew
<1>1. ExecutionTyped'
  BY DEF ExecutionTyped, Heads, Verify!Stage, Verify!Exit
<1>2. AllOwed' /\ RemovedSoFar' /\ ExitIsOwn' /\ ReturnFits'
  BY DEF AllOwed, RemovedSoFar, ExitIsOwn, ReturnFits, Unstopped, Removed, Exported
<1> QED BY <1>1, <1>2 DEF ExecutionInv

(* Every step of an execution, and of the daemon, keeps its types.           *)
LEMMA ExecutionTypedKept ==
    ASSUME ExecutionTyped, Verify!Next
    PROVE  ExecutionTyped'
<1> USE
    DEF ExecutionTyped, Verify!Look, Verify!Fail, Verify!Fault, Verify!Outside,
        Verify!outerVars, Verify!daemonVars, Verify!outcomeVars,
        Verify!fileVars, Verify!Create, Verify!Halt, Verify!Remove,
        Verify!Forget
<1>1. stage' \in Verify!Stage /\ cloned' \in Heads
  BY
  DEF Verify!InspectImage, Verify!CreateClone, Verify!PreflightNames,
      Verify!CreateWorkspaceVolume, Verify!CreateEvidenceVolume,
      Verify!CreateExporter, Verify!CreateContainer, Verify!InspectPolicy,
      Verify!Start, Verify!AttachReturns, Verify!Stop, Verify!Inspect,
      Verify!LateStop, Verify!InspectAgain, Verify!Export, Verify!Publish,
      Verify!RemoveContainer, Verify!RemoveExporter,
      Verify!RemoveWorkspaceVolume, Verify!RemoveEvidenceVolume,
      Verify!RemoveClone, Verify!Report, Verify!ContainerEnds, Verify!Arrives,
      Verify!Next, Verify!Executor, Verify!Daemon, Verify!Stage, Heads
<1>2. /\ owed' \subseteq Verify!Resource \cup {"container"} /\ held' \subseteq Verify!Resource
      /\ late' \subseteq Verify!Resource \cup {"container", "start"}
  BY
  DEF Verify!InspectImage, Verify!CreateClone, Verify!PreflightNames,
      Verify!CreateWorkspaceVolume, Verify!CreateEvidenceVolume,
      Verify!CreateExporter, Verify!CreateContainer, Verify!InspectPolicy,
      Verify!Start, Verify!AttachReturns, Verify!Stop, Verify!Inspect,
      Verify!LateStop, Verify!InspectAgain, Verify!Export, Verify!Publish,
      Verify!RemoveContainer, Verify!RemoveExporter,
      Verify!RemoveWorkspaceVolume, Verify!RemoveEvidenceVolume,
      Verify!RemoveClone, Verify!Report, Verify!ContainerEnds, Verify!Arrives,
      Verify!Next, Verify!Executor, Verify!Daemon, Verify!Resource
<1>3. /\ container' \in {"absent", "created", "running", "ended"} /\ ended' \in Verify!Exit
      /\ cut' \in {"no", "timeout", "limit"} /\ attach' \in {"none", "zero", "nonzero"}
      /\ seen' \in Verify!Exit
  BY
  DEF Verify!InspectImage, Verify!CreateClone, Verify!PreflightNames,
      Verify!CreateWorkspaceVolume, Verify!CreateEvidenceVolume,
      Verify!CreateExporter, Verify!CreateContainer, Verify!InspectPolicy,
      Verify!Start, Verify!AttachReturns, Verify!Stop, Verify!Inspect,
      Verify!LateStop, Verify!InspectAgain, Verify!Export, Verify!Publish,
      Verify!RemoveContainer, Verify!RemoveExporter,
      Verify!RemoveWorkspaceVolume, Verify!RemoveEvidenceVolume,
      Verify!RemoveClone, Verify!Report, Verify!ContainerEnds, Verify!Arrives,
      Verify!Next, Verify!Executor, Verify!Daemon, Verify!Exit
<1>4. status' \in {"none", "PASS", "FAIL", "TIMEOUT", "ERROR", "threw"}
  BY
  DEF Verify!InspectImage, Verify!CreateClone, Verify!PreflightNames,
      Verify!CreateWorkspaceVolume, Verify!CreateEvidenceVolume,
      Verify!CreateExporter, Verify!CreateContainer, Verify!InspectPolicy,
      Verify!Start, Verify!AttachReturns, Verify!Stop, Verify!Inspect,
      Verify!LateStop, Verify!InspectAgain, Verify!Export, Verify!Publish,
      Verify!RemoveContainer, Verify!RemoveExporter,
      Verify!RemoveWorkspaceVolume, Verify!RemoveEvidenceVolume,
      Verify!RemoveClone, Verify!Report, Verify!ContainerEnds, Verify!Arrives,
      Verify!Next, Verify!Executor, Verify!Daemon, Verify!Verdict
<1>5. copied' \in BOOLEAN
  BY
  DEF Verify!InspectImage, Verify!CreateClone, Verify!PreflightNames,
      Verify!CreateWorkspaceVolume, Verify!CreateEvidenceVolume,
      Verify!CreateExporter, Verify!CreateContainer, Verify!InspectPolicy,
      Verify!Start, Verify!AttachReturns, Verify!Stop, Verify!Inspect,
      Verify!LateStop, Verify!InspectAgain, Verify!Export, Verify!Publish,
      Verify!RemoveContainer, Verify!RemoveExporter,
      Verify!RemoveWorkspaceVolume, Verify!RemoveEvidenceVolume,
      Verify!RemoveClone, Verify!Report, Verify!ContainerEnds, Verify!Arrives,
      Verify!Next, Verify!Executor, Verify!Daemon
<1>6. failure' \in BOOLEAN
  BY
  DEF Verify!InspectImage, Verify!CreateClone, Verify!PreflightNames,
      Verify!CreateWorkspaceVolume, Verify!CreateEvidenceVolume,
      Verify!CreateExporter, Verify!CreateContainer, Verify!InspectPolicy,
      Verify!Start, Verify!AttachReturns, Verify!Stop, Verify!Inspect,
      Verify!LateStop, Verify!InspectAgain, Verify!Export, Verify!Publish,
      Verify!RemoveContainer, Verify!RemoveExporter,
      Verify!RemoveWorkspaceVolume, Verify!RemoveEvidenceVolume,
      Verify!RemoveClone, Verify!Report, Verify!ContainerEnds, Verify!Arrives,
      Verify!Next, Verify!Executor, Verify!Daemon
<1>7. candidate' \in Heads /\ clean' \in BOOLEAN
  BY
  DEF Verify!InspectImage, Verify!CreateClone, Verify!PreflightNames,
      Verify!CreateWorkspaceVolume, Verify!CreateEvidenceVolume,
      Verify!CreateExporter, Verify!CreateContainer, Verify!InspectPolicy,
      Verify!Start, Verify!AttachReturns, Verify!Stop, Verify!Inspect,
      Verify!LateStop, Verify!InspectAgain, Verify!Export, Verify!Publish,
      Verify!RemoveContainer, Verify!RemoveExporter,
      Verify!RemoveWorkspaceVolume, Verify!RemoveEvidenceVolume,
      Verify!RemoveClone, Verify!Report, Verify!ContainerEnds, Verify!Arrives,
      Verify!Next, Verify!Executor, Verify!Daemon
<1> QED BY <1>1, <1>2, <1>3, <1>4, <1>5, <1>6, <1>7

(* What exists stays owed.                                                   *)
LEMMA AllOwedKept ==
    ASSUME ExecutionInv, Verify!Next
    PROVE  AllOwed'
<1> USE
    DEF ExecutionInv, ExecutionTyped, AllOwed, Verify!Look, Verify!Fail,
        Verify!Fault, Verify!Outside, Verify!outerVars, Verify!daemonVars,
        Verify!outcomeVars, Verify!fileVars
<1>1. CASE Verify!InspectImage \/ Verify!PreflightNames
           \/ Verify!InspectPolicy
  BY <1>1
  DEF Verify!InspectImage, Verify!PreflightNames, Verify!InspectPolicy
<1>2. CASE Verify!CreateClone
  BY <1>2
  DEF Verify!CreateClone
<1>3. CASE Verify!CreateWorkspaceVolume \/ Verify!CreateEvidenceVolume
           \/ Verify!CreateExporter
  BY <1>3
  DEF Verify!CreateWorkspaceVolume, Verify!CreateEvidenceVolume,
      Verify!CreateExporter, Verify!Create
<1>4. CASE Verify!CreateContainer
  BY <1>4
  DEF Verify!CreateContainer
<1>5. CASE Verify!Start
  BY <1>5
  DEF Verify!Start
<1>6. CASE Verify!AttachReturns
  BY <1>6
  DEF Verify!AttachReturns, Verify!ExitsZero
<1>7. CASE Verify!Stop \/ Verify!LateStop
  BY <1>7
  DEF Verify!Stop, Verify!LateStop, Verify!Halt
<1>8. CASE Verify!Inspect \/ Verify!InspectAgain
  BY <1>8
  DEF Verify!Inspect, Verify!InspectAgain
<1>9. CASE Verify!Export \/ Verify!Publish
  BY <1>9
  DEF Verify!Export, Verify!Publish
<1>10. CASE Verify!RemoveContainer
  BY <1>10
  DEF Verify!RemoveContainer, Verify!Forget
<1>11. CASE Verify!RemoveExporter \/ Verify!RemoveWorkspaceVolume
            \/ Verify!RemoveEvidenceVolume
  BY <1>11
  DEF Verify!RemoveExporter, Verify!RemoveWorkspaceVolume,
      Verify!RemoveEvidenceVolume, Verify!Remove, Verify!InUse
<1>12. CASE Verify!RemoveClone
  BY <1>12
  DEF Verify!RemoveClone
<1>13. CASE Verify!Report
  BY <1>13
  DEF Verify!Report, Verify!Verdict, Verify!ExitsZero
<1>14. CASE Verify!ContainerEnds
  BY <1>14
  DEF Verify!ContainerEnds
<1>15. CASE \E c \in late : Verify!Arrives(c)
  BY <1>15 DEF Verify!Arrives
<1> QED
  BY <1>1, <1>2, <1>3, <1>4, <1>5, <1>6, <1>7, <1>8, <1>9, <1>10, <1>11, <1>12,
     <1>13, <1>14, <1>15
  DEF Verify!Next, Verify!Executor, Verify!Daemon

(* What an execution that has not failed removed stays removed.              *)
LEMMA RemovedSoFarKept ==
    ASSUME ExecutionInv, Verify!Next
    PROVE  RemovedSoFar'
<1> USE
    DEF ExecutionInv, ExecutionTyped, AllOwed, RemovedSoFar, ReturnFits,
        Removed, Verify!Resource, Verify!Look, Verify!Fail, Verify!Fault,
        Verify!Outside, Verify!outerVars, Verify!daemonVars,
        Verify!outcomeVars, Verify!fileVars
<1>1. CASE Verify!InspectImage \/ Verify!PreflightNames
           \/ Verify!InspectPolicy
  BY <1>1
  DEF Verify!InspectImage, Verify!PreflightNames, Verify!InspectPolicy
<1>2. CASE Verify!CreateClone
  BY <1>2
  DEF Verify!CreateClone
<1>3. CASE Verify!CreateWorkspaceVolume \/ Verify!CreateEvidenceVolume
           \/ Verify!CreateExporter
  BY <1>3
  DEF Verify!CreateWorkspaceVolume, Verify!CreateEvidenceVolume,
      Verify!CreateExporter, Verify!Create
<1>4. CASE Verify!CreateContainer
  BY <1>4
  DEF Verify!CreateContainer
<1>5. CASE Verify!Start
  BY <1>5
  DEF Verify!Start
<1>6. CASE Verify!AttachReturns
  BY <1>6
  DEF Verify!AttachReturns, Verify!ExitsZero
<1>7. CASE Verify!Stop \/ Verify!LateStop
  BY <1>7
  DEF Verify!Stop, Verify!LateStop, Verify!Halt
<1>8. CASE Verify!Inspect \/ Verify!InspectAgain
  BY <1>8
  DEF Verify!Inspect, Verify!InspectAgain
<1>9. CASE Verify!Export \/ Verify!Publish
  BY <1>9
  DEF Verify!Export, Verify!Publish
<1>10. CASE Verify!RemoveContainer
  BY <1>10
  DEF Verify!RemoveContainer, Verify!Forget
<1>11. CASE Verify!RemoveExporter \/ Verify!RemoveWorkspaceVolume
            \/ Verify!RemoveEvidenceVolume
  BY <1>11
  DEF Verify!RemoveExporter, Verify!RemoveWorkspaceVolume,
      Verify!RemoveEvidenceVolume, Verify!Remove, Verify!InUse
<1>12. CASE Verify!RemoveClone
  BY <1>12
  DEF Verify!RemoveClone
<1>13. CASE Verify!Report
  BY <1>13
  DEF Verify!Report, Verify!Verdict, Verify!ExitsZero
<1>14. CASE Verify!ContainerEnds
  BY <1>14
  DEF Verify!ContainerEnds
<1>15. CASE \E c \in late : Verify!Arrives(c)
  BY <1>15 DEF Verify!Arrives
<1> QED
  BY <1>1, <1>2, <1>3, <1>4, <1>5, <1>6, <1>7, <1>8, <1>9, <1>10, <1>11, <1>12,
     <1>13, <1>14, <1>15
  DEF Verify!Next, Verify!Executor, Verify!Daemon

(* The exit that the client returned stays that of the process.              *)
LEMMA ExitIsOwnKept ==
    ASSUME ExecutionInv, Verify!Next
    PROVE  ExitIsOwn'
<1> USE
    DEF ExecutionInv, ExecutionTyped, RemovedSoFar, ExitIsOwn, ReturnFits,
        Unstopped, Exported, Removed, Verify!Exit, Verify!Look, Verify!Fail,
        Verify!Fault, Verify!Outside, Verify!outerVars, Verify!daemonVars,
        Verify!outcomeVars, Verify!fileVars
<1>1. CASE Verify!InspectImage \/ Verify!PreflightNames
           \/ Verify!InspectPolicy
  BY <1>1
  DEF Verify!InspectImage, Verify!PreflightNames, Verify!InspectPolicy
<1>2. CASE Verify!CreateClone
  BY <1>2
  DEF Verify!CreateClone
<1>3. CASE Verify!CreateWorkspaceVolume \/ Verify!CreateEvidenceVolume
           \/ Verify!CreateExporter
  BY <1>3
  DEF Verify!CreateWorkspaceVolume, Verify!CreateEvidenceVolume,
      Verify!CreateExporter, Verify!Create
<1>4. CASE Verify!CreateContainer
  BY <1>4
  DEF Verify!CreateContainer
<1>5. CASE Verify!Start
  BY <1>5
  DEF Verify!Start
<1>6. CASE Verify!AttachReturns
  BY <1>6
  DEF Verify!AttachReturns, Verify!ExitsZero
<1>7. CASE Verify!Stop \/ Verify!LateStop
  BY <1>7
  DEF Verify!Stop, Verify!LateStop, Verify!Halt
<1>8. CASE Verify!Inspect \/ Verify!InspectAgain
  BY <1>8
  DEF Verify!Inspect, Verify!InspectAgain
<1>9. CASE Verify!Export \/ Verify!Publish
  BY <1>9
  DEF Verify!Export, Verify!Publish
<1>10. CASE Verify!RemoveContainer
  BY <1>10
  DEF Verify!RemoveContainer, Verify!Forget
<1>11. CASE Verify!RemoveExporter \/ Verify!RemoveWorkspaceVolume
            \/ Verify!RemoveEvidenceVolume
  BY <1>11
  DEF Verify!RemoveExporter, Verify!RemoveWorkspaceVolume,
      Verify!RemoveEvidenceVolume, Verify!Remove, Verify!InUse
<1>12. CASE Verify!RemoveClone
  BY <1>12
  DEF Verify!RemoveClone
<1>13. CASE Verify!Report
  BY <1>13
  DEF Verify!Report, Verify!Verdict, Verify!ExitsZero
<1>14. CASE Verify!ContainerEnds
  BY <1>14
  DEF Verify!ContainerEnds
<1>15. CASE \E c \in late : Verify!Arrives(c)
  BY <1>15 DEF Verify!Arrives
<1> QED
  BY <1>1, <1>2, <1>3, <1>4, <1>5, <1>6, <1>7, <1>8, <1>9, <1>10, <1>11, <1>12,
     <1>13, <1>14, <1>15
  DEF Verify!Next, Verify!Executor, Verify!Daemon

(* A status stays what the execution came to.                                *)
LEMMA ReturnFitsKept ==
    ASSUME ExecutionInv, Verify!Next
    PROVE  ReturnFits'
<1> USE
    DEF ExecutionInv, ExecutionTyped, RemovedSoFar, ReturnFits, Removed,
        Verify!Resource, Verify!Look, Verify!Fail, Verify!Fault,
        Verify!Outside, Verify!outerVars, Verify!daemonVars,
        Verify!outcomeVars, Verify!fileVars
<1>1. CASE Verify!InspectImage \/ Verify!PreflightNames
           \/ Verify!InspectPolicy
  BY <1>1
  DEF Verify!InspectImage, Verify!PreflightNames, Verify!InspectPolicy
<1>2. CASE Verify!CreateClone
  BY <1>2
  DEF Verify!CreateClone
<1>3. CASE Verify!CreateWorkspaceVolume \/ Verify!CreateEvidenceVolume
           \/ Verify!CreateExporter
  BY <1>3
  DEF Verify!CreateWorkspaceVolume, Verify!CreateEvidenceVolume,
      Verify!CreateExporter, Verify!Create
<1>4. CASE Verify!CreateContainer
  BY <1>4
  DEF Verify!CreateContainer
<1>5. CASE Verify!Start
  BY <1>5
  DEF Verify!Start
<1>6. CASE Verify!AttachReturns
  BY <1>6
  DEF Verify!AttachReturns, Verify!ExitsZero
<1>7. CASE Verify!Stop \/ Verify!LateStop
  BY <1>7
  DEF Verify!Stop, Verify!LateStop, Verify!Halt
<1>8. CASE Verify!Inspect \/ Verify!InspectAgain
  BY <1>8
  DEF Verify!Inspect, Verify!InspectAgain
<1>9. CASE Verify!Export \/ Verify!Publish
  BY <1>9
  DEF Verify!Export, Verify!Publish
<1>10. CASE Verify!RemoveContainer
  BY <1>10
  DEF Verify!RemoveContainer, Verify!Forget
<1>11. CASE Verify!RemoveExporter \/ Verify!RemoveWorkspaceVolume
            \/ Verify!RemoveEvidenceVolume
  BY <1>11
  DEF Verify!RemoveExporter, Verify!RemoveWorkspaceVolume,
      Verify!RemoveEvidenceVolume, Verify!Remove, Verify!InUse
<1>12. CASE Verify!RemoveClone
  BY <1>12
  DEF Verify!RemoveClone
<1>13. CASE Verify!Report
  BY <1>13
  DEF Verify!Report, Verify!Verdict, Verify!ExitsZero
<1>14. CASE Verify!ContainerEnds
  BY <1>14
  DEF Verify!ContainerEnds
<1>15. CASE \E c \in late : Verify!Arrives(c)
  BY <1>15 DEF Verify!Arrives
<1> QED
  BY <1>1, <1>2, <1>3, <1>4, <1>5, <1>6, <1>7, <1>8, <1>9, <1>10, <1>11, <1>12,
     <1>13, <1>14, <1>15
  DEF Verify!Next, Verify!Executor, Verify!Daemon

(* Every step of an execution, and of the daemon, keeps its part.            *)
LEMMA ExecutionKept ==
    ASSUME ExecutionInv, Verify!Next
    PROVE  ExecutionInv'
BY ExecutionTypedKept, AllOwedKept, RemovedSoFarKept, ExitIsOwnKept, ReturnFitsKept
DEF ExecutionInv

------------------------------------------------------------------------------
(* Verification.                                                             *)
VerdictTyped ==
    /\ command \in Verify!Commands
    /\ provider \in {"none", "container", "local", "unavailable"}
    /\ durable \in {"verifying", "reviewing", "retrying", "escalated"}
    /\ pc \in {"begin", "execute", "executing", "receipt", "finish", "persist", "done"}
    /\ roots \in BOOLEAN /\ raced \in BOOLEAN
    /\ start \in Heads /\ tested \in [Verify!Commands -> Heads]
    /\ results \in [Verify!Commands ->
                      {"none", "PASS", "FAIL", "NOT_READY", "TIMEOUT", "ERROR", "UNPARSED"}]
    /\ verdict \in {"none", "PASS", "product", "policy", "infrastructure"}

(* What the steps of verify know of one another.                             *)
VerdictFits ==
    /\ pc # "executing" => stage = "idle" /\ Verify!Fresh
    /\ pc = "executing" => stage # "idle"
    /\ pc = "begin" => results = Verify!NoCommand
    /\ pc = "receipt" => results[command] # "NOT_READY"
    /\ pc = "finish" /\ results[Verify!Authoritative] \in {"PASS", "NOT_READY"} =>
          tested[Verify!Authoritative] = start
    /\ pc \in {"execute", "executing"} /\ command = Verify!Focused =>
          results[Verify!Focused] = "none"

(* In a container, and with nobody at the workspace, everything is about the *)
(* commit that was inspected first.                                          *)
SameCommit ==
    provider = "container" /\ ~raced /\ pc \notin {"begin", "done"} =>
        /\ candidate = start
        /\ results[Verify!Focused] = "PASS" => tested[Verify!Focused] = start
        /\ pc = "executing" /\ ~failure /\ stage \notin {"image", "clone"} => cloned = start

VerdictInv == VerdictTyped /\ VerdictFits /\ SameCommit

(* What a step of verify changes of the execution.                           *)
LEMMA VerifyExecutes ==
    ASSUME ExecutionInv, VerdictInv, Verify!VerifyNext
    PROVE  ExecutionInv'
<1>1. CASE Verify!ContainerStep
  BY <1>1, ExecutionKept DEF Verify!ContainerStep
<1>2. CASE Verify!Returned \/ Verify!Crash
  BY <1>2, ExecutionRenewed
  DEF Verify!Returned, Verify!Crash, Verify!outerVars, ExecutionInv, ExecutionTyped
<1>3. CASE Verify!Execute
  <2>1. stage' = "image" /\ stage = "idle" /\ Verify!Fresh /\ Verify!Fresh'
    BY <1>3 DEF Verify!Execute, VerdictInv, VerdictFits, Verify!Fresh, Verify!daemonVars,
       Verify!outcomeVars
  <2>2. UNCHANGED <<candidate, clean>>
    BY <1>3 DEF Verify!Execute, Verify!outerVars
  <2>3. ExecutionTyped'
    BY <2>1, <2>2 DEF ExecutionInv, ExecutionTyped, Verify!Fresh, Verify!Stage, Verify!Exit
  <2>4. AllOwed' /\ RemovedSoFar' /\ ExitIsOwn' /\ ReturnFits'
    BY <2>1 DEF Verify!Fresh, AllOwed, RemovedSoFar, ExitIsOwn, ReturnFits, Removed, Exported
  <2> QED BY <2>3, <2>4 DEF ExecutionInv
<1>4. CASE Verify!ExecuteLocally \/ Verify!Drift
  <2>1. UNCHANGED Verify!executorVars
    BY <1>4 DEF Verify!ExecuteLocally, Verify!Drift
  <2>2. candidate' \in Heads /\ clean' \in BOOLEAN
    BY <1>4 DEF Verify!ExecuteLocally, Verify!Drift, Heads, ExecutionInv, ExecutionTyped
  <2> QED
    BY <2>1, <2>2
    DEF Verify!executorVars, Verify!daemonVars, Verify!outcomeVars, Verify!fileVars,
        ExecutionInv, ExecutionTyped, AllOwed, RemovedSoFar, ExitIsOwn, ReturnFits
<1>5. CASE Verify!Begin \/ Verify!JudgeReceipt \/ Verify!Finish \/ Verify!Persist
  <2>1. UNCHANGED <<Verify!executorVars, candidate, clean>>
    BY <1>5 DEF Verify!Begin, Verify!JudgeReceipt, Verify!Finish, Verify!Persist, Verify!Judging
  <2> QED
    BY <2>1
    DEF Verify!executorVars, Verify!daemonVars, Verify!outcomeVars, Verify!fileVars,
        ExecutionInv, ExecutionTyped, AllOwed, RemovedSoFar, ExitIsOwn, ReturnFits
<1> QED
  BY <1>1, <1>2, <1>3, <1>4, <1>5 DEF Verify!VerifyNext, Verify!Verifier

(* Every step of verify keeps its types.                                     *)
LEMMA VerdictTypedKept ==
    ASSUME ExecutionInv, VerdictInv, Verify!VerifyNext
    PROVE  VerdictTyped'
<1> USE DEF ExecutionInv, ExecutionTyped, VerdictInv, VerdictTyped, Verify!Judging,
        Verify!Conclude, Verify!Throw, Verify!Received, Verify!verdictVars, Verify!outerVars,
        Verify!Commands, Verify!Focused, Verify!Authoritative
<1>1. /\ command' \in Verify!Commands
      /\ provider' \in {"none", "container", "local", "unavailable"}
      /\ durable' \in {"verifying", "reviewing", "retrying", "escalated"}
      /\ pc' \in {"begin", "execute", "executing", "receipt", "finish", "persist", "done"}
      /\ verdict' \in {"none", "PASS", "product", "policy", "infrastructure"}
  <2>1. CASE Verify!Begin \/ Verify!Execute \/ Verify!Returned \/ Verify!ExecuteLocally
    BY <2>1 DEF Verify!Begin, Verify!Execute, Verify!Returned, Verify!ExecuteLocally
  <2>2. CASE Verify!ContainerStep
    <3>1. UNCHANGED command
      BY <2>2 DEF Verify!ContainerStep, Verify!Next, Verify!Executor, Verify!Daemon,
         Verify!InspectImage, Verify!CreateClone, Verify!PreflightNames,
         Verify!CreateWorkspaceVolume, Verify!CreateEvidenceVolume, Verify!CreateExporter,
         Verify!CreateContainer, Verify!InspectPolicy, Verify!Start, Verify!AttachReturns,
         Verify!Stop, Verify!Inspect, Verify!LateStop, Verify!InspectAgain, Verify!Export,
         Verify!Publish, Verify!RemoveContainer, Verify!RemoveExporter,
         Verify!RemoveWorkspaceVolume, Verify!RemoveEvidenceVolume, Verify!RemoveClone,
         Verify!Report, Verify!ContainerEnds, Verify!Arrives, Verify!Look, Verify!Create,
         Verify!Halt, Verify!Remove, Verify!Outside
    <3> QED BY <2>2, <3>1 DEF Verify!ContainerStep
  <2>3. CASE Verify!JudgeReceipt \/ Verify!Finish
    BY <2>3 DEF Verify!JudgeReceipt, Verify!Finish
  <2>4. CASE Verify!Persist \/ Verify!Crash \/ Verify!Drift
    BY <2>4 DEF Verify!Persist, Verify!Crash, Verify!Drift
  <2> QED BY <2>1, <2>2, <2>3, <2>4 DEF Verify!VerifyNext, Verify!Verifier
<1>2. roots' \in BOOLEAN /\ raced' \in BOOLEAN
  BY DEF Verify!VerifyNext, Verify!Verifier, Verify!Begin, Verify!Execute,
     Verify!ContainerStep, Verify!Returned, Verify!ExecuteLocally, Verify!JudgeReceipt,
     Verify!Finish, Verify!Persist, Verify!Crash, Verify!Drift
<1>3. start' \in Heads /\ tested' \in [Verify!Commands -> Heads]
  BY DEF Verify!VerifyNext, Verify!Verifier, Verify!Begin, Verify!Execute, Heads,
     Verify!ContainerStep, Verify!Returned, Verify!ExecuteLocally, Verify!JudgeReceipt,
     Verify!Finish, Verify!Persist, Verify!Crash, Verify!Drift, Verify!NoCommand
<1>4. results' \in [Verify!Commands ->
                       {"none", "PASS", "FAIL", "NOT_READY", "TIMEOUT", "ERROR", "UNPARSED"}]
  <2>1. CASE Verify!JudgeReceipt
    <3>1. \A s \in Verify!Judged(results[command]) :
             s \in {"none", "PASS", "FAIL", "NOT_READY", "TIMEOUT", "ERROR", "UNPARSED"}
      BY DEF Verify!Judged
    <3> QED BY <2>1, <3>1 DEF Verify!JudgeReceipt
  <2>2. CASE Verify!Returned
    <3>1. status \in {"none", "PASS", "FAIL", "NOT_READY", "TIMEOUT", "ERROR", "UNPARSED", "threw"}
      OBVIOUS
    <3>2. \/ results' = results
          \/ results' = [results EXCEPT ![command] = status] /\ status # "threw"
      BY <2>2 DEF Verify!Returned
    <3> QED BY <3>1, <3>2
  <2>3. CASE Verify!ExecuteLocally
    BY <2>3 DEF Verify!ExecuteLocally
  <2>4. CASE Verify!Begin \/ Verify!Execute \/ Verify!ContainerStep \/ Verify!Finish
            \/ Verify!Persist \/ Verify!Crash \/ Verify!Drift
    BY <2>4 DEF Verify!Begin, Verify!Execute, Verify!ContainerStep, Verify!Finish,
       Verify!Persist, Verify!Crash, Verify!Drift, Verify!NoCommand
  <2> QED BY <2>1, <2>2, <2>3, <2>4 DEF Verify!VerifyNext, Verify!Verifier
<1> QED BY <1>1, <1>2, <1>3, <1>4 DEF VerdictTyped

(* What the steps of verify know of one another stays so.                    *)
LEMMA VerdictFitsKept ==
    ASSUME ExecutionInv, VerdictInv, Verify!VerifyNext
    PROVE  VerdictFits'
<1> USE DEF VerdictInv, VerdictTyped, VerdictFits, Verify!Judging, Verify!Conclude,
        Verify!Throw, Verify!Received, Verify!outerVars, Verify!Commands, Verify!Focused,
        Verify!Authoritative
<1>1. CASE Verify!Begin
  <2>1. UNCHANGED <<Verify!executorVars, results, tested>>
    BY <1>1 DEF Verify!Begin
  <2>2. /\ stage' = "idle" /\ Verify!Fresh' /\ pc' \in {"execute", "persist"}
        /\ results' = Verify!NoCommand
    BY <1>1, <2>1
    DEF Verify!Begin, Verify!executorVars, Verify!Fresh, Verify!daemonVars, Verify!outcomeVars
  <2> QED BY <2>2 DEF Verify!NoCommand
<1>2. CASE Verify!Execute
  BY <1>2 DEF Verify!Execute
<1>3. CASE Verify!ContainerStep
  <2>1. /\ UNCHANGED <<pc, results, command>> /\ pc = "executing" /\ stage' # "idle"
    BY <1>3 DEF Verify!ContainerStep, Verify!verdictVars, Verify!Next, Verify!Executor,
       Verify!Daemon, Verify!InspectImage, Verify!CreateClone, Verify!PreflightNames,
       Verify!CreateWorkspaceVolume, Verify!CreateEvidenceVolume, Verify!CreateExporter,
       Verify!CreateContainer, Verify!InspectPolicy, Verify!Start, Verify!AttachReturns,
       Verify!Stop, Verify!Inspect, Verify!LateStop, Verify!InspectAgain, Verify!Export,
       Verify!Publish, Verify!RemoveContainer, Verify!RemoveExporter,
       Verify!RemoveWorkspaceVolume, Verify!RemoveEvidenceVolume, Verify!RemoveClone,
       Verify!Report, Verify!ContainerEnds, Verify!Arrives, Verify!Look, Verify!Create,
       Verify!Halt, Verify!Remove, Verify!Fail, Verify!Outside
  <2> QED BY <2>1
<1>4. CASE Verify!Returned
  <2>1. stage' = "idle" /\ Verify!Fresh' /\ pc' \in {"receipt", "done"}
    BY <1>4 DEF Verify!Returned, Verify!Renew, Verify!Fresh
  <2>2. pc' = "receipt" => results'[command'] # "NOT_READY"
    BY <1>4 DEF Verify!Returned, ExecutionInv, ExecutionTyped
  <2> QED BY <2>1, <2>2
<1>5. CASE Verify!ExecuteLocally
  <2>1. UNCHANGED Verify!executorVars /\ pc' = "receipt" /\ pc = "execute"
    BY <1>5 DEF Verify!ExecuteLocally
  <2>2. stage' = "idle" /\ Verify!Fresh'
    BY <2>1 DEF Verify!executorVars, Verify!Fresh, Verify!daemonVars, Verify!outcomeVars
  <2>3. results'[command'] # "NOT_READY"
    BY <1>5 DEF Verify!ExecuteLocally
  <2> QED BY <2>1, <2>2, <2>3
<1>6. CASE Verify!JudgeReceipt
  <2>1. UNCHANGED <<Verify!executorVars, tested, start>> /\ pc = "receipt"
        /\ pc' \in {"execute", "finish", "done"}
    BY <1>6 DEF Verify!JudgeReceipt
  <2>2. stage' = "idle" /\ Verify!Fresh'
    BY <2>1 DEF Verify!executorVars, Verify!Fresh, Verify!daemonVars, Verify!outcomeVars
  <2>3. pc' = "execute" => command' = Verify!Authoritative
    BY <1>6 DEF Verify!JudgeReceipt
  <2>4. ASSUME pc' = "finish", results'[Verify!Authoritative] \in {"PASS", "NOT_READY"}
        PROVE  tested[Verify!Authoritative] = start
    <3>1. PICK s \in Verify!Judged(results[command]) :
             results' = [results EXCEPT ![command] = s]
      BY <1>6 DEF Verify!JudgeReceipt
    <3>2. command = 2
      BY <1>6, <2>4 DEF Verify!JudgeReceipt
    <3>3. results'[2] \in Verify!Judged(results[2])
      BY <3>1, <3>2
    <3>4. results[2] \in {"none", "PASS", "FAIL", "TIMEOUT", "ERROR", "UNPARSED"}
      BY <2>1, <3>2
    <3>5. ASSUME tested[2] # start
          PROVE  results'[2] \in {"none", "FAIL", "TIMEOUT", "ERROR", "UNPARSED"}
      <4>1. CASE results[2] \in {"PASS", "FAIL"}
        BY <3>2, <3>3, <3>5, <4>1 DEF Verify!Judged
      <4>2. CASE results[2] \notin {"PASS", "FAIL"}
        BY <3>2, <3>3, <3>4, <4>2 DEF Verify!Judged
      <4> QED BY <4>1, <4>2
    <3> QED BY <2>4, <3>5
  <2> QED BY <2>1, <2>2, <2>3, <2>4
<1>7. CASE Verify!Finish \/ Verify!Persist
  <2>1. UNCHANGED Verify!executorVars /\ pc \in {"finish", "persist"}
        /\ pc' \in {"persist", "done"}
    BY <1>7 DEF Verify!Finish, Verify!Persist
  <2>2. stage' = "idle" /\ Verify!Fresh'
    BY <2>1 DEF Verify!executorVars, Verify!Fresh, Verify!daemonVars, Verify!outcomeVars
  <2> QED BY <2>1, <2>2
<1>8. CASE Verify!Crash
  <2>1. stage' = "idle" /\ Verify!Fresh' /\ pc' = "begin" /\ results' = Verify!NoCommand
    BY <1>8 DEF Verify!Crash, Verify!Renew, Verify!Fresh
  <2> QED BY <2>1
<1>9. CASE Verify!Drift
  <2>1. UNCHANGED <<Verify!executorVars, pc, results, tested, start, command>>
    BY <1>9 DEF Verify!Drift
  <2>2. UNCHANGED stage /\ (Verify!Fresh <=> Verify!Fresh')
    BY <2>1 DEF Verify!executorVars, Verify!Fresh, Verify!daemonVars, Verify!outcomeVars
  <2> QED BY <2>1, <2>2
<1> QED
  BY <1>1, <1>2, <1>3, <1>4, <1>5, <1>6, <1>7, <1>8, <1>9
  DEF Verify!VerifyNext, Verify!Verifier

(* In a container, undisturbed, all stays about the commit inspected first.  *)
LEMMA SameCommitKept ==
    ASSUME ExecutionInv, VerdictInv, Verify!VerifyNext
    PROVE  SameCommit'
<1> USE DEF VerdictInv, VerdictTyped, VerdictFits, SameCommit, Verify!Judging, Verify!Conclude,
        Verify!Throw, Verify!Received, Verify!outerVars, Verify!Commands, Verify!Focused,
        Verify!Authoritative
<1>1. CASE Verify!Begin
  BY <1>1 DEF Verify!Begin, Verify!NoCommand
<1>2. CASE Verify!Execute
  BY <1>2 DEF Verify!Execute
<1>3. CASE Verify!ContainerStep
  <2>1. UNCHANGED <<pc, results, candidate, start, tested, provider, raced>>
        /\ pc = "executing"
    BY <1>3 DEF Verify!ContainerStep, Verify!verdictVars, Verify!Next, Verify!Executor,
       Verify!Daemon, Verify!InspectImage, Verify!CreateClone, Verify!PreflightNames,
       Verify!CreateWorkspaceVolume, Verify!CreateEvidenceVolume, Verify!CreateExporter,
       Verify!CreateContainer, Verify!InspectPolicy, Verify!Start, Verify!AttachReturns,
       Verify!Stop, Verify!Inspect, Verify!LateStop, Verify!InspectAgain, Verify!Export,
       Verify!Publish, Verify!RemoveContainer, Verify!RemoveExporter,
       Verify!RemoveWorkspaceVolume, Verify!RemoveEvidenceVolume, Verify!RemoveClone,
       Verify!Report, Verify!ContainerEnds, Verify!Arrives, Verify!Look, Verify!Create,
       Verify!Halt, Verify!Remove, Verify!Outside
  <2>2. \/ failure' = TRUE \/ stage' \in {"image", "clone"} \/ cloned' = candidate
        \/ UNCHANGED <<failure, cloned>> /\ stage \notin {"image", "clone"}
    BY <1>3 DEF Verify!ContainerStep, Verify!Next, Verify!Executor,
       Verify!Daemon, Verify!InspectImage, Verify!CreateClone, Verify!PreflightNames,
       Verify!CreateWorkspaceVolume, Verify!CreateEvidenceVolume, Verify!CreateExporter,
       Verify!CreateContainer, Verify!InspectPolicy, Verify!Start, Verify!AttachReturns,
       Verify!Stop, Verify!Inspect, Verify!LateStop, Verify!InspectAgain, Verify!Export,
       Verify!Publish, Verify!RemoveContainer, Verify!RemoveExporter,
       Verify!RemoveWorkspaceVolume, Verify!RemoveEvidenceVolume, Verify!RemoveClone,
       Verify!Report, Verify!ContainerEnds, Verify!Arrives, Verify!Look, Verify!Create,
       Verify!Halt, Verify!Remove, Verify!Fail, Verify!Forget, Verify!outcomeVars,
       ExecutionInv, ExecutionTyped
  <2> QED BY <2>1, <2>2
<1>4. CASE Verify!Returned
  <2>1. status = "PASS" => ~failure /\ stage \notin {"image", "clone"}
    BY DEF ExecutionInv, ReturnFits
  <2> QED BY <1>4, <2>1 DEF Verify!Returned
<1>5. CASE Verify!ExecuteLocally
  BY <1>5 DEF Verify!ExecuteLocally
<1>6. CASE Verify!JudgeReceipt
  <2>1. /\ UNCHANGED <<provider, raced, candidate, start, tested>> /\ pc = "receipt"
        /\ pc' # "executing"
    BY <1>6 DEF Verify!JudgeReceipt
  <2>2. results'[1] = "PASS" => results[1] = "PASS"
    <3>1. PICK s \in Verify!Judged(results[command]) :
             results' = [results EXCEPT ![command] = s]
      BY <1>6 DEF Verify!JudgeReceipt
    <3> QED BY <3>1 DEF Verify!Judged
  <2> QED BY <2>1, <2>2
<1>7. CASE Verify!Finish \/ Verify!Persist
  BY <1>7 DEF Verify!Finish, Verify!Persist
<1>8. CASE Verify!Crash
  BY <1>8 DEF Verify!Crash
<1>9. CASE Verify!Drift
  <2>1. pc \notin {"begin", "done"} => raced' = TRUE
    BY <1>9 DEF Verify!Drift
  <2>2. UNCHANGED pc
    BY <1>9 DEF Verify!Drift
  <2> QED BY <2>1, <2>2
<1> QED
  BY <1>1, <1>2, <1>3, <1>4, <1>5, <1>6, <1>7, <1>8, <1>9
  DEF Verify!VerifyNext, Verify!Verifier

(* Every step of verify keeps its part.                                      *)
LEMMA VerdictKept ==
    ASSUME ExecutionInv, VerdictInv, Verify!VerifyNext
    PROVE  VerdictInv'
BY VerdictTypedKept, VerdictFitsKept, SameCommitKept DEF VerdictInv

(* A candidate passes only as the commit that was inspected and tested.      *)
LEMMA VerdictAuthorised ==
    ASSUME VerdictInv, Verify!VerifyNext
    PROVE  Verify!PassesTrue
<1>1. CASE Verify!Finish
  BY <1>1 DEF Verify!Finish, Verify!PassesTrue, Verify!Conclude, Verify!Judging, VerdictInv,
     VerdictFits, SameCommit, Verify!Infrastructure, Verify!CommandFailure
<1>2. CASE ~Verify!Finish
  <2>1. verdict' = "PASS" => verdict = "PASS"
    BY <1>2 DEF Verify!VerifyNext, Verify!Verifier, Verify!Begin, Verify!Execute,
       Verify!ContainerStep, Verify!Returned, Verify!ExecuteLocally, Verify!JudgeReceipt,
       Verify!Persist, Verify!Crash, Verify!Drift, Verify!Conclude, Verify!verdictVars
  <2> QED BY <2>1 DEF Verify!PassesTrue
<1> QED BY <1>1, <1>2

------------------------------------------------------------------------------
(* The attempt.                                                              *)

(* What the preparation and the verification start from.                     *)
Unprepared ==
    /\ head = "start" /\ headTree = "start" /\ index = "start" /\ work = "start"
    /\ bound = "ok" /\ turn = "absent" /\ checkpoint = "absent" /\ fresh = FALSE
    /\ plan = Prepare!NoPlan /\ result = Prepare!NoResult
    /\ worker = "idle" /\ launches = 0 /\ expired = FALSE

Unverified ==
    /\ stage = "idle" /\ Verify!Fresh /\ published = {} /\ reported = {}
    /\ provider = "none" /\ command = Verify!Focused /\ start = "none" /\ verdict = "none"
    /\ tested = Verify!NoCommand /\ results = Verify!NoCommand /\ roots \in BOOLEAN

IInv ==
    /\ part \in {"create", "prepare", "install", "verify"} /\ faults \in Nat
    /\ part = "create"  => CreateInv /\ Unprepared
    /\ part = "prepare" => PrepareInv
    /\ part = "install" => durable \in {"verifying", "escalated"} /\ raced = FALSE
    /\ part = "verify"  => VerdictInv
    /\ part # "prepare" => launches = 0
    /\ part # "verify"  => Unverified
    /\ SupervisionInv /\ ExecutionInv

(* While another part runs, the supervision keeps what is known of it.       *)
LEMMA SupervisionStill ==
    ASSUME SupervisionInv, UNCHANGED installOnly
    PROVE  SupervisionInv'
BY DEF installOnly, SupervisionInv, SupervisionTyped, TimersFit, ObservedFits, NoneSpared

(* Likewise the execution.                                                   *)
LEMMA ExecutionStill ==
    ASSUME ExecutionInv, UNCHANGED verifyOnly
    PROVE  ExecutionInv'
BY DEF verifyOnly, ExecutionInv, ExecutionTyped, AllOwed, RemovedSoFar, ExitIsOwn, ReturnFits

(* Likewise what verify keeps before it starts.                              *)
LEMMA UnverifiedStill ==
    ASSUME Unverified, UNCHANGED verifyOnly
    PROVE  Unverified'
BY DEF verifyOnly, Unverified, Verify!Fresh, Verify!NoCommand, Verify!Focused, Verify!Commands

(* The faults of a part are counted on.                                      *)
LEMMA FaultsCounted ==
    ASSUME faults \in Nat, Install!Next \/ Verify!VerifyNext
    PROVE  faults' \in {faults, faults + 1} /\ faults' \in Nat
<1>1. CASE Install!Next
  <2>1. faults' = faults \/ Install!Fault
    BY <1>1 DEF Install!Next, Install!Supervisor, Install!Program, Install!Crash,
       Install!Spawn, Install!TimeoutFires, Install!TimeoutLapses, Install!GraceFires,
       Install!AbandonFires, Install!DrainFires, Install!Overflow, Install!ObserveExit,
       Install!ObserveClose, Install!Report, Install!Tick, Install!Fork, Install!End,
       Install!CloseOutput, Install!KillGroup, Install!Doom, Install!Sweep,
       Install!InitiateTermination, Install!ProcessesOnly
  <2> QED BY <2>1 DEF Install!Fault
<1>2. CASE Verify!VerifyNext
  <2>1. faults' = faults \/ Verify!Fault
    BY <1>2 DEF Verify!VerifyNext, Verify!Verifier, Verify!Begin, Verify!Execute,
       Verify!ContainerStep, Verify!Returned, Verify!ExecuteLocally, Verify!JudgeReceipt,
       Verify!Finish, Verify!Persist, Verify!Crash, Verify!Drift, Verify!Judging,
       Verify!Next, Verify!Executor, Verify!Daemon, Verify!InspectImage,
       Verify!CreateClone, Verify!PreflightNames, Verify!CreateWorkspaceVolume,
       Verify!CreateEvidenceVolume, Verify!CreateExporter, Verify!CreateContainer,
       Verify!InspectPolicy, Verify!Start, Verify!AttachReturns, Verify!Stop,
       Verify!Inspect, Verify!LateStop, Verify!InspectAgain, Verify!Export,
       Verify!Publish, Verify!RemoveContainer, Verify!RemoveExporter,
       Verify!RemoveWorkspaceVolume, Verify!RemoveEvidenceVolume, Verify!RemoveClone,
       Verify!Report, Verify!ContainerEnds, Verify!Arrives, Verify!Look, Verify!Create,
       Verify!Halt, Verify!Remove
  <2> QED BY <2>1 DEF Verify!Fault
<1> QED BY <1>1, <1>2

(* The initial state satisfies the inductive invariant.                      *)
LEMMA InitInv == Init => IInv
<1> SUFFICES ASSUME Init PROVE IInv
  OBVIOUS
<1>1. /\ part = "create" /\ durable = "none" /\ pc = "down" /\ faults = 0
      /\ disturbed = FALSE /\ raced = FALSE /\ temp = "missing" /\ final \in {"missing", "foreign"}
      /\ rootSafe = TRUE /\ target = TRUE
  BY DEF Init, Create!Init
<1>2. CreateInv
  BY <1>1 DEF CreateInv, Create!TypeOK, CreateUndisturbed, CreateSeen, Create!Phase,
     Create!Stage, Create!Entry
<1>3. Unprepared
  BY DEF Init, Prepare!Init, Unprepared
<1>4. Unverified
  BY DEF Init, Verify!Unverified, Verify!Init, Unverified
<1>5. ExecutionInv
  <2>1. candidate \in Heads /\ clean \in BOOLEAN /\ Verify!Fresh /\ stage = "idle"
    BY DEF Init, Verify!Unverified, Verify!Init, Heads
  <2>2. ExecutionTyped
    BY <2>1 DEF ExecutionTyped, Heads, Verify!Fresh, Verify!Stage, Verify!Exit
  <2>3. AllOwed /\ RemovedSoFar /\ ExitIsOwn /\ ReturnFits
    BY <2>1 DEF AllOwed, RemovedSoFar, ExitIsOwn, ReturnFits, Removed, Exported, Verify!Fresh
  <2> QED BY <2>2, <2>3 DEF ExecutionInv
<1>6. SupervisionInv
  <2> USE AttemptAssumption DEF Install!Timer, Install!Off, Install!Process, Install!Group
  <2>1. /\ phase = "idle" /\ now = 1 /\ timer = [t \in Install!Timer |-> 0]
        /\ alive = {} /\ open = {} /\ doomed = {} /\ root = "running" /\ exitCode = "none"
        /\ timedOut = FALSE /\ outputLimitExceeded = FALSE /\ spawnError = FALSE
        /\ installed = "none" /\ signalled = FALSE /\ spared = FALSE
    BY DEF Init, Install!Init
  <2>2. now \in Nat /\ timer \in [Install!Timer -> Nat]
    BY <2>1
  <2>3. SupervisionTyped
    BY <2>1, <2>2 DEF SupervisionTyped
  <2>4. TimersFit
    BY <2>1 DEF TimersFit
  <2>5. ObservedFits /\ NoneSpared
    BY <2>1 DEF ObservedFits, NoneSpared
  <2> QED BY <2>3, <2>4, <2>5 DEF SupervisionInv
<1> QED BY <1>1, <1>2, <1>3, <1>4, <1>5, <1>6 DEF IInv, Unprepared

(* The workspace is handed over as the preparation expects it.               *)
LEMMA HandedOver ==
    ASSUME IInv, HandOver
    PROVE  PrepareInv'
<1>1. /\ durable' = "none" /\ pc' = "down" /\ disturbed' = FALSE /\ raced' = FALSE
      /\ faults' \in Nat /\ Unprepared'
  BY DEF IInv, HandOver, Unprepared, prepareOnly, Prepare!NoPlan, Prepare!NoResult
<1> USE <1>1 DEF Unprepared
<1>2. /\ durable' \in Prepare!Phase /\ pc' \in Prepare!Stage
      /\ head' \in Prepare!Commit /\ headTree' \in Prepare!Content
      /\ index' \in Prepare!Content /\ work' \in Prepare!Content
      /\ bound' \in Prepare!Binding /\ turn' \in Prepare!File /\ checkpoint' \in Prepare!File
  BY DEF Prepare!Phase, Prepare!Stage, Prepare!Commit, Prepare!Content, Prepare!Binding,
     Prepare!File
<1>3. plan' \in Prepare!Plan /\ result' \in Prepare!Result
  BY DEF Prepare!Plan, Prepare!Result, Prepare!NoPlan, Prepare!NoResult, Prepare!Commit,
     Prepare!Content
<1>4. /\ fresh' \in BOOLEAN /\ expired' \in BOOLEAN /\ disturbed' \in BOOLEAN
      /\ raced' \in BOOLEAN
  OBVIOUS
<1>5. launches' \in Nat /\ worker' \in {"idle", "running", "done"}
  OBVIOUS
<1>6. Prepare!TypeOK'
  BY <1>2, <1>3, <1>4, <1>5 DEF Prepare!TypeOK
<1>7. StageFits' /\ WorkerFits' /\ PrepareSeen'
  BY DEF StageFits, WorkerFits, PrepareSeen
<1>8. PrepareUndisturbed'
  BY DEF PrepareUndisturbed
<1> QED BY <1>6, <1>7, <1>8 DEF PrepareInv

(* Every step of the attempt keeps the inductive invariant.                  *)
LEMMA NextInv == IInv /\ [Next]_vars => IInv'
<1> SUFFICES ASSUME IInv, [Next]_vars PROVE IInv'
  OBVIOUS
<1>1. CASE CreateStep
  <2>1. /\ part = "create" /\ part' = "create"
        /\ UNCHANGED <<prepareOnly, installOnly, verifyOnly>>
    BY <1>1 DEF CreateStep, InCreate
  <2>2. CreateInv' /\ faults' \in Nat
    BY <1>1, <2>1, CreateTyped, CreateUndisturbedKept, CreateSeenKept
    DEF CreateStep, IInv, CreateInv, Create!TypeOK
  <2>3. Unprepared'
    BY <2>1 DEF IInv, Unprepared, prepareOnly, Prepare!NoPlan, Prepare!NoResult
  <2>4. SupervisionInv' /\ ExecutionInv' /\ Unverified'
    BY <2>1, SupervisionStill, ExecutionStill, UnverifiedStill DEF IInv
  <2> QED BY <2>1, <2>2, <2>3, <2>4 DEF IInv, Unprepared
<1>2. CASE HandOver
  <2>1. part' = "prepare" /\ UNCHANGED <<faults, installOnly, verifyOnly>>
    BY <1>2 DEF HandOver
  <2>2. SupervisionInv' /\ ExecutionInv' /\ Unverified'
    BY <1>2, <2>1, SupervisionStill, ExecutionStill, UnverifiedStill DEF IInv, HandOver
  <2> QED BY <1>2, <2>1, <2>2, HandedOver DEF IInv
<1>3. CASE PrepareStep
  <2>1. /\ part = "prepare" /\ part' = "prepare" /\ UNCHANGED <<installOnly, verifyOnly>>
    BY <1>3 DEF PrepareStep, InPrepare
  <2>2. PrepareInv' /\ faults' \in Nat
    BY <1>3, <2>1, PrepareTyped, StageFitsKept, WorkerFitsKept, PrepareSeenKept,
       PrepareUndisturbedKept
    DEF PrepareStep, IInv, PrepareInv, Prepare!TypeOK
  <2>3. SupervisionInv' /\ ExecutionInv' /\ Unverified'
    BY <2>1, SupervisionStill, ExecutionStill, UnverifiedStill DEF IInv
  <2> QED BY <2>1, <2>2, <2>3 DEF IInv
<1>4. CASE BeginVerify
  <2>1. /\ part = "prepare" /\ part' = "install" /\ durable' = "verifying" /\ raced' = FALSE
        /\ launches' = 0 /\ UNCHANGED <<faults, installOnly>>
    BY <1>4 DEF BeginVerify, Forget
  <2>2. candidate' \in Heads /\ clean' \in BOOLEAN /\ roots' \in BOOLEAN
    BY <1>4 DEF BeginVerify, Heads, Prepare!Clean
  <2>3. UNCHANGED <<stage, command, cloned, owed, held, late, container, ended, cut, attach,
                    seen, copied, published, reported, failure, status, provider, start,
                    tested, results, verdict>>
    BY <1>4 DEF BeginVerify
  <2>4. ExecutionInv'
    BY <2>2, <2>3 DEF IInv, ExecutionInv, ExecutionTyped, AllOwed, RemovedSoFar, ExitIsOwn,
       ReturnFits
  <2>5. Unverified'
    BY <2>1, <2>2, <2>3 DEF IInv, Unverified, Verify!Fresh, Verify!NoCommand, Verify!Focused,
       Verify!Commands
  <2> QED BY <2>1, <2>4, <2>5, SupervisionStill DEF IInv
<1>5. CASE LimitEnds
  <2>1. /\ part = "prepare" /\ part' = "prepare" /\ durable = "completed"
        /\ durable' = "escalated" /\ pc = "down"
        /\ UNCHANGED <<prepareOnly, pc, faults, disturbed, raced, installOnly, verifyOnly>>
    BY <1>5 DEF LimitEnds, InPrepare
  <2>2. Prepare!TypeOK'
    BY <2>1 DEF IInv, PrepareInv, Prepare!TypeOK, prepareOnly, Prepare!Phase
  <2>3. StageFits' /\ WorkerFits' /\ PrepareSeen' /\ PrepareUndisturbed'
    BY <2>1 DEF IInv, PrepareInv, prepareOnly, StageFits, WorkerFits, PrepareSeen,
       PrepareUndisturbed
  <2>4. SupervisionInv' /\ ExecutionInv' /\ Unverified'
    BY <2>1, SupervisionStill, ExecutionStill, UnverifiedStill DEF IInv
  <2> QED BY <2>1, <2>2, <2>3, <2>4 DEF IInv, PrepareInv
<1>6. CASE InstallStep
  <2>1. /\ part = "install" /\ part' = "install" /\ Install!Next
        /\ UNCHANGED <<durable, raced, launches, verifyOnly>>
    BY <1>6 DEF InstallStep, InInstall, prepareOnly
  <2>2. SupervisionInv' /\ faults' \in Nat
    BY <2>1, SupervisionKept, FaultsCounted DEF IInv
  <2>3. ExecutionInv' /\ Unverified'
    BY <2>1, ExecutionStill, UnverifiedStill DEF IInv
  <2> QED BY <2>1, <2>2, <2>3 DEF IInv
<1>7. CASE Installed
  <2>1. /\ part = "install" /\ UNCHANGED <<faults, raced, launches, verifyOnly>>
    BY <1>7 DEF Installed, prepareOnly
  <2>2. ExecutionInv' /\ Unverified'
    BY <2>1, ExecutionStill, UnverifiedStill DEF IInv
  <2>3. CASE installed = "PASS"
    <3>1. /\ part' = "verify" /\ pc' = "begin" /\ durable' = "verifying" /\ Install!Renew
          /\ raced' = FALSE
      BY <1>7, <2>1, <2>3 DEF Installed, IInv
    <3>2. VerdictInv'
      <4>1. VerdictTyped'
        BY <2>2, <3>1 DEF VerdictTyped, Unverified, Heads, Verify!NoCommand, Verify!Commands,
           Verify!Focused, Verify!Authoritative
      <4>2. VerdictFits' /\ SameCommit'
        BY <2>2, <3>1 DEF VerdictFits, SameCommit, Unverified
      <4> QED BY <4>1, <4>2 DEF VerdictInv
    <3> QED BY <2>1, <2>2, <3>1, <3>2, SupervisionRenewed DEF IInv
  <2>4. CASE installed # "PASS"
    <3>1. part' = "install" /\ durable' = "escalated" /\ UNCHANGED installOnly
      BY <1>7, <2>1, <2>4 DEF Installed
    <3> QED BY <2>1, <2>2, <3>1, SupervisionStill DEF IInv
  <2> QED BY <2>3, <2>4
<1>8. CASE VerifyStep
  <2>1. /\ part = "verify" /\ part' = "verify" /\ Verify!VerifyNext
        /\ UNCHANGED <<launches, installOnly>>
    BY <1>8 DEF VerifyStep, InVerify, prepareOnly
  <2>2. ExecutionInv' /\ VerdictInv' /\ faults' \in Nat
    BY <2>1, VerifyExecutes, VerdictKept, FaultsCounted DEF IInv
  <2> QED BY <2>1, <2>2, SupervisionStill DEF IInv
<1>9. CASE UNCHANGED vars
  <2>1. /\ UNCHANGED <<part, durable, pc, faults, disturbed, raced>>
        /\ UNCHANGED <<createOnly, prepareOnly, installOnly, verifyOnly>>
    BY <1>9 DEF vars
  <2>2. SupervisionInv' /\ ExecutionInv' /\ (Unverified => Unverified')
    BY <2>1, SupervisionStill, ExecutionStill, UnverifiedStill DEF IInv
  <2>3. part = "create" => CreateInv' /\ Unprepared'
    BY <2>1 DEF IInv, CreateInv, Create!TypeOK, CreateUndisturbed, CreateSeen,
       Create!Classify, Unprepared, createOnly, prepareOnly, Prepare!NoPlan, Prepare!NoResult
  <2>4. part = "prepare" => PrepareInv'
    BY <2>1 DEF IInv, PrepareInv, Prepare!TypeOK, StageFits, WorkerFits, PrepareSeen,
       PrepareUndisturbed, prepareOnly, Prepare!Clean, Prepare!Banned, Prepare!Adoptable,
       Prepare!Committable, Prepare!ResultStands
  <2>5. part = "verify" => VerdictInv'
    BY <2>1 DEF IInv, VerdictInv, VerdictTyped, VerdictFits, SameCommit, verifyOnly,
       Verify!Fresh
  <2> QED BY <2>1, <2>2, <2>3, <2>4, <2>5 DEF IInv, prepareOnly
<1> QED
  BY <1>1, <1>2, <1>3, <1>4, <1>5, <1>6, <1>7, <1>8, <1>9 DEF Next

(* The inductive invariant holds in every reachable state.                   *)
THEOREM Invariance == Spec => []IInv
BY InitInv, NextInv, PTL DEF Spec

(* What the invariant says of the supervision and the execution, as the      *)
(* properties state it.                                                      *)
LEMMA InvariantMeaning ==
    ASSUME IInv
    PROVE  TypeOK /\ OneLaunch /\ SupervisionIsSound /\ ExecutionIsSound
<1>1. OneLaunch
  BY DEF IInv, OneLaunch, Prepare!OneLaunch, PrepareInv, WorkerFits
<1>2. SupervisionIsSound
  BY DEF IInv, SupervisionIsSound, SupervisionInv, SupervisionTyped, TimersFit, ObservedFits,
     NoneSpared, Install!SettlesInTime, Install!PassIsTrue
<1>3. ExecutionIsSound
  BY DEF IInv, ExecutionIsSound, ExecutionInv, ExecutionTyped, RemovedSoFar, ExitIsOwn,
     ReturnFits, Removed, Exported, Verify!Disposed, Verify!PassIsOwn
<1>4. TypeOK
  <2>1. part = "create" => Create!TypeOK
    BY DEF IInv, CreateInv
  <2>2. part = "prepare" => Prepare!TypeOK
    BY DEF IInv, PrepareInv
  <2>3. Install!TypeOK
    <3>1. Install!flags \in BOOLEAN \X BOOLEAN \X BOOLEAN
      BY DEF IInv, SupervisionInv, SupervisionTyped, Install!flags
    <3> QED BY <3>1 DEF IInv, SupervisionInv, SupervisionTyped, Install!TypeOK
  <2>4. part = "verify" => Verify!VerifyTypeOK
    BY DEF IInv, ExecutionInv, ExecutionTyped, VerdictInv, VerdictTyped, Verify!VerifyTypeOK,
       Verify!TypeOK
  <2>5. part \in {"create", "prepare", "install", "verify"}
    BY DEF IInv
  <2> QED BY <2>1, <2>2, <2>3, <2>4, <2>5 DEF TypeOK
<1> QED BY <1>1, <1>2, <1>3, <1>4

(* The state of every part keeps its type, across the handovers too.         *)
THEOREM TypeCorrectness == Spec => []TypeOK
BY Invariance, InvariantMeaning, PTL

(* The gateway of the Worker is entered once at most in an attempt, however  *)
(* often its controller dies and is run again, whoever interferes.           *)
THEOREM OneLaunchHolds == Spec => []OneLaunch
BY Invariance, InvariantMeaning, PTL

(* A supervised command settles within its timeout and three grace periods,  *)
(* leaves nothing of its group that holds the output unkilled unless a kill  *)
(* was refused, and passes only by its own exit.                             *)
THEOREM SupervisionIsSoundHolds == Spec => []SupervisionIsSound
BY Invariance, InvariantMeaning, PTL

(* A status other than an error proves the container, its volumes and the    *)
(* clone removed for good, and a pass is the exit of the candidate itself.   *)
THEOREM ExecutionIsSoundHolds == Spec => []ExecutionIsSound
BY Invariance, InvariantMeaning, PTL

(* The creation destroys nothing in its way, and completes only with its own *)
(* exact clone, unless outsiders acted while that process ran.               *)
THEOREM CreationIsSafeHolds == Spec => CreationIsSafe
<1>1. IInv /\ [Next]_vars =>
         [CreateStep => Create!DestroysNothing /\ Create!CompletesExact]_vars
  BY CreateAuthorised DEF IInv, CreateStep, InCreate
<1> QED BY <1>1, Invariance, PTL DEF Spec, CreationIsSafe

(* The controller commits and publishes only what was planned, after the     *)
(* Worker has ended, and verification begins only on the exact result.       *)
THEOREM CandidateAuthorisedHolds == Spec => CandidateAuthorised
<1>1. IInv /\ [Next]_vars => [PrepareStep => Prepare!Authorised /\ Prepare!CompletesTrue]_vars
  BY PrepareAuthorised DEF IInv, PrepareStep, InPrepare
<1> QED BY <1>1, Invariance, PTL DEF Spec, CandidateAuthorised

(* Crashes alone block neither operation, except where the outcome of the    *)
(* Worker is unknown or its output forbidden.                                *)
THEOREM NoNeedlessBlockHolds == Spec => NoNeedlessBlock
<1>1. IInv /\ [Next]_vars =>
         [ /\ CreateStep  => Create!BlocksForCause
           /\ PrepareStep => Prepare!BlocksForCause ]_vars
  BY CreateAuthorised, PrepareAuthorised
  DEF IInv, CreateStep, InCreate, PrepareStep, InPrepare
<1> QED BY <1>1, Invariance, PTL DEF Spec, NoNeedlessBlock

(* A candidate passes only as the commit that was inspected first and that   *)
(* the authoritative command ran on, in a container and with intact roots.   *)
THEOREM VerdictIsTrueHolds == Spec => VerdictIsTrue
<1>1. IInv /\ [Next]_vars => [VerifyStep => Verify!PassesTrue]_vars
  BY VerdictAuthorised DEF IInv, VerifyStep, InVerify
<1> QED BY <1>1, Invariance, PTL DEF Spec, VerdictIsTrue
------------------------------------------------------------------------------
(* Creation and preparation as recoverable operations.                       *)

CreationStep == [CreationPromise!Next]_<<CreationStatus, Created, faults, CreationRaced>>

(* The published phase that each stage of the creation belongs to.           *)
CreationOrder ==
    /\ pc \notin {"down", "caught"} => durable \in Create!Active
    /\ pc = "publish" => durable # "published"
    /\ pc \in {"before-rename", "rename"} => durable = "publish-started"
    /\ pc = "complete" => durable = "published"

(* Every step of the creation keeps its stages and phases together.          *)
LEMMA CreationOrderKept ==
    ASSUME CreateInv, CreationOrder, Create!Next
    PROVE  CreationOrder'
<1> USE DEF CreateInv, CreationOrder, Create!TypeOK, Create!Persist, Create!Look, Create!Goto,
        Create!Fault, Create!FailedCall, Create!entryVars, Create!outsideVars,
        Create!faultVars, Create!Active
<1>1. CASE Create!PublishIntent \/ Create!Restart
  BY <1>1 DEF Create!PublishIntent, Create!Restart
<1>2. CASE Create!Inspect
  <2>1. durable' = durable /\ durable \in Create!Active
    BY <1>2 DEF Create!Inspect
  <2>2. pc' \in {"blocking", "adopt", "clone", "finish", "publish"}
    BY <1>2 DEF Create!Inspect, Create!Classify, Create!Manual, Create!Entry
  <2>3. pc' = "publish" => durable # "published"
    BY <1>2 DEF Create!Inspect, Create!Classify, Create!Manual, Create!Entry
  <2> QED BY <2>1, <2>2, <2>3
<1>3. CASE Create!BeginClone \/ Create!RecordClone \/ Create!BeginPublish \/ Create!AdoptFinal
  BY <1>3 DEF Create!BeginClone, Create!RecordClone, Create!BeginPublish, Create!AdoptFinal,
     Create!AdvanceTo, Create!Rank
<1>4. CASE Create!BeforeClone \/ Create!Clone \/ Create!Finish
  BY <1>4 DEF Create!BeforeClone, Create!Clone, Create!Finish
<1>5. CASE Create!BeforeRename \/ Create!Rename \/ Create!AfterRename
  BY <1>5 DEF Create!BeforeRename, Create!Rename, Create!AfterRename
<1>6. CASE Create!Complete \/ Create!Block \/ Create!Catch \/ Create!Crash
  BY <1>6 DEF Create!Complete, Create!Block, Create!Catch, Create!Crash
<1>7. CASE Create!TearClone \/ Create!Drift \/ Create!TargetRestored
  BY <1>7 DEF Create!TearClone, Create!Drift, Create!TargetRestored
<1> QED
  BY <1>1, <1>2, <1>3, <1>4, <1>5, <1>6, <1>7
  DEF Create!Next, Create!Controller, Create!Environment

(* What publishes nothing of the creation is a disturbance at most.          *)
LEMMA CreationSilent ==
    ASSUME CreationStatus' = CreationStatus, CreationRaced' \in {CreationRaced, TRUE},
           \/ faults' = faults + 1 /\ Created' \in BOOLEAN
           \/ UNCHANGED <<faults, Created>>
    PROVE  CreationStep
BY DEF CreationStep, CreationPromise!Next, CreationPromise!Disturb, CreationRaced

(* A published phase of the creation is a step of its promise.               *)
LEMMA CreationPublishes ==
    ASSUME NEW phase_, NEW stage_, part = "create", part' = "create", raced \in BOOLEAN,
           Create!Persist(phase_, stage_),
           \/ durable = "none" /\ phase_ = "intent-persisted"
           \/ durable \in {"intent-persisted", "clone-started"}
                 /\ phase_ \in {"clone-started", "clone-ready"}
           \/ durable = "clone-ready" /\ phase_ = "publish-started"
           \/ durable = "publish-started" /\ phase_ = "published" /\ (final = "ready" \/ raced)
           \/ durable = "published" /\ phase_ = "completed" /\ (final = "ready" \/ raced)
           \/ durable \in Create!Active /\ phase_ = "blocked"
    PROVE  CreationStep
<1>1. /\ durable' \in {durable, phase_} /\ UNCHANGED <<final, raced>>
      /\ faults' \in {faults, faults + 1}
  BY DEF Create!Persist, Create!Fault, Create!entryVars
<1>2. /\ Created' = Created /\ Created' \in BOOLEAN /\ CreationRaced' = CreationRaced
      /\ Created = (final = "ready") /\ CreationRaced = raced
  BY <1>1 DEF Created, CreationRaced
<1>3. CASE durable' = durable
  <2>1. CreationStatus' = CreationStatus
    BY <1>3 DEF CreationStatus
  <2> QED BY <1>1, <1>2, <2>1, CreationSilent
<1>4. CASE durable' = phase_
  <2> USE DEF CreationStep, CreationPromise!Next, CreationPromise!Publish, CreationStatus,
          Create!Active, CreationRaced
  <2>1. CASE durable = "none" /\ phase_ = "intent-persisted"
    BY <1>1, <1>2, <1>4, <2>1 DEF CreationPromise!Intend
  <2>2. CASE durable \in {"intent-persisted", "clone-started"}
                 /\ phase_ \in {"clone-started", "clone-ready"}
    BY <1>1, <1>2, <1>4, <2>2, CreationSilent
  <2>3. CASE durable = "clone-ready" /\ phase_ = "publish-started"
    BY <1>1, <1>2, <1>4, <2>3 DEF CreationPromise!Start
  <2>4. CASE durable = "publish-started" /\ phase_ = "published" /\ (final = "ready" \/ raced)
    BY <1>1, <1>2, <1>4, <2>4 DEF CreationPromise!Record
  <2>5. CASE durable = "published" /\ phase_ = "completed" /\ (final = "ready" \/ raced)
    BY <1>1, <1>2, <1>4, <2>5 DEF CreationPromise!Complete
  <2>6. CASE durable \in Create!Active /\ phase_ = "blocked"
    BY <1>1, <1>2, <1>4, <2>6 DEF CreationPromise!Block
  <2> QED BY <2>1, <2>2, <2>3, <2>4, <2>5, <2>6
<1> QED BY <1>1, <1>3, <1>4

(* What leaves phase and final name alone, or only fails, is a disturbance.  *)
LEMMA CreationLooks ==
    ASSUME part = "create", part' = "create", raced \in BOOLEAN, raced' \in {raced, TRUE},
           UNCHANGED durable, faults' = faults + 1 \/ UNCHANGED <<faults, final>>
    PROVE  CreationStep
<1>1. CreationStatus' = CreationStatus /\ CreationRaced' \in {CreationRaced, TRUE}
  BY DEF CreationStatus, CreationRaced
<1>2. \/ faults' = faults + 1 /\ Created' \in BOOLEAN
      \/ UNCHANGED <<faults, Created>>
  BY DEF Created
<1> QED BY <1>1, <1>2, CreationSilent

(* One phase at a time is published, and the last one only of a final name   *)
(* that was seen to be right.                                                *)
LEMMA CreationAdvances ==
    ASSUME NEW goal \in {"clone-started", "clone-ready", "publish-started", "published"},
           NEW stage_, NEW next, Create!AdvanceTo(goal, stage_, next),
           durable \in Create!Active, part = "create", part' = "create", raced \in BOOLEAN,
           goal = "published" => final = "ready" \/ raced
    PROVE  CreationStep
<1>1. CASE Create!Look(next)
  BY <1>1, CreationLooks DEF Create!Look, Create!entryVars, Create!faultVars
<1>2. CASE ~Create!Look(next)
  <2>1. PICK phase_ \in Create!Active :
            /\ Create!Rank(phase_) = Create!Rank(durable) + 1
            /\ Create!Persist(phase_, stage_)
            /\ ~(Create!Rank(durable) >= Create!Rank(goal))
    BY <1>2 DEF Create!AdvanceTo
  <2>2. \/ durable \in {"intent-persisted", "clone-started"}
              /\ phase_ \in {"clone-started", "clone-ready"}
        \/ durable = "clone-ready" /\ phase_ = "publish-started"
        \/ durable = "publish-started" /\ phase_ = "published" /\ goal = "published"
    BY <2>1 DEF Create!Rank, Create!Active
  <2> QED BY <2>1, <2>2, CreationPublishes
<1> QED BY <1>1, <1>2

(* Every step of the creation is one of its promise, or changes nothing that *)
(* the promise is about.                                                     *)
LEMMA CreationSimulated ==
    ASSUME CreateInv, CreationOrder, Create!Next, part = "create", part' = "create"
    PROVE  CreationStep
<1>0. raced \in BOOLEAN
  BY DEF CreateInv, Create!TypeOK
<1> USE <1>0
<1>1. CASE Create!PublishIntent
  BY <1>1, CreationPublishes DEF Create!PublishIntent
<1>2. CASE Create!Restart
  <2>1. CreationStatus' = CreationStatus /\ CreationStatus \in {"intended", "started", "done"}
    BY <1>2 DEF Create!Restart, CreationStatus, Create!Active
  <2>2. CreationRaced' = FALSE /\ UNCHANGED <<faults, Created>>
    BY <1>2 DEF Create!Restart, CreationRaced, Create!entryVars, Created
  <2>3. CreationPromise!Resume
    BY <2>1, <2>2 DEF CreationPromise!Resume, CreationPromise!Settled, CreationRaced
  <2> QED BY <2>3 DEF CreationStep, CreationPromise!Next
<1>3. CASE Create!Inspect \/ Create!BeforeClone \/ Create!BeforeRename \/ Create!AfterRename
  BY <1>3, CreationLooks DEF Create!Inspect, Create!BeforeClone, Create!BeforeRename,
     Create!AfterRename, Create!Look, Create!entryVars, Create!faultVars
<1>4. CASE Create!Clone
  BY <1>4, CreationLooks DEF Create!Clone, Create!Look, Create!Fault, Create!entryVars,
     Create!faultVars
<1>5. CASE Create!BeginClone \/ Create!RecordClone \/ Create!BeginPublish
  <2>1. durable \in Create!Active
    BY <1>5 DEF CreationOrder, Create!BeginClone, Create!RecordClone, Create!BeginPublish,
       Create!AdvanceTo
  <2> QED BY <1>5, <2>1, CreationAdvances
          DEF Create!BeginClone, Create!RecordClone, Create!BeginPublish
<1>6. CASE Create!AdoptFinal
  <2>1. pc = "adopt" /\ durable \in Create!Active
    BY <1>6 DEF CreationOrder, Create!AdoptFinal, Create!AdvanceTo
  <2>2. final = "ready" \/ raced
    BY <2>1 DEF CreateInv, CreateSeen, Create!Classify
  <2> QED BY <1>6, <2>1, <2>2, CreationAdvances DEF Create!AdoptFinal
<1>7. CASE Create!Finish
  <2>1. CASE Create!Persist("clone-started", "finish") /\ durable = "intent-persisted"
    BY <2>1, CreationPublishes
  <2>2. durable \in Create!Active
    BY <1>7 DEF CreationOrder, Create!Finish
  <2>3. \/ Create!Persist("clone-started", "finish") /\ durable = "intent-persisted"
        \/ /\ UNCHANGED <<durable, raced>>
           /\ faults' = faults + 1 \/ UNCHANGED <<faults, final>>
    BY <1>7, <2>2 DEF Create!Finish, Create!Look, Create!FailedCall, Create!Fault,
       Create!entryVars, Create!faultVars, Create!Rank, Create!Active
  <2> QED BY <2>1, <2>3, CreationLooks
<1>8. CASE Create!Rename
  <2>1. durable = "publish-started"
    BY <1>8 DEF CreationOrder, Create!Rename
  <2>2. CASE final = "missing" /\ final' = "ready" /\ UNCHANGED <<durable, faults, raced>>
    <3>1. CreationStatus = "started" /\ CreationStatus' = CreationStatus
      BY <2>1, <2>2 DEF CreationStatus
    <3>2. Created' = TRUE /\ UNCHANGED CreationRaced
      BY <2>2 DEF Created, CreationRaced
    <3>3. CreationPromise!Apply
      BY <2>2, <3>1, <3>2 DEF CreationPromise!Apply, CreationRaced
    <3> QED BY <3>3 DEF CreationStep, CreationPromise!Next
  <2>3. CASE final = "missing" /\ final' # "ready" /\ UNCHANGED <<durable, faults, raced>>
    <3>1. UNCHANGED <<CreationStatus, Created, CreationRaced, faults>>
      BY <2>3 DEF CreationStatus, Created, CreationRaced
    <3> QED BY <3>1 DEF CreationStep
  <2>4. \/ final = "missing" /\ UNCHANGED <<durable, faults, raced>>
        \/ UNCHANGED <<durable, raced>> /\ (faults' = faults + 1 \/ UNCHANGED <<faults, final>>)
    BY <1>8 DEF Create!Rename, Create!Look, Create!FailedCall, Create!Fault, Create!entryVars,
       Create!faultVars
  <2> QED BY <2>2, <2>3, <2>4, CreationLooks
<1>9. CASE Create!Complete
  <2>1. pc = "complete" /\ durable = "published"
    BY <1>9 DEF CreationOrder, Create!Complete
  <2>2. final = "ready" \/ raced
    BY <2>1 DEF CreateInv, CreateSeen, Create!Classify
  <2> QED BY <1>9, <2>1, <2>2, CreationPublishes DEF Create!Complete
<1>10. CASE Create!Block
  BY <1>10, CreationPublishes DEF Create!Block, CreationOrder
<1>11. CASE Create!Catch
  <2>1. CASE durable \in Create!Active /\ durable' = "blocked" /\ UNCHANGED <<faults, final, raced>>
    <3>1. CreationStatus \in {"intended", "started", "done"} /\ CreationStatus' = "blocked"
      BY <2>1 DEF CreationStatus, Create!Active
    <3>2. UNCHANGED <<Created, CreationRaced>>
      BY <2>1 DEF Created, CreationRaced
    <3>3. CreationPromise!Block
      BY <2>1, <3>1, <3>2 DEF CreationPromise!Block, CreationPromise!Publish, CreationRaced
    <3> QED BY <3>3 DEF CreationStep, CreationPromise!Next
  <2>2. \/ durable \in Create!Active /\ durable' = "blocked" /\ UNCHANGED <<faults, final, raced>>
        \/ UNCHANGED <<durable, raced>> /\ (faults' = faults + 1 \/ UNCHANGED <<faults, final>>)
    BY <1>11 DEF Create!Catch, Create!Fault, Create!entryVars
  <2> QED BY <2>1, <2>2, CreationLooks
<1>12. CASE Create!Crash \/ Create!TearClone \/ Create!Drift \/ Create!TargetRestored
  BY <1>12, CreationLooks DEF Create!Crash, Create!TearClone, Create!Drift,
     Create!TargetRestored, Create!Fault, Create!entryVars
<1> QED
  BY <1>1, <1>2, <1>3, <1>4, <1>5, <1>6, <1>7, <1>8, <1>9, <1>10, <1>11, <1>12
  DEF Create!Next, Create!Controller, Create!Environment

PreparationStep ==
    [PreparationPromise!Next]_<<PreparationStatus, Launched, faults, PreparationRaced>>

Returned == {"worker-completed", "worker-evidence-recorded", "checkpoint-prepared",
             "checkpoint-committed", "checkpoint-recorded"}

(* What publishes nothing of the preparation is a disturbance at most.       *)
LEMMA PreparationSilent ==
    ASSUME PreparationStatus' = PreparationStatus,
           PreparationRaced' \in {PreparationRaced, TRUE},
           \/ faults' = faults + 1 /\ Launched' \in BOOLEAN
           \/ UNCHANGED <<faults, Launched>>
    PROVE  PreparationStep
BY DEF PreparationStep, PreparationPromise!Next, PreparationPromise!Disturb, PreparationRaced

(* A published phase of the preparation is a step of its promise.            *)
LEMMA PreparationPublishes ==
    ASSUME NEW phase_, NEW stage_, NEW refused, part = "prepare", part' = "prepare",
           raced \in BOOLEAN, UNCHANGED <<launches, raced>>, launches \in Nat,
           Prepare!Publish(phase_, stage_, refused),
           \/ durable = "none" /\ phase_ = "intent-persisted"
           \/ durable = "none" /\ phase_ = "escalated" /\ launches = 0
           \/ durable = "intent-persisted" /\ phase_ = "worker-invocation-started"
           \/ durable = "worker-invocation-started" /\ phase_ = "worker-thread-recorded"
           \/ durable \in Prepare!Uncertain /\ phase_ = "worker-completed" /\ launches > 0
           \/ durable \in Returned /\ phase_ \in Returned
           \/ durable = "checkpoint-recorded" /\ phase_ = "completed" /\ launches > 0
           \/ durable \in Prepare!Active /\ phase_ = "blocked"
    PROVE  PreparationStep
<1>1. durable' \in {durable, phase_} /\ faults' \in {faults, faults + 1}
  BY DEF Prepare!Publish, Prepare!Fault
<1>2. /\ Launched' = Launched /\ Launched' \in BOOLEAN /\ PreparationRaced' = PreparationRaced
      /\ Launched = (launches > 0) /\ PreparationRaced = raced
  BY DEF Launched, PreparationRaced
<1>3. CASE durable' = durable
  <2>1. PreparationStatus' = PreparationStatus
    BY <1>3 DEF PreparationStatus
  <2> QED BY <1>1, <1>2, <2>1, PreparationSilent
<1>4. CASE durable' = phase_
  <2> USE DEF PreparationStep, PreparationPromise!Next, PreparationPromise!Publish,
          PreparationStatus, PreparationRaced, Prepare!Active, Prepare!Uncertain, Returned
  <2>1. CASE durable = "none" /\ phase_ = "intent-persisted"
    BY <1>1, <1>2, <1>4, <2>1 DEF PreparationPromise!Intend
  <2>2. CASE \/ durable = "none" /\ phase_ = "escalated" /\ launches = 0
             \/ durable = "worker-invocation-started" /\ phase_ = "worker-thread-recorded"
             \/ durable \in Returned /\ phase_ \in Returned
    <3>1. PreparationStatus' = PreparationStatus
      BY <1>4, <2>2
    <3> QED BY <1>1, <1>2, <3>1, PreparationSilent
  <2>3. CASE durable = "intent-persisted" /\ phase_ = "worker-invocation-started"
    BY <1>1, <1>2, <1>4, <2>3 DEF PreparationPromise!Start
  <2>4. CASE durable \in Prepare!Uncertain /\ phase_ = "worker-completed" /\ launches > 0
    BY <1>1, <1>2, <1>4, <2>4 DEF PreparationPromise!Record
  <2>5. CASE durable = "checkpoint-recorded" /\ phase_ = "completed" /\ launches > 0
    BY <1>1, <1>2, <1>4, <2>5 DEF PreparationPromise!Complete
  <2>6. CASE durable \in Prepare!Active /\ phase_ = "blocked"
    BY <1>1, <1>2, <1>4, <2>6 DEF PreparationPromise!Block
  <2> QED BY <2>1, <2>2, <2>3, <2>4, <2>5, <2>6
<1> QED BY <1>1, <1>3, <1>4

(* What leaves phase and launches alone is a disturbance at most.            *)
LEMMA PreparationLooks ==
    ASSUME part = "prepare", part' = "prepare", raced \in BOOLEAN, raced' \in {raced, TRUE},
           UNCHANGED <<durable, launches>>, faults' \in {faults, faults + 1}
    PROVE  PreparationStep
<1>1. /\ PreparationStatus' = PreparationStatus
      /\ PreparationRaced' \in {PreparationRaced, TRUE}
  BY DEF PreparationStatus, PreparationRaced
<1>2. Launched' = Launched /\ Launched' \in BOOLEAN
  BY DEF Launched
<1> QED BY <1>1, <1>2, PreparationSilent

(* Every step of the preparation is one of its promise, or changes nothing   *)
(* that the promise is about.                                                *)
LEMMA PreparationSimulated ==
    ASSUME PrepareInv, Prepare!Next, part = "prepare", part' = "prepare"
    PROVE  PreparationStep
<1>0. raced \in BOOLEAN /\ launches \in Nat
  BY DEF PrepareInv, Prepare!TypeOK
<1> USE <1>0
    DEF Prepare!Persist, Prepare!PersistInGateway, Prepare!Still, Prepare!workerVars,
        Prepare!faultVars
<1>1. CASE Prepare!PublishIntent \/ Prepare!EscalateUnowned
  <2>1. durable = "none" /\ launches = 0
    BY <1>1 DEF PrepareInv, WorkerFits, Prepare!PublishIntent, Prepare!EscalateUnowned
  <2> QED BY <1>1, <2>1, PreparationPublishes DEF Prepare!PublishIntent, Prepare!EscalateUnowned
<1>2. CASE Prepare!Restart
  <2>1. /\ PreparationStatus' = PreparationStatus
        /\ PreparationStatus \in {"intended", "started", "done"}
    BY <1>2 DEF Prepare!Restart, PreparationStatus, Prepare!Active, Prepare!Uncertain
  <2>2. PreparationRaced' = FALSE /\ UNCHANGED <<faults, Launched>>
    BY <1>2 DEF Prepare!Restart, PreparationRaced, Launched
  <2>3. PreparationPromise!Resume
    BY <2>1, <2>2
    DEF PreparationPromise!Resume, PreparationPromise!Settled, PreparationRaced
  <2> QED BY <2>3 DEF PreparationStep, PreparationPromise!Next
<1>3. CASE \/ Prepare!Inspect \/ Prepare!WorkerReturns \/ Prepare!GatewayFails
           \/ Prepare!WriteTurn \/ Prepare!PlanCheckpoint \/ Prepare!StageChanges
           \/ Prepare!BeforeCommit \/ Prepare!CommitStaged \/ Prepare!WriteCheckpoint
  <2>1. UNCHANGED <<durable, launches, faults, raced>>
    BY <1>3 DEF Prepare!Inspect, Prepare!WorkerReturns, Prepare!GatewayFails,
       Prepare!WriteTurn, Prepare!PlanCheckpoint, Prepare!StageChanges, Prepare!BeforeCommit,
       Prepare!CommitStaged, Prepare!WriteCheckpoint, Prepare!Look
  <2> QED BY <2>1, PreparationLooks
<1>4. CASE Prepare!BeginInvocation
  <2>1. durable = "intent-persisted"
    BY <1>4 DEF PrepareInv, StageFits, Prepare!BeginInvocation
  <2>2. CASE Prepare!Look("down")
    BY <2>2, PreparationLooks DEF Prepare!Look
  <2> QED BY <1>4, <2>1, <2>2, PreparationPublishes DEF Prepare!BeginInvocation
<1>5. CASE Prepare!Launch
  <2>1. durable = "worker-invocation-started"
    BY <1>5 DEF PrepareInv, StageFits, Prepare!Launch
  <2>2. UNCHANGED <<durable, faults, raced>> /\ launches' = launches + 1
    BY <1>5 DEF Prepare!Launch
  <2>3. PreparationStatus = "started" /\ PreparationStatus' = PreparationStatus
    BY <2>1, <2>2 DEF PreparationStatus, Prepare!Uncertain
  <2>4. Launched' = TRUE /\ UNCHANGED PreparationRaced
    BY <2>2 DEF Launched, PreparationRaced
  <2>5. PreparationPromise!Apply
    BY <2>2, <2>3, <2>4 DEF PreparationPromise!Apply, PreparationRaced
  <2> QED BY <2>5 DEF PreparationStep, PreparationPromise!Next
<1>6. CASE Prepare!RecordThread
  BY <1>6, PreparationPublishes DEF Prepare!RecordThread
<1>7. CASE Prepare!RecordCompletion
  <2>1. durable \in Prepare!Uncertain /\ launches > 0
    BY <1>7 DEF PrepareInv, StageFits, WorkerFits, Prepare!RecordCompletion
  <2> QED BY <1>7, <2>1, PreparationPublishes DEF Prepare!RecordCompletion
<1>8. CASE Prepare!BlockAmbiguous
  <2>1. durable \in Prepare!Active
    BY <1>8 DEF PrepareInv, StageFits, Prepare!BlockAmbiguous
  <2>2. CASE Prepare!Look("down")
    BY <2>2, PreparationLooks DEF Prepare!Look
  <2> QED BY <1>8, <2>1, <2>2, PreparationPublishes DEF Prepare!BlockAmbiguous
<1>9. CASE Prepare!RecordEvidence \/ Prepare!PublishPlan
  <2>1. durable \in Returned
    BY <1>9 DEF PrepareInv, StageFits, Prepare!RecordEvidence, Prepare!PublishPlan, Returned
  <2> QED BY <1>9, <2>1, PreparationPublishes
          DEF Prepare!RecordEvidence, Prepare!PublishPlan, Returned
<1>10. CASE Prepare!Adopt
  <2>1. durable \in Returned
    BY <1>10 DEF PrepareInv, StageFits, Prepare!Adopt, Returned
  <2>2. CASE Prepare!Look("down")
    BY <2>2, PreparationLooks DEF Prepare!Look
  <2>3. CASE ~Prepare!Look("down")
    <3>1. /\ Prepare!Publish("checkpoint-committed", "evidence", "down")
          /\ UNCHANGED <<launches, raced>>
      BY <1>10, <2>3 DEF Prepare!Adopt
    <3> QED BY <2>1, <3>1, PreparationPublishes DEF Returned
  <2> QED BY <2>2, <2>3
<1>11. CASE Prepare!RecordCheckpoint
  <2>1. durable \in Returned
    BY <1>11 DEF PrepareInv, StageFits, Prepare!RecordCheckpoint, Returned
  <2> QED BY <1>11, <2>1, PreparationPublishes DEF Prepare!RecordCheckpoint, Returned
<1>12. CASE Prepare!Complete
  <2>1. durable = "checkpoint-recorded" /\ launches > 0
    BY <1>12 DEF PrepareInv, StageFits, WorkerFits, Prepare!Complete
  <2> QED BY <1>12, <2>1, PreparationPublishes DEF Prepare!Complete
<1>13. CASE Prepare!Block
  <2>1. durable \in Prepare!Active
    BY <1>13 DEF PrepareInv, StageFits, Prepare!Block
  <2> QED BY <1>13, <2>1, PreparationPublishes DEF Prepare!Block
<1>14. CASE Prepare!Environment
  <2>1. /\ UNCHANGED <<durable, launches>> /\ faults' \in {faults, faults + 1}
        /\ raced' \in {raced, TRUE}
    BY <1>14 DEF Prepare!Environment, Prepare!WorkerWrites, Prepare!Crash, Prepare!TearGit,
       Prepare!Drift, Prepare!LimitReached, Prepare!Fault
  <2> QED BY <2>1, PreparationLooks
<1> QED
  BY <1>1, <1>2, <1>3, <1>4, <1>5, <1>6, <1>7, <1>8, <1>9, <1>10, <1>11, <1>12, <1>13, <1>14
  DEF Prepare!Next, Prepare!Controller

PromiseInv == IInv /\ (part = "create" => CreationOrder)

(* The strengthened invariant is inductive, too.                             *)
LEMMA PromiseInvNext == PromiseInv /\ [Next]_vars => PromiseInv'
<1> SUFFICES ASSUME PromiseInv, [Next]_vars PROVE PromiseInv'
  OBVIOUS
<1>1. IInv'
  BY NextInv DEF PromiseInv
<1>2. CASE CreateStep
  BY <1>1, <1>2, CreationOrderKept DEF CreateStep, PromiseInv, IInv
<1>3. CASE UNCHANGED vars
  BY <1>1, <1>3 DEF vars, PromiseInv, CreationOrder
<1>4. CASE ~CreateStep /\ ~UNCHANGED vars
  <2>1. part' # "create"
    BY <1>4 DEF Next, HandOver, PrepareStep, InPrepare, BeginVerify, LimitEnds, InstallStep,
       InInstall, Installed, VerifyStep, InVerify
  <2> QED BY <1>1, <2>1 DEF PromiseInv
<1> QED BY <1>2, <1>3, <1>4

(* Every step of the attempt keeps both promises.                            *)
LEMMA AttemptSimulated ==
    ASSUME PromiseInv, [Next]_vars
    PROVE  CreationStep /\ PreparationStep
<1>1. CASE CreateStep
  <2>1. /\ part = "create" /\ part' = "create" /\ Create!Next /\ launches' = launches
    BY <1>1 DEF CreateStep, InCreate, prepareOnly
  <2>2. CreationStep
    BY <2>1, CreationSimulated DEF PromiseInv, IInv
  <2>3. faults' \in {faults, faults + 1}
    BY <2>1 DEF Create!Next, Create!Controller, Create!Environment, Create!PublishIntent,
       Create!Restart, Create!Inspect, Create!BeginClone, Create!RecordClone,
       Create!BeginPublish, Create!AdoptFinal, Create!AdvanceTo, Create!BeforeClone,
       Create!Clone, Create!Finish, Create!BeforeRename, Create!Rename, Create!AfterRename,
       Create!Complete, Create!Block, Create!Catch, Create!Crash, Create!TearClone,
       Create!Drift, Create!TargetRestored, Create!Persist, Create!Look, Create!FailedCall,
       Create!Fault, Create!faultVars
  <2>4. UNCHANGED <<PreparationStatus, PreparationRaced, Launched>> /\ Launched' \in BOOLEAN
    BY <2>1 DEF PreparationStatus, PreparationRaced, Launched
  <2> QED BY <2>2, <2>3, <2>4, PreparationSilent
<1>2. CASE HandOver
  <2>1. /\ part = "create" /\ durable = "completed" /\ final = "ready"
        /\ part' = "prepare" /\ durable' = "none" /\ raced' = FALSE
        /\ launches = 0 /\ launches' = 0 /\ faults' = faults
    BY <1>2 DEF HandOver, prepareOnly, PromiseInv, IInv
  <2>2. UNCHANGED <<CreationStatus, Created>> /\ CreationRaced' = TRUE
    BY <2>1 DEF CreationStatus, Created, CreationRaced
  <2>3. UNCHANGED <<PreparationStatus, PreparationRaced, Launched>>
    BY <2>1 DEF PreparationStatus, PreparationRaced, Launched, Prepare!Active, Prepare!Uncertain
  <2> QED BY <2>1, <2>2, <2>3, CreationSilent, PreparationSilent
<1>3. CASE PrepareStep
  <2>1. part = "prepare" /\ part' = "prepare" /\ Prepare!Next
    BY <1>3 DEF PrepareStep, InPrepare
  <2>2. PreparationStep
    BY <2>1, PreparationSimulated DEF PromiseInv, IInv
  <2>3. faults' \in {faults, faults + 1}
    BY <2>1 DEF Prepare!Next, Prepare!Controller, Prepare!Environment, Prepare!PublishIntent,
       Prepare!EscalateUnowned, Prepare!Restart, Prepare!Inspect, Prepare!BeginInvocation,
       Prepare!Launch, Prepare!RecordThread, Prepare!WorkerReturns, Prepare!RecordCompletion,
       Prepare!GatewayFails, Prepare!BlockAmbiguous, Prepare!WriteTurn,
       Prepare!RecordEvidence, Prepare!PlanCheckpoint, Prepare!StageChanges,
       Prepare!PublishPlan, Prepare!BeforeCommit, Prepare!CommitStaged, Prepare!Adopt,
       Prepare!WriteCheckpoint, Prepare!RecordCheckpoint, Prepare!Complete, Prepare!Block,
       Prepare!WorkerWrites, Prepare!Crash, Prepare!TearGit, Prepare!Drift,
       Prepare!LimitReached, Prepare!Look, Prepare!Still, Prepare!Persist,
       Prepare!PersistInGateway, Prepare!Publish, Prepare!Fault, Prepare!faultVars
  <2>4. UNCHANGED <<CreationStatus, CreationRaced, Created>> /\ Created' \in BOOLEAN
    BY <2>1 DEF CreationStatus, CreationRaced, Created
  <2> QED BY <2>2, <2>3, <2>4, CreationSilent
<1>4. CASE BeginVerify
  <2>1. /\ part = "prepare" /\ durable = "completed" /\ part' = "install" /\ faults' = faults
    BY <1>4 DEF BeginVerify
  <2>2. launches > 0
    BY <2>1 DEF PromiseInv, IInv, PrepareInv, WorkerFits
  <2>3. UNCHANGED <<CreationStatus, CreationRaced, Created>>
    BY <2>1 DEF CreationStatus, CreationRaced, Created
  <2>4. UNCHANGED <<PreparationStatus, Launched>> /\ PreparationRaced' = TRUE
    BY <2>1, <2>2 DEF PreparationStatus, PreparationRaced, Launched, Prepare!Active,
       Prepare!Uncertain
  <2> QED BY <2>1, <2>3, <2>4, CreationSilent, PreparationSilent
<1>5. CASE LimitEnds
  <2>1. /\ part = "prepare" /\ part' = "prepare" /\ durable = "completed"
        /\ durable' = "escalated" /\ UNCHANGED <<faults, launches, raced>>
    BY <1>5 DEF LimitEnds, InPrepare, prepareOnly
  <2>2. launches > 0
    BY <2>1 DEF PromiseInv, IInv, PrepareInv, WorkerFits
  <2>3. UNCHANGED <<CreationStatus, CreationRaced, Created>>
    BY <2>1 DEF CreationStatus, CreationRaced, Created
  <2>4. UNCHANGED <<PreparationStatus, PreparationRaced, Launched>>
    BY <2>1, <2>2 DEF PreparationStatus, PreparationRaced, Launched, Prepare!Active,
       Prepare!Uncertain
  <2> QED BY <2>1, <2>3, <2>4, CreationSilent, PreparationSilent
<1>6. CASE InstallStep \/ Installed \/ VerifyStep
  <2>1. part \in {"install", "verify"} /\ part' \in {"install", "verify"}
    BY <1>6 DEF InstallStep, InInstall, Installed, VerifyStep, InVerify
  <2>2. faults' \in {faults, faults + 1}
    BY <1>6, FaultsCounted DEF InstallStep, Installed, VerifyStep, PromiseInv, IInv
  <2>3. /\ UNCHANGED <<CreationStatus, CreationRaced, Created>> /\ Created' \in BOOLEAN
        /\ UNCHANGED <<PreparationStatus, PreparationRaced>>
    BY <2>1 DEF CreationStatus, CreationRaced, Created, PreparationStatus, PreparationRaced
  <2>4. UNCHANGED Launched /\ Launched' \in BOOLEAN
    BY <2>1 DEF Launched
  <2> QED BY <2>2, <2>3, <2>4, CreationSilent, PreparationSilent
<1>7. CASE UNCHANGED vars
  BY <1>7 DEF vars, createOnly, prepareOnly, CreationStep, PreparationStep, CreationStatus,
     CreationRaced, Created, PreparationStatus, PreparationRaced, Launched
<1> QED BY <1>1, <1>2, <1>3, <1>4, <1>5, <1>6, <1>7 DEF Next

(* The workspace appears only under a published intent and is recorded only  *)
(* when it is there; the Worker is launched only under a published intent,   *)
(* and no turn is recorded that was not launched, whatever dies or races.    *)
THEOREM Refinement == Spec => ImplementsRecoverableOperations
<1>1. Init => PromiseInv
  BY InitInv DEF PromiseInv, CreationOrder, Init, Create!Init
<1>2. Init => CreationPromise!Init /\ PreparationPromise!Init
  BY DEF Init, Create!Init, Prepare!Init, CreationPromise!Init, PreparationPromise!Init,
     CreationStatus, CreationRaced, Created, PreparationStatus, PreparationRaced, Launched
<1>3. PromiseInv /\ [Next]_vars =>
         /\ [CreationPromise!Next]_<<CreationStatus, Created, faults, CreationRaced>>
         /\ [PreparationPromise!Next]_<<PreparationStatus, Launched, faults, PreparationRaced>>
  BY AttemptSimulated DEF CreationStep, PreparationStep
<1> QED
  BY <1>1, <1>2, <1>3, PromiseInvNext, PTL
  DEF Spec, ImplementsRecoverableOperations, CreationPromise!Spec, PreparationPromise!Spec
=============================================================================
