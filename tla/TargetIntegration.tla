-------------------------- MODULE TargetIntegration --------------------------
(***************************************************************************)
(* Recoverable target integration (target-integration.ts; the driver is      *)
(* recoverPendingTargetIntegration in orchestrator.ts).                      *)
(*                                                                           *)
(* One approved candidate is to become the target branch.  The controller    *)
(* publishes a durable intent, then a pending outcome file, moves the target *)
(* by a fast-forward, replaces the outcome file by the integrated one, and   *)
(* completes the operation.  Every phase is published before the next side   *)
(* effect.  The process may die anywhere, its calls may fail, and people may *)
(* touch the target, the workspace and the files; a later process inspects   *)
(* what it finds, resumes or adopts what is exact, and otherwise preserves   *)
(* it with a durable block.                                                  *)
(***************************************************************************)
EXTENDS Naturals

CONSTANTS
    Obstacle,       \* reasons a target is not clean (dirty, locked, ...)
    NoObstacle,
    MaxFaults       \* bound on crashes, failing calls and outside changes

ASSUME IntegrationAssumption ==
    /\ MaxFaults \in Nat
    /\ NoObstacle \notin Obstacle
    /\ Obstacle \cap {"target-base", "target-candidate"} = {}

VARIABLES
    durable,    \* phase of the operation in the published state
    head,       \* the target HEAD: "base", "candidate" or "foreign"
    obstacle,   \* why the target is not clean, or NoObstacle
    workspace,  \* the candidate workspace: "ready" or how it differs
    protectedOK,\* protected files match the stored hashes
    final,      \* git-outcome.json
    temp,       \* its deterministic temporary file
    pc,         \* where the controller process is
    mem,        \* phase of the operation in the process's state
    faults,     \* faults so far
    disturbed,  \* history: something but a clean crash or a failed call happened
    raced       \* history: outsiders acted while a controller process ran

durableVars == <<durable>>
targetVars  == <<head, obstacle>>
fileVars    == <<final, temp>>
outsideVars == <<workspace, protectedOK>>
faultVars   == <<faults, disturbed, raced>>
vars == <<durable, targetVars, outsideVars, fileVars, pc, mem, faultVars>>

Before  == {"intent-persisted", "outcome-pending", "target-update-started"}
After   == {"target-updated", "outcome-integrated"}
Active  == Before \cup After
Settled == {"completed", "blocked"}
Phase   == {"none"} \cup Active \cup Settled

Artifact  == {"absent", "pending", "integrated", "conflict"}
Workspace == {"ready", "candidate-drift", "workspace-path-unsafe"}

Stage == {"down", "inspect", "protected", "materialize", "writing", "renaming",
          "checking", "advance", "reinspect", "fetch", "forward", "merge",
          "merged", "update", "updated-inspect", "final-inspect", "blocking", "caught"}

------------------------------------------------------------------------------
Init ==
    /\ durable = "none" /\ mem = "none" /\ pc = "down"
    /\ head = "base" /\ obstacle = NoObstacle
    /\ workspace = "ready" /\ protectedOK = TRUE
    /\ final = "absent" /\ temp = "absent"
    /\ faults = 0 /\ disturbed = FALSE /\ raced = FALSE

Fault == faults < MaxFaults /\ faults' = faults + 1

Goto(stage) == pc' = stage

(* A step that only looks, and decides where to go.                          *)
Look(stage) ==
    /\ Goto(stage)
    /\ UNCHANGED <<durable, targetVars, outsideVars, fileVars, mem, faultVars>>

(* Whoever acts while a process runs may come between its look and its act.  *)
Race == raced' = (raced \/ pc # "down")

(* A call that throws for a reason outside the model.                        *)
FailedCall ==
    /\ Fault /\ Goto("caught")
    /\ UNCHANGED <<durable, targetVars, outsideVars, fileVars, mem, disturbed, raced>>

(* persist: StateStore.save admits only the state it last returned.  It may  *)
(* be refused, or publish and then fail on the mirror.                       *)
Persist(phase, stage) ==
    /\ \/ /\ mem = durable
          /\ durable' = phase /\ mem' = phase /\ Goto(stage)
          /\ UNCHANGED faults
       \/ /\ mem = durable /\ Fault
          /\ durable' = phase /\ UNCHANGED mem /\ Goto("caught")
       \/ /\ Fault \/ (mem # durable /\ UNCHANGED faults)
          /\ Goto("caught")
          /\ UNCHANGED <<durable, mem>>
    /\ UNCHANGED <<targetVars, outsideVars, fileVars, disturbed, raced>>

------------------------------------------------------------------------------
(* Mutant: a started update at the base is taken for a lost target.          *)
ClassifyStartedAsUpdated(phase) ==
    IF workspace # "ready" THEN workspace
    ELSE IF obstacle # NoObstacle THEN obstacle
    ELSE IF head = "foreign" THEN "target-unexpected-commit"
    ELSE IF "conflict" \in {final, temp} THEN "outcome-conflict"
    ELSE IF head = "base" THEN
        IF phase \in After \cup {"target-update-started"}
        THEN "state-target-inconsistent" ELSE "target-base"
    ELSE "target-candidate"

(* Mutant: the target's index and worktree are not looked at.                *)
ClassifyIgnoringWorktree(phase) ==
    IF workspace # "ready" THEN workspace
    ELSE IF head = "foreign" THEN "target-unexpected-commit"
    ELSE IF "conflict" \in {final, temp} THEN "outcome-conflict"
    ELSE IF head = "base" THEN
        IF phase \in After THEN "state-target-inconsistent" ELSE "target-base"
    ELSE "target-candidate"

(* inspectTargetIntegrationOperation: the first reason not to go on, or what *)
(* the clean target is at.                                                   *)
Classify(phase) ==
    IF workspace # "ready" THEN workspace
    ELSE IF obstacle # NoObstacle THEN obstacle
    ELSE IF head = "foreign" THEN "target-unexpected-commit"
    ELSE IF "conflict" \in {final, temp} THEN "outcome-conflict"
    ELSE IF head = "base" THEN
        IF phase \in After \/ "integrated" \in {final, temp}
        THEN "state-target-inconsistent" ELSE "target-base"
    ELSE IF final = "integrated" /\ temp = "pending" THEN "outcome-conflict"
    ELSE "target-candidate"

Recoverable(class) == class \in {"target-base", "target-candidate"}

(* Mutants: the outcome is final once the update started; it is the phase.   *)
WantedEarly(phase) ==
    IF phase \in {"intent-persisted", "outcome-pending"} THEN "pending" ELSE "integrated"

WantedAsPhase(phase) == IF phase \in Before THEN "pending" ELSE phase

(* The artifact that belongs to a phase.                                     *)
Wanted(phase) == IF phase \in Before THEN "pending" ELSE "integrated"

(* What may stand in the final place of a wanted artifact.                   *)
Replaceable(wanted) ==
    {"absent"} \cup (IF wanted = "integrated" THEN {"pending"} ELSE {})

------------------------------------------------------------------------------
(* integrate: the candidate is checked again, then the intent is published.  *)
PublishIntent ==
    /\ pc = "down" /\ durable = "none"
    /\ workspace = "ready" /\ protectedOK
    /\ Persist("intent-persisted", "inspect")

(* Mutant: a settled operation is taken up again.                            *)
RestartSettled ==
    /\ pc = "down" /\ durable \in Active \cup Settled
    /\ mem' = durable /\ raced' = FALSE
    /\ Goto("inspect")
    /\ UNCHANGED <<durable, targetVars, outsideVars, fileVars, faults, disturbed>>

(* A later command opens the store and finds the operation.                  *)
Restart ==
    /\ pc = "down" /\ durable \in Active
    /\ mem' = durable /\ raced' = FALSE
    /\ Goto("inspect")
    /\ UNCHANGED <<durable, targetVars, outsideVars, fileVars, faults, disturbed>>

(* Top of the recovery loop.                                                 *)
Inspect ==
    /\ pc = "inspect"
    /\ Look(IF Recoverable(Classify(mem)) THEN "protected" ELSE "blocking")

AssertProtectedFiles ==
    /\ pc = "protected"
    /\ Look(IF ~protectedOK THEN "caught"
            ELSE IF mem \in Before THEN "materialize"
            ELSE IF mem = "target-updated" THEN "updated-inspect"
            ELSE "final-inspect")

(* Mutant: a temporary file of an earlier process is never adopted.          *)
MaterializeFresh ==
    /\ pc = "materialize"
    /\ Look(IF "conflict" \in {final, temp} \/ temp # "absent" THEN "caught"
            ELSE IF final = Wanted(mem) THEN "checking"
            ELSE IF final \in Replaceable(Wanted(mem)) THEN "writing" ELSE "caught")

(* materializeTargetIntegrationOutcome, up to its first effect.              *)
Materialize ==
    LET wanted == Wanted(mem) IN
    /\ pc = "materialize"
    /\ Look(IF "conflict" \in {final, temp} \/ temp \notin {"absent", wanted}
            THEN "caught"
            ELSE IF temp = wanted
            THEN IF final \in Replaceable(wanted) \cup {wanted}
                 THEN "renaming" ELSE "caught"
            ELSE IF final = wanted THEN "checking"
            ELSE IF final \in Replaceable(wanted) THEN "writing" ELSE "caught")

(* atomicWriteJson: the temporary file is created exclusively and synced.    *)
WriteTemporary ==
    /\ pc = "writing"
    /\ \/ temp # "absent" /\ Look("caught")
       \/ /\ temp = "absent"
          /\ temp' = Wanted(mem)
          /\ Goto("renaming")
          /\ UNCHANGED <<durable, targetVars, outsideVars, final, mem, faultVars>>
       \/ temp = "absent" /\ FailedCall

(* The process dies inside the write.                                        *)
TearTemporary ==
    /\ pc = "writing" /\ temp = "absent"
    /\ Fault /\ disturbed' = TRUE
    /\ temp' = "conflict"
    /\ Goto("down")
    /\ UNCHANGED <<durable, targetVars, outsideVars, final, mem, raced>>

(* A failing rename leaves an adopted temporary file, and removes one the    *)
(* same call wrote.                                                          *)
Rename ==
    /\ pc = "renaming"
    /\ \/ temp = "absent" /\ Look("caught")
       \/ /\ temp # "absent"
          /\ final' = temp /\ temp' = "absent"
          /\ Goto("checking")
          /\ UNCHANGED <<durable, targetVars, outsideVars, mem, faultVars>>
       \/ /\ Fault /\ temp' \in {temp, "absent"}
          /\ Goto("caught")
          /\ UNCHANGED <<durable, targetVars, outsideVars, final, mem, disturbed, raced>>

(* The published artifact is read back.                                      *)
CheckOutcome ==
    /\ pc = "checking"
    /\ Look(IF final = Wanted(mem) /\ temp = "absent" THEN "advance" ELSE "caught")

(* Mutant: the update starts before the state says so.                       *)
AdvanceLate ==
    /\ pc = "advance"
    /\ \/ mem = "intent-persisted" /\ Persist("outcome-pending", "materialize")
       \/ mem \in {"outcome-pending", "target-update-started"} /\ Look("reinspect")
       \/ mem = "target-updated" /\ Persist("outcome-integrated", "final-inspect")
       \/ mem = "outcome-integrated" /\ Persist("completed", "down")

(* advanceTargetIntegrationTo, and what follows each materialization.        *)
Advance ==
    /\ pc = "advance"
    /\ \/ mem = "intent-persisted" /\ Persist("outcome-pending", "materialize")
       \/ mem = "outcome-pending" /\ Persist("target-update-started", "reinspect")
       \/ mem = "target-update-started" /\ Look("reinspect")
       \/ mem = "target-updated" /\ Persist("outcome-integrated", "final-inspect")
       \/ mem = "outcome-integrated" /\ Persist("completed", "down")

Reinspect ==
    /\ pc = "reinspect"
    /\ Look(CASE Classify(mem) = "target-base" -> "fetch"
              [] Classify(mem) = "target-candidate" -> "update"
              [] OTHER -> "blocking")

Fetch ==
    /\ pc = "fetch"
    /\ Look("forward") \/ FailedCall

(* fastForwardTargetIntegration: the target must be exactly at the base ...  *)
BeforeFastForward ==
    /\ pc = "forward"
    /\ Look(IF head = "base" /\ obstacle = NoObstacle THEN "merge" ELSE "caught")

(* ... git merge --ff-only moves it (git itself refuses a foreign HEAD, and  *)
(* may refuse an unclean target) ...                                         *)
FastForward ==
    /\ pc = "merge"
    /\ \/ /\ head \in {"base", "candidate"}
          /\ head' = "candidate"
          /\ Goto("merged")
          /\ UNCHANGED <<durable, obstacle, outsideVars, fileVars, mem, faultVars>>
       \/ (head = "foreign" \/ obstacle # NoObstacle) /\ Look("caught")
       \/ FailedCall

(* ... the process dies inside the merge ...                                 *)
TearMerge ==
    /\ pc = "merge" /\ head = "base"
    /\ Fault /\ disturbed' = TRUE
    /\ head' \in {"base", "candidate"} /\ obstacle' \in Obstacle
    /\ Goto("down")
    /\ UNCHANGED <<durable, outsideVars, fileVars, mem, raced>>

(* ... and it must be exactly at the candidate ...                           *)
AfterFastForward ==
    /\ pc = "merged"
    /\ Look(IF head = "candidate" /\ obstacle = NoObstacle THEN "update" ELSE "caught")

(* ... before that is published.                                             *)
PublishUpdated == pc = "update" /\ Persist("target-updated", "updated-inspect")

UpdatedInspect ==
    /\ pc = "updated-inspect"
    /\ Look(IF Classify(mem) = "target-candidate" THEN "materialize" ELSE "blocking")

FinalInspect ==
    /\ pc = "final-inspect"
    /\ Look(IF Classify(mem) = "target-candidate" THEN "materialize" ELSE "blocking")

(* blockTargetIntegration; a published block ends the command.               *)
Block ==
    /\ pc = "blocking"
    /\ Persist("blocked", "down")

(* The handler of the loop: what is not recoverable is blocked, everything   *)
(* else is thrown to the command.  A block that fails here is thrown too.    *)
Catch ==
    /\ pc = "caught"
    /\ \/ /\ mem \in Active /\ ~Recoverable(Classify(mem)) /\ mem = durable
          /\ durable' = "blocked"
          /\ UNCHANGED faults
       \/ /\ mem \notin Active \/ Recoverable(Classify(mem)) \/ mem # durable
          /\ UNCHANGED <<durable, faults>>
       \/ Fault /\ UNCHANGED durable
    /\ Goto("down")
    /\ UNCHANGED <<targetVars, outsideVars, fileVars, mem, disturbed, raced>>

------------------------------------------------------------------------------
(* The process dies between two steps.                                       *)
Crash ==
    /\ pc # "down" /\ Fault
    /\ Goto("down")
    /\ UNCHANGED <<durable, targetVars, outsideVars, fileVars, mem, disturbed, raced>>

(* Someone else changes the target, the workspace or the outcome files.      *)
Drift ==
    /\ Fault /\ disturbed' = TRUE /\ Race
    /\ \/ /\ head' \in {"base", "candidate", "foreign"}
          /\ obstacle' \in Obstacle \cup {NoObstacle}
          /\ UNCHANGED <<outsideVars, fileVars>>
       \/ /\ workspace' \in Workspace
          /\ UNCHANGED <<targetVars, protectedOK, fileVars>>
       \/ /\ final' \in {final, "absent", "conflict"}
          /\ temp' \in {temp, "absent", "conflict"}
          /\ UNCHANGED <<targetVars, outsideVars>>
    /\ UNCHANGED <<durable, pc, mem>>

ProtectedFileChanges ==
    /\ Race
    /\ protectedOK /\ Fault
    /\ protectedOK' = FALSE
    /\ UNCHANGED <<durable, targetVars, workspace, fileVars, pc, mem, disturbed>>

ProtectedFileRestored ==
    /\ Race
    /\ ~protectedOK
    /\ protectedOK' = TRUE
    /\ UNCHANGED <<durable, targetVars, workspace, fileVars, pc, mem, faults, disturbed>>

Controller ==
    \/ PublishIntent \/ Restart \/ Inspect \/ AssertProtectedFiles
    \/ Materialize \/ WriteTemporary \/ Rename \/ CheckOutcome \/ Advance
    \/ Reinspect \/ Fetch \/ BeforeFastForward \/ FastForward
    \/ AfterFastForward \/ PublishUpdated \/ UpdatedInspect \/ FinalInspect \/ Block \/ Catch

Environment ==
    \/ TearTemporary \/ TearMerge \/ Crash
    \/ Drift \/ ProtectedFileChanges \/ ProtectedFileRestored

Next == Controller \/ Environment

Spec == Init /\ [][Next]_vars

(* Someone keeps running the command, and damaged protected files are put    *)
(* back; nothing else about the environment is fair.                         *)
FairSpec == Spec /\ WF_vars(Controller) /\ WF_vars(ProtectedFileRestored)

------------------------------------------------------------------------------
TypeOK ==
    /\ durable \in Phase /\ mem \in Phase
    /\ head \in {"base", "candidate", "foreign"}
    /\ obstacle \in Obstacle \cup {NoObstacle}
    /\ workspace \in Workspace
    /\ protectedOK \in BOOLEAN
    /\ final \in Artifact /\ temp \in Artifact
    /\ pc \in Stage
    /\ faults \in 0..MaxFaults
    /\ disturbed \in BOOLEAN /\ raced \in BOOLEAN

(* No outcome artifact ever says "integrated" before the published state     *)
(* says that the target was updated, not even a temporary one left behind by *)
(* a crash, whoever interferes.                                              *)
RecordNeverAhead ==
    "integrated" \in {final, temp} => durable \notin Before \cup {"none"}

MoveIntended ==
    head' # head /\ ~Drift =>
        /\ durable = "target-update-started"
        /\ head = "base" /\ head' = "candidate"

BlockStands ==
    durable = "blocked" /\ Controller => UNCHANGED <<durable, targetVars, fileVars>>

(* The controller moves the target only from the exact base to the exact     *)
(* candidate, and only when the published state already says that the        *)
(* update has started: a move is never without a durable intent.  Once it    *)
(* has blocked the operation it touches neither target, files nor state.     *)
TargetMovedUnderIntent == [][MoveIntended /\ BlockStands]_vars

(* An operation is completed only with the target clean at the approved      *)
(* candidate and exactly the integrated outcome on disk, through any crashes *)
(* and failed calls before, unless outsiders act while that process runs.    *)
CompletionIsTrue ==
    [][ ~raced /\ durable' = "completed" /\ durable # "completed" =>
          /\ head = "candidate" /\ obstacle = NoObstacle
          /\ final = "integrated" /\ temp = "absent" /\ workspace = "ready" ]_vars

(* A crash between two steps or a failed call alone never blocks: every      *)
(* intermediate result is one the next process recognises as its own.        *)
CrashAloneNeverBlocks == durable = "blocked" => disturbed

(* A started integration is decided: no combination of crashes, failures and *)
(* outside changes leaves commands throwing for ever.                        *)
EventuallyDecided == durable \in Active ~> durable \in Settled

(* What of the operation matters to its promise.                             *)
Status ==
    CASE durable \in {"intent-persisted", "outcome-pending"} -> "intended"
      [] durable = "target-update-started" -> "started"
      [] durable \in After -> "done"
      [] OTHER -> durable

(* The target gets the candidate only after the published state says so, is  *)
(* recorded as updated only when it is, and a settled integration stays so.  *)
Promise ==
    INSTANCE RecoverableOperation
    WITH status <- Status, effect <- head = "candidate"

ImplementsRecoverableOperation == Promise!Spec
==============================================================================
