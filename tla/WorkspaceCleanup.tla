--------------------------- MODULE WorkspaceCleanup ---------------------------
(***************************************************************************)
(* Recoverable terminal workspace cleanup (workspace-cleanup-operation.ts;   *)
(* the drivers are escalate, cleanupTerminalWorkspace and                    *)
(* recoverPendingWorkspaceCleanup in orchestrator.ts).                       *)
(*                                                                           *)
(* A milestone has ended.  Its workspace is kept without dependencies, or    *)
(* deleted; the workspace of a failed milestone is deleted only after an     *)
(* exact diagnostic archive was written.  The recursive deletion cannot be   *)
(* undone and is not atomic, so each phase is published before its effect    *)
(* and a later process must tell what an earlier one did from what others    *)
(* did.                                                                      *)
(***************************************************************************)
EXTENDS Naturals

CONSTANTS
    Files,          \* files of a complete diagnostic archive
    MaxFaults       \* bound on crashes, failing calls and outside changes

ASSUME CleanupAssumption == Files \in Nat \ {0} /\ MaxFaults \in Nat

VARIABLES
    config,     \* cleanupCompletedWorkspaces and preserveFailedWorkspaces
    outcome,    \* how the milestone ended, or "none"
    forced,     \* history: it was escalated with preserveWorkspace
    durable,    \* published: "active", "terminal", or the operation's phase
    reason,     \* cleanup reason of the published operation
    workspace,  \* the workspace against what is recorded of it
    deps,       \* node_modules is there
    archive,    \* the diagnostic archive directory
    files,      \* exact files in it
    pc,         \* where the controller process is
    mem,        \* what the process knows as published
    request,    \* the forcedReason argument, or "none"
    faults,     \* faults so far
    disturbed,  \* history: more than clean crashes and failed calls happened
    raced       \* history: outsiders acted while the present process ran

milestoneVars == <<config, outcome, forced>>
spaceVars     == <<workspace, deps>>
archiveVars   == <<archive, files>>
faultVars     == <<faults, disturbed, raced>>
vars == <<milestoneVars, durable, reason, spaceVars, archiveVars, pc, mem,
          request, faultVars>>

Reason == {"completed-delete-workspace", "completed-preserve-workspace",
           "failed-delete-after-diagnostics", "failed-preserve-workspace"}
Preserving == {"completed-preserve-workspace", "failed-preserve-workspace"}
Deleting   == Reason \ Preserving
Failed     == {"failed-delete-after-diagnostics", "failed-preserve-workspace"}
Diagnosed  == "failed-delete-after-diagnostics"

Active == {"intent-persisted", "dependency-removal-started", "dependencies-removed",
           "archive-started", "archive-ready", "workspace-delete-started",
           "workspace-deleted"}
Settled == {"completed", "blocked"}
Phase   == {"active", "terminal"} \cup Active \cup Settled

(* "edited": other bytes under the same HEAD and status; "dirtied": another  *)
(* status; "moved": another HEAD; "broken": no longer the controller's clone. *)
Workspace == {"exact", "edited", "dirtied", "moved", "broken", "missing"}
Archive   == {"missing", "present", "conflict"}

Stage == {"running", "down", "report", "plan", "inspect", "authorize-removal",
          "remove", "adopt-removal", "authorize-archive", "materialize",
          "writing", "checking", "authorize-deletion", "check-deletion",
          "delete", "deleted", "complete", "blocking", "caught"}

------------------------------------------------------------------------------
Init ==
    /\ config \in [cleanupCompleted : BOOLEAN, preserveFailed : BOOLEAN]
    /\ outcome = "none" /\ forced = FALSE
    /\ durable = "active" /\ mem = "active" /\ reason = "none"
    /\ workspace = "exact" /\ deps \in BOOLEAN
    /\ archive = "missing" /\ files = 0
    /\ pc = "running" /\ request = "none"
    /\ faults = 0 /\ disturbed = FALSE /\ raced = FALSE

Fault == faults < MaxFaults /\ faults' = faults + 1

Goto(stage) == pc' = stage

(* A step that only looks, and decides where to go.                          *)
Look(stage) ==
    /\ Goto(stage)
    /\ UNCHANGED <<milestoneVars, durable, reason, spaceVars, archiveVars, mem,
                   request, faultVars>>

(* A call that throws for a reason outside the model.                        *)
FailedCall ==
    /\ Fault /\ Goto("caught")
    /\ UNCHANGED <<milestoneVars, durable, reason, spaceVars, archiveVars, mem,
                   request, disturbed, raced>>

(* persist: it may publish, publish and then fail, or be refused.            *)
Persist(phase, stage) ==
    \/ /\ mem = durable
       /\ durable' = phase /\ mem' = phase /\ Goto(stage)
       /\ UNCHANGED faults
    \/ /\ mem = durable /\ Fault
       /\ durable' = phase /\ UNCHANGED mem /\ Goto("caught")
    \/ /\ Fault \/ (mem # durable /\ UNCHANGED faults)
       /\ Goto("caught")
       /\ UNCHANGED <<durable, mem>>

(* A published phase of the operation, nothing else.                         *)
Advance(phase, stage) ==
    /\ Persist(phase, stage)
    /\ UNCHANGED <<milestoneVars, reason, spaceVars, archiveVars, request,
                   disturbed, raced>>

------------------------------------------------------------------------------
(* What inspectWorkspaceCleanupOperation accepts as the pinned workspace.    *)
Ready == {"exact", "edited"}

ArchiveComplete == archive = "present" /\ files = Files

(* Mutant: a missing workspace is adopted without looking at its archive.    *)
AdoptableWithoutArchive(phase) ==
    /\ reason \in Deleting
    /\ phase \in {"workspace-delete-started", "workspace-deleted"}

(* Mutant: a missing workspace is adopted only after the published deletion. *)
AdoptableLate(phase) ==
    /\ reason \in Deleting
    /\ reason = Diagnosed => ArchiveComplete
    /\ phase = "workspace-deleted"

(* A missing workspace is the controller's own deletion.                     *)
Adoptable(phase) ==
    /\ reason \in Deleting
    /\ reason = Diagnosed => ArchiveComplete
    /\ phase \in {"workspace-delete-started", "workspace-deleted"}

(* Mutant: the diagnostic payload is not compared with the intent.           *)
UndiagnosableWithoutPayload(phase) ==
    \/ phase = "intent-persisted" /\ archive # "missing"
    \/ phase \in {"archive-ready", "workspace-delete-started"} /\ ~ArchiveComplete

(* The payload differs from the intent, or the archive contradicts the phase. *)
Undiagnosable(phase) ==
    \/ workspace = "edited"
    \/ phase = "intent-persisted" /\ archive # "missing"
    \/ phase \in {"archive-ready", "workspace-delete-started"} /\ ~ArchiveComplete

(* inspectWorkspaceCleanupOperation, in the order of its returns; "blocked"  *)
(* stands for every classification that demands manual reconciliation.       *)
Classify(phase) ==
    IF \/ workspace \notin Ready \cup {"missing"}
       \/ reason = Diagnosed /\ archive = "conflict"
       \/ workspace = "missing" /\ ~Adoptable(phase)
    THEN "blocked"
    ELSE IF workspace = "missing" THEN "workspace-deleted"
    ELSE IF phase = "workspace-deleted" THEN "blocked"
    ELSE IF reason \in Preserving THEN
        IF ~deps THEN "dependencies-removed"
        ELSE IF phase = "dependencies-removed" THEN "blocked" ELSE "workspace-ready"
    ELSE IF reason # Diagnosed THEN "workspace-ready"
    ELSE IF Undiagnosable(phase) THEN "blocked"
    ELSE IF ArchiveComplete THEN "archive-ready" ELSE "archive-incomplete"

(* cleanupReason: the policy of the configuration for the outcome.           *)
Policy ==
    IF outcome = "completed"
    THEN IF config.cleanupCompleted
         THEN "completed-delete-workspace" ELSE "completed-preserve-workspace"
    ELSE IF config.preserveFailed
         THEN "failed-preserve-workspace" ELSE "failed-delete-after-diagnostics"

(* What planWorkspaceCleanupOperation can pin.  A failed workspace may have  *)
(* any HEAD and status; a completed one must be at its recorded HEAD.        *)
Plannable(r) ==
    Ready \cup {"dirtied"} \cup (IF r \in Failed THEN {"moved"} ELSE {})

------------------------------------------------------------------------------
(* How a milestone ends is known once its end is published.                  *)
EndMilestone(how, preserve, stage) ==
    /\ pc = "running"
    /\ Persist("terminal", stage)
    /\ IF durable' = durable THEN UNCHANGED <<outcome, forced>>
       ELSE outcome' = how /\ forced' = preserve
    /\ request' = IF preserve THEN "failed-preserve-workspace" ELSE "none"
    /\ UNCHANGED <<config, reason, spaceVars, archiveVars, disturbed, raced>>

(* The completion of the integration ends a milestone well.                  *)
CompleteMilestone == EndMilestone("completed", FALSE, "plan")

(* escalate publishes the end of a milestone; whether the workspace must be  *)
(* preserved is only an argument ...                                         *)
Escalate(preserveWorkspace) == EndMilestone("escalated", preserveWorkspace, "report")

(* ... then it writes its report, and cleans up.                             *)
WriteReport ==
    /\ pc = "report"
    /\ Look("plan") \/ FailedCall

(* A later command finds the operation, a terminal milestone whose           *)
(* workspace is not settled yet, or a milestone to go on with.               *)
Restart ==
    /\ pc = "down" /\ durable \notin Settled
    /\ mem' = durable /\ request' = "none" /\ raced' = FALSE
    /\ Goto(CASE durable = "active" -> "running"
              [] durable = "terminal" -> "plan"
              [] OTHER -> "inspect")
    /\ UNCHANGED <<milestoneVars, durable, reason, spaceVars, archiveVars, faults, disturbed>>

(* cleanupTerminalWorkspace: the intent pins the workspace as it is now.     *)
Plan ==
    LET chosen == IF request # "none" THEN request ELSE Policy IN
    /\ pc = "plan"
    /\ \/ /\ workspace \in Plannable(chosen)
          /\ Persist("intent-persisted", "inspect")
          /\ IF durable' = durable THEN UNCHANGED <<reason, workspace>>
             ELSE reason' = chosen /\ workspace' = "exact"
          /\ UNCHANGED <<milestoneVars, deps, archiveVars, request, disturbed, raced>>
       \/ workspace \notin Plannable(chosen) /\ Look("down")
       \/ FailedCall

(* Top of the recovery loop.                                                 *)
Inspect ==
    /\ pc = "inspect"
    /\ Look(CASE Classify(mem) = "workspace-ready" ->
                    IF reason \in Preserving THEN "authorize-removal" ELSE "authorize-deletion"
              [] Classify(mem) = "dependencies-removed" -> "adopt-removal"
              [] Classify(mem) = "archive-incomplete" -> "authorize-archive"
              [] Classify(mem) = "archive-ready" -> "authorize-deletion"
              [] Classify(mem) = "workspace-deleted" -> "deleted"
              [] OTHER -> "blocking")

AuthorizeRemoval ==
    /\ pc = "authorize-removal"
    /\ \/ mem = "intent-persisted" /\ Advance("dependency-removal-started", "remove")
       \/ mem # "intent-persisted" /\ Look("remove")

(* removeWorkspaceCleanupDependencies; a half-removed directory is there.    *)
Remove ==
    /\ pc = "remove"
    /\ \/ workspace \notin Ready /\ Look("caught")
       \/ /\ workspace \in Ready
          /\ deps' = FALSE /\ Goto("adopt-removal")
          /\ UNCHANGED <<milestoneVars, durable, reason, workspace, archiveVars, mem,
                         request, faultVars>>
       \/ FailedCall

(* Mutant: a removal that was found is recorded, started or not.             *)
AdoptRemovalAtOnce ==
    /\ pc = "adopt-removal"
    /\ \/ /\ mem \in {"intent-persisted", "dependency-removal-started"}
          /\ Advance("dependencies-removed", "complete")
       \/ mem = "dependencies-removed" /\ Look("complete")

AdoptRemoval ==
    /\ pc = "adopt-removal"
    /\ \/ mem = "intent-persisted" /\ Advance("dependency-removal-started", "adopt-removal")
       \/ mem = "dependency-removal-started" /\ Advance("dependencies-removed", "complete")
       \/ mem = "dependencies-removed" /\ Look("complete")

AuthorizeArchive ==
    /\ pc = "authorize-archive"
    /\ \/ mem = "intent-persisted" /\ Advance("archive-started", "materialize")
       \/ mem # "intent-persisted" /\ Look("materialize")

(* Mutant: an archive directory of an earlier process is refused.            *)
MaterializeFresh ==
    /\ pc = "materialize"
    /\ \/ workspace \in Ready /\ ArchiveComplete /\ Look("authorize-deletion")
       \/ /\ workspace = "exact" /\ archive = "missing"
          /\ archive' = "present" /\ Goto("writing")
          /\ UNCHANGED <<milestoneVars, durable, reason, spaceVars, files, mem, request, faultVars>>
       \/ archive # "missing" /\ ~ArchiveComplete /\ Look("caught")

(* materializeWorkspaceCleanupArchive: what is there is checked and the      *)
(* directory made ...                                                        *)
Materialize ==
    LET resumable == workspace = "exact" /\ archive # "conflict" IN
    /\ pc = "materialize"
    /\ \/ workspace \in Ready /\ ArchiveComplete /\ Look("authorize-deletion")
       \/ /\ resumable /\ ~ArchiveComplete
          /\ archive' = "present" /\ Goto("writing")
          /\ UNCHANGED <<milestoneVars, durable, reason, spaceVars, files, mem, request, faultVars>>
       \/ ~resumable /\ ~(workspace \in Ready /\ ArchiveComplete) /\ Look("caught")
       \/ FailedCall

(* Mutant: a file that is already there is written again.                    *)
WriteFileAgain ==
    /\ pc = "writing"
    /\ \/ /\ archive = "present"
          /\ files' = files + 1 /\ UNCHANGED pc
          /\ UNCHANGED <<milestoneVars, durable, reason, spaceVars, archive, mem, request, faultVars>>
       \/ archive = "present" /\ files = Files /\ Look("checking")

(* ... its files are created one after the other ...                         *)
WriteFile ==
    /\ pc = "writing"
    /\ \/ /\ archive = "present" /\ files < Files
          /\ files' = files + 1 /\ UNCHANGED pc
          /\ UNCHANGED <<milestoneVars, durable, reason, spaceVars, archive, mem, request, faultVars>>
       \/ archive = "present" /\ files = Files /\ Look("checking")
       \/ archive # "present" /\ Look("caught")
       \/ FailedCall

(* ... (a write that dies or fails half-way leaves a torn file) ...          *)
TearFile ==
    /\ pc = "writing" /\ archive = "present" /\ files < Files
    /\ Fault /\ disturbed' = TRUE
    /\ archive' = "conflict" /\ files' = 0
    /\ pc' \in {"down", "caught"}
    /\ UNCHANGED <<milestoneVars, durable, reason, spaceVars, mem, request, raced>>

(* ... and the archive is read back.                                         *)
CheckArchive ==
    /\ pc = "checking"
    /\ Look(IF ArchiveComplete THEN "authorize-deletion" ELSE "caught")

(* Mutant: the deletion starts before the state says so.                     *)
AuthorizeDeletionLate ==
    /\ pc = "authorize-deletion"
    /\ \/ mem \in {"intent-persisted", "archive-ready"} /\ Look("check-deletion")
       \/ mem = "archive-started" /\ Advance("archive-ready", "authorize-deletion")
       \/ mem = "workspace-delete-started" /\ Look("check-deletion")

AuthorizeDeletion ==
    /\ pc = "authorize-deletion"
    /\ \/ /\ mem \in {"intent-persisted", "archive-ready"}
          /\ Advance("workspace-delete-started", "check-deletion")
       \/ mem = "archive-started" /\ Advance("archive-ready", "authorize-deletion")
       \/ mem = "workspace-delete-started" /\ Look("check-deletion")

(* deleteWorkspaceCleanupWorkspace: everything is inspected once more ...    *)
CheckDeletion ==
    /\ pc = "check-deletion"
    /\ Look(CASE Classify(mem) \in {"workspace-ready", "archive-ready"} -> "delete"
              [] Classify(mem) = "workspace-deleted" -> "deleted"
              [] OTHER -> "caught")

(* ... then the workspace is removed recursively.                            *)
Delete ==
    /\ pc = "delete"
    /\ \/ /\ workspace' = "missing" /\ deps' = FALSE
          /\ Goto("deleted")
          /\ UNCHANGED <<milestoneVars, durable, reason, archiveVars, mem, request, faultVars>>
       \/ FailedCall

(* The removal dies or fails half-way: perhaps only ignored files are gone.  *)
TearDelete ==
    /\ pc = "delete" /\ workspace # "missing"
    /\ Fault /\ disturbed' = TRUE
    /\ workspace' \in {workspace, "dirtied", "broken"}
    /\ deps' \in {deps, FALSE}
    /\ pc' \in {"down", "caught"}
    /\ UNCHANGED <<milestoneVars, durable, reason, archiveVars, mem, request, raced>>

Deleted ==
    /\ pc = "deleted"
    /\ \/ mem = "workspace-delete-started" /\ Advance("workspace-deleted", "complete")
       \/ mem = "workspace-deleted" /\ Look("complete")

Complete == pc = "complete" /\ Advance("completed", "down")

(* blockWorkspaceCleanup; a published block ends the command.                *)
Block == pc = "blocking" /\ Advance("blocked", "down")

(* The handler of the loop: what needs manual reconciliation is blocked,     *)
(* everything else is thrown to the command.                                 *)
Catch ==
    /\ pc = "caught"
    /\ \/ /\ mem \in Active /\ Classify(mem) = "blocked" /\ mem = durable
          /\ durable' = "blocked"
          /\ UNCHANGED faults
       \/ /\ mem \notin Active \/ Classify(mem) # "blocked" \/ mem # durable
          /\ UNCHANGED <<durable, faults>>
       \/ Fault /\ UNCHANGED durable
    /\ Goto("down")
    /\ UNCHANGED <<milestoneVars, reason, spaceVars, archiveVars, mem, request, disturbed, raced>>

------------------------------------------------------------------------------
(* The process dies between two steps.                                       *)
Crash ==
    /\ pc \notin {"down", "running"} /\ Fault
    /\ Goto("down")
    /\ UNCHANGED <<milestoneVars, durable, reason, spaceVars, archiveVars, mem,
                   request, disturbed, raced>>

(* Someone else changes the workspace or the archive.                        *)
Drift ==
    /\ pc # "running"
    /\ Fault /\ disturbed' = TRUE /\ raced' = (raced \/ pc # "down")
    /\ \/ /\ workspace' \in Workspace /\ deps' \in BOOLEAN
          /\ UNCHANGED archiveVars
       \/ /\ archive' \in Archive /\ files' \in 0..Files
          /\ archive' # "present" => files' = 0
          /\ UNCHANGED spaceVars
    /\ UNCHANGED <<milestoneVars, durable, reason, pc, mem, request>>

Controller ==
    \/ CompleteMilestone \/ \E p \in BOOLEAN : Escalate(p)
    \/ WriteReport \/ Restart \/ Plan \/ Inspect
    \/ AuthorizeRemoval \/ Remove \/ AdoptRemoval
    \/ AuthorizeArchive \/ Materialize \/ WriteFile \/ CheckArchive
    \/ AuthorizeDeletion \/ CheckDeletion \/ Delete \/ Deleted
    \/ Complete \/ Block \/ Catch

Next == Controller \/ TearFile \/ TearDelete \/ Crash \/ Drift

Spec == Init /\ [][Next]_vars

(* Someone keeps running the command.                                        *)
FairSpec == Spec /\ WF_vars(Controller)
------------------------------------------------------------------------------
TypeOK ==
    /\ config \in [cleanupCompleted : BOOLEAN, preserveFailed : BOOLEAN]
    /\ outcome \in {"none", "completed", "escalated"} /\ forced \in BOOLEAN
    /\ durable \in Phase /\ mem \in Phase
    /\ reason \in Reason \cup {"none"}
    /\ workspace \in Workspace /\ deps \in BOOLEAN
    /\ archive \in Archive /\ files \in 0..Files
    /\ pc \in Stage
    /\ request \in {"none", "failed-preserve-workspace"}
    /\ faults \in 0..MaxFaults
    /\ disturbed \in BOOLEAN /\ raced \in BOOLEAN

RemovalIntended ==
    ~Drift /\ workspace \in Ready /\ workspace' \notin Ready =>
        durable = "workspace-delete-started" /\ reason \in Deleting

BlockStands ==
    durable = "blocked" /\ Controller =>
        UNCHANGED <<durable, reason, spaceVars, archiveVars>>

(* No step of the controller takes a ready workspace away, unless the         *)
(* published operation says that the deletion started and its policy deletes. *)
(* Once it has blocked the operation it leaves workspace and archive alone.   *)
DeletionAuthorised == [][RemovalIntended /\ BlockStands]_vars

(* A failed workspace is touched by its deletion only when the archive is    *)
(* complete and still describes it, unless outsiders race that very process. *)
DiagnosticsFirst ==
    [][ ~raced /\ reason = Diagnosed /\ ~Drift /\ UNCHANGED reason
        /\ (workspace' # workspace \/ deps' # deps) =>
          ArchiveComplete /\ workspace = "exact" ]_vars

(* A completed cleanup did what its reason says: the workspace is kept       *)
(* without dependencies, or gone, and then with its archive if it failed.    *)
CompletionIsTrue ==
    [][ ~raced /\ durable' = "completed" /\ durable # "completed" =>
          /\ reason \in Preserving => workspace \in Ready /\ ~deps
          /\ reason \in Deleting => workspace = "missing"
          /\ reason = Diagnosed => ArchiveComplete ]_vars

(* Crashes between two steps and failed calls alone never block.             *)
CrashAloneNeverBlocks == durable = "blocked" => disturbed

(* A planned cleanup is settled: no set of leftovers makes every later       *)
(* command throw.                                                            *)
EventuallySettled == durable \in Active ~> durable \in Settled

(* README.md: a candidate without matching intent is preserved even when     *)
(* failed-workspace cleanup requests deletion.                               *)
ForcedPreservation ==
    [][ forced /\ workspace # "missing" /\ ~Drift => workspace' # "missing" ]_vars

(* What of the operation matters to its promise.                             *)
Status ==
    CASE durable \in {"active", "terminal"} -> "none"
      [] durable \in {"intent-persisted", "archive-started", "archive-ready"} -> "intended"
      [] durable \in {"dependency-removal-started", "workspace-delete-started"} -> "started"
      [] durable \in {"dependencies-removed", "workspace-deleted"} -> "done"
      [] OTHER -> durable

Removed == IF reason \in Preserving THEN ~deps ELSE workspace = "missing"

(* Dependencies or workspace are removed only after the published state says *)
(* so, the removal is recorded only when it is one, and a settled cleanup    *)
(* stays so.                                                                 *)
Promise ==
    INSTANCE RecoverableOperation
    WITH status <- Status, effect <- Removed

ImplementsRecoverableOperation == Promise!Spec
==============================================================================
