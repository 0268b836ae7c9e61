----------------------- MODULE WorkspaceCleanup_proofs -----------------------
(***************************************************************************)
(* Safety of workspace cleanup for archives of any size, any number of       *)
(* faults and any interference.  The inductive invariant says which policy   *)
(* and phases each stage belongs to, what the running process has seen if    *)
(* nobody raced it, and what the published phase implies about the disk as   *)
(* long as nothing but clean crashes and failed calls happened.              *)
(***************************************************************************)
EXTENDS WorkspaceCleanup, TLAPS

Removing  == {"authorize-removal", "remove", "adopt-removal"}
Archiving == {"materialize", "writing", "checking"}
DeletingStages == {"authorize-deletion", "check-deletion", "delete", "deleted"}
Recovering == {"inspect", "authorize-archive", "complete", "blocking"}
              \cup Removing \cup Archiving \cup DeletingStages

(* Between two calls of persist a process works on the published phase.      *)
Synchronised == pc \notin {"down", "caught"} => mem = durable

(* Only a published operation has a reason, and only phases of that policy.  *)
PolicyFits(phase) ==
    /\ phase \in {"active", "terminal"} => reason = "none"
    /\ phase \in Active \cup Settled => reason \in Reason
    /\ phase \in {"dependency-removal-started", "dependencies-removed"} => reason \in Preserving
    /\ phase \in {"archive-started", "archive-ready"} => reason = Diagnosed
    /\ phase \in {"workspace-delete-started", "workspace-deleted"} => reason \in Deleting

(* The policies and phases a stage of a process belongs to.                  *)
StageFits(stage, phase) ==
    /\ stage = "running" => phase = "active"
    /\ stage \in {"report", "plan"} => phase = "terminal"
    /\ stage \in Recovering => phase \in Active
    /\ stage \in Removing => reason \in Preserving
    /\ stage = "authorize-removal" => phase \in {"intent-persisted", "dependency-removal-started"}
    /\ stage = "remove" => phase = "dependency-removal-started"
    /\ stage \in DeletingStages => reason \in Deleting
    /\ stage \in Archiving \cup {"authorize-archive"} => reason = Diagnosed
    /\ stage \in Archiving => phase = "archive-started"
    /\ stage = "authorize-archive" => phase \in {"intent-persisted", "archive-started"}
    /\ stage \in {"check-deletion", "delete"} => phase = "workspace-delete-started"
    /\ stage = "complete" =>
          phase = IF reason \in Preserving THEN "dependencies-removed" ELSE "workspace-deleted"

(* What a process at a stage has seen, if no outsider acted since it started. *)
SeenAt(stage) ==
    /\ stage = "delete" => workspace \in Ready /\ (reason = Diagnosed => workspace = "exact")
    /\ stage \in {"delete", "deleted", "complete"} /\ reason = Diagnosed => ArchiveComplete
    /\ stage = "deleted" => workspace = "missing"
    /\ stage = "complete" /\ reason \in Deleting => workspace = "missing"
    /\ stage = "adopt-removal" => workspace \in Ready /\ ~deps
    /\ stage = "complete" /\ reason \in Preserving => workspace \in Ready /\ ~deps

Seen == ~raced => SeenAt(pc)

(* What a published phase implies about the disk until it is disturbed.      *)
DiskFits(phase) ==
    /\ workspace \in {"exact", "missing"} /\ archive # "conflict"
    /\ phase # "blocked"
    /\ phase \in {"active", "terminal", "intent-persisted"} => archive = "missing"
    /\ phase = "archive-ready" => ArchiveComplete
    /\ phase \in {"workspace-delete-started", "workspace-deleted"} =>
          (reason = Diagnosed => ArchiveComplete)
    /\ phase = "workspace-deleted" => workspace = "missing"
    /\ phase = "dependencies-removed" => ~deps
    /\ workspace = "missing" =>
          phase \in {"workspace-delete-started", "workspace-deleted"} \cup Settled

(* Where an undisturbed process may go.                                      *)
QuietAt(stage) ==
    /\ stage # "blocking"
    /\ stage = "authorize-deletion" /\ reason = Diagnosed => ArchiveComplete

Undisturbed == ~disturbed => ~raced /\ DiskFits(durable) /\ QuietAt(pc)

IInv ==
    /\ TypeOK /\ Synchronised /\ PolicyFits(durable)
    /\ StageFits(pc, durable) /\ Seen /\ Undisturbed

(* The initial state satisfies the inductive invariant.                      *)
LEMMA InitInv == Init => IInv
<1> SUFFICES ASSUME Init PROVE IInv
  OBVIOUS
<1>1. TypeOK
  <2>1. faults \in 0..MaxFaults /\ files \in 0..Files
    BY CleanupAssumption DEF Init
  <2>2. /\ config \in [cleanupCompleted : BOOLEAN, preserveFailed : BOOLEAN]
        /\ forced \in BOOLEAN /\ deps \in BOOLEAN /\ disturbed \in BOOLEAN /\ raced \in BOOLEAN
    BY DEF Init
  <2> QED
    BY <2>1, <2>2 DEF Init, TypeOK, Phase, Stage, Workspace, Archive
<1>2. Synchronised /\ PolicyFits(durable) /\ StageFits(pc, durable)
  BY DEF Init, Synchronised, PolicyFits, StageFits, Active, Settled, Recovering, Removing,
         Archiving, DeletingStages
<1>3. Seen /\ Undisturbed
  BY DEF Init, Seen, SeenAt, Undisturbed, DiskFits, QuietAt
<1> QED
  BY <1>1, <1>2, <1>3 DEF IInv

(* What an inspection says about the disk.                                   *)
LEMMA ClassifyFacts ==
    ASSUME IInv, durable \in Active, mem = durable
    PROVE  /\ Classify(mem) \in {"blocked", "workspace-ready", "dependencies-removed",
                                  "archive-incomplete", "archive-ready", "workspace-deleted"}
           /\ Classify(mem) = "workspace-ready" => workspace \in Ready /\ reason # Diagnosed
           /\ Classify(mem) = "workspace-ready" /\ reason \in Preserving =>
                 mem \in {"intent-persisted", "dependency-removal-started"}
           /\ Classify(mem) = "dependencies-removed" =>
                 reason \in Preserving /\ workspace \in Ready /\ ~deps
           /\ Classify(mem) \in {"archive-incomplete", "archive-ready"} =>
                 reason = Diagnosed /\ workspace = "exact"
           /\ Classify(mem) = "archive-incomplete" => mem \in {"intent-persisted", "archive-started"}
           /\ Classify(mem) = "archive-ready" => ArchiveComplete
           /\ Classify(mem) = "workspace-deleted" =>
                 /\ reason \in Deleting /\ (reason = Diagnosed => ArchiveComplete)
                 /\ workspace = "missing"
                 /\ mem \in {"workspace-delete-started", "workspace-deleted"}
  BY DEF Classify, Adoptable, Undiagnosable, Ready, Deleting, Preserving, Diagnosed, Reason, IInv, PolicyFits, Active

(* Clean crashes and failed calls leave nothing that must be blocked.        *)
LEMMA UndisturbedNotBlocked ==
    ASSUME IInv, ~disturbed, durable \in Active, mem = durable
    PROVE  Classify(mem) # "blocked"
  BY DEF IInv, PolicyFits, Undisturbed, DiskFits, Classify, Adoptable, Undiagnosable, Ready,
         Active, Settled,
         Deleting, Preserving, Diagnosed, Reason

(* A step that only looks changes nothing but the stage.                     *)
LEMMA LookInv ==
    ASSUME IInv, NEW stage \in Stage, Look(stage), pc \notin {"down", "caught"},
           StageFits(stage, durable), ~raced => SeenAt(stage), ~disturbed => QuietAt(stage)
    PROVE  IInv'
<1> USE DEF Look, Goto
<1>1. UNCHANGED <<milestoneVars, durable, reason, spaceVars, archiveVars, mem, request, faultVars>>
      /\ pc' = stage
  OBVIOUS
<1> USE DEF milestoneVars, spaceVars, archiveVars, faultVars
<1>2. TypeOK' /\ Synchronised' /\ PolicyFits(durable)'
  BY <1>1 DEF IInv, TypeOK, Synchronised, PolicyFits
<1>3. StageFits(pc, durable)'
  BY <1>1 DEF StageFits
<1>4. Seen' /\ Undisturbed'
  BY <1>1 DEF IInv, Seen, SeenAt, Undisturbed, DiskFits, QuietAt, ArchiveComplete
<1> QED
  BY <1>2, <1>3, <1>4 DEF IInv

(* A call that throws leaves a process that will only clean up.              *)
LEMMA FailedCallInv == ASSUME IInv, FailedCall PROVE IInv'
<1> USE DEF FailedCall, Goto, milestoneVars, spaceVars, archiveVars
<1>1. TypeOK' /\ Synchronised' /\ PolicyFits(durable)'
  BY CleanupAssumption DEF Fault, IInv, TypeOK, Synchronised, PolicyFits, Stage
<1>2. StageFits(pc, durable)'
  BY DEF StageFits, Recovering, Removing, Archiving, DeletingStages
<1>3. Seen' /\ Undisturbed'
  BY DEF IInv, Seen, SeenAt, Undisturbed, DiskFits, QuietAt, ArchiveComplete
<1> QED
  BY <1>1, <1>2, <1>3 DEF IInv

(* Publishing a phase keeps the invariant where the disk carries it.         *)
LEMMA AdvanceInv ==
    ASSUME IInv, NEW phase \in Active \cup Settled, NEW stage \in Stage, Advance(phase, stage),
           durable \in Active,
           StageFits(stage, phase), PolicyFits(phase), ~raced => SeenAt(stage),
           ~disturbed => DiskFits(phase) /\ QuietAt(stage)
    PROVE  IInv'
<1> USE DEF Advance, Persist, Goto, milestoneVars, spaceVars, archiveVars
<1>1. TypeOK'
  <2>1. durable' \in Phase /\ mem' \in Phase /\ pc' \in Stage
    BY DEF IInv, TypeOK, Phase, Stage
  <2>2. faults' \in 0..MaxFaults
    BY CleanupAssumption DEF IInv, TypeOK, Fault
  <2> QED
    BY <2>1, <2>2 DEF IInv, TypeOK
<1>2. Synchronised' /\ PolicyFits(durable)'
  BY DEF IInv, Synchronised, PolicyFits
<1>3. StageFits(pc, durable)'
  BY DEF StageFits, Recovering, Removing, Archiving, DeletingStages
<1>4. Seen'
  BY DEF IInv, Seen, SeenAt, ArchiveComplete
<1>5. Undisturbed'
  BY DEF IInv, Undisturbed, DiskFits, QuietAt, ArchiveComplete
<1> QED
  BY <1>1, <1>2, <1>3, <1>4, <1>5 DEF IInv

(* A process about to write the archive has published that it starts.        *)
LEMMA AuthorizeArchiveInv == ASSUME IInv, AuthorizeArchive PROVE IInv'
<1>1. /\ pc = "authorize-archive" /\ mem = durable /\ durable \in Active /\ reason = Diagnosed
      /\ durable \in {"intent-persisted", "archive-started"}
  BY DEF AuthorizeArchive, IInv, Synchronised, StageFits, Recovering
<1>2. StageFits("materialize", "archive-started") /\ PolicyFits("archive-started")
  BY <1>1 DEF StageFits, PolicyFits, Recovering, Removing, Archiving, DeletingStages, Active,
         Diagnosed, Reason
<1>3. SeenAt("materialize") /\ QuietAt("materialize") /\ "materialize" \in Stage
  BY DEF SeenAt, QuietAt, Stage
<1>4. CASE mem = "intent-persisted" /\ Advance("archive-started", "materialize")
  <2>1. ~disturbed => DiskFits("archive-started")
    BY <1>1, <1>4 DEF IInv, Undisturbed, DiskFits, Settled
  <2> QED
    BY <1>1, <1>2, <1>3, <1>4, <2>1, AdvanceInv DEF Active
<1>5. CASE mem # "intent-persisted" /\ Look("materialize")
  BY <1>1, <1>2, <1>3, <1>5, LookInv
<1> QED
  BY <1>4, <1>5 DEF AuthorizeArchive

(* Creating the archive directory or one of its files, under archive-started. *)
LEMMA ArchiveStepInv ==
    ASSUME IInv, pc \in Archiving, pc' \in Archiving,
           archive' = "present", files' \in 0..Files,
           UNCHANGED <<milestoneVars, durable, reason, spaceVars, mem, request, faultVars>>
    PROVE  IInv'
<1> USE DEF milestoneVars, spaceVars, faultVars
<1>1. TypeOK'
  BY DEF IInv, TypeOK, Archive, Archiving, Stage
<1>2. Synchronised' /\ PolicyFits(durable)'
  BY DEF IInv, Synchronised, PolicyFits, Archiving
<1>3. StageFits(pc, durable)'
  BY DEF IInv, StageFits, Recovering, Removing, Archiving, DeletingStages
<1>4. Seen'
  BY DEF SeenAt, Seen, Archiving
<1>5. Undisturbed'
  BY DEF IInv, Undisturbed, DiskFits, QuietAt, Archiving, StageFits
<1> QED
  BY <1>1, <1>2, <1>3, <1>4, <1>5 DEF IInv

(* A process that wrote the archive, or failed to, goes on.                  *)
LEMMA ArchiveLookInv ==
    ASSUME IInv, pc \in Archiving, NEW stage \in {"checking", "authorize-deletion", "caught"},
           Look(stage), stage = "authorize-deletion" => ArchiveComplete
    PROVE  IInv'
<1>1. durable = "archive-started" /\ reason = Diagnosed /\ durable \in Active
  BY DEF IInv, StageFits, Active
<1>2. StageFits(stage, durable) /\ stage \in Stage
  BY <1>1 DEF StageFits, Recovering, Removing, Archiving, DeletingStages, Deleting, Preserving,
         Diagnosed, Reason, Stage
<1>3. SeenAt(stage) /\ QuietAt(stage)
  BY DEF SeenAt, QuietAt
<1> QED
  BY <1>2, <1>3, LookInv DEF Archiving

LEMMA MaterializeInv == ASSUME IInv, Materialize PROVE IInv'
<1>1. pc = "materialize" /\ pc \in Archiving
  BY DEF Materialize, Archiving
<1>2. CASE ArchiveComplete /\ Look("authorize-deletion")
  BY <1>1, <1>2, ArchiveLookInv
<1>3. CASE Look("caught")
  BY <1>1, <1>3, ArchiveLookInv
<1>4. CASE /\ archive' = "present" /\ Goto("writing")
           /\ UNCHANGED <<milestoneVars, durable, reason, spaceVars, files, mem, request, faultVars>>
  <2>1. files' \in 0..Files
    BY <1>4 DEF IInv, TypeOK
  <2> QED
    BY <1>1, <1>4, <2>1, ArchiveStepInv DEF Goto, Archiving
<1> QED
  BY <1>2, <1>3, <1>4, FailedCallInv DEF Materialize

LEMMA WriteFileInv == ASSUME IInv, WriteFile PROVE IInv'
<1>1. pc = "writing" /\ pc \in Archiving
  BY DEF WriteFile, Archiving
<1>2. CASE Look("checking") \/ Look("caught")
  BY <1>1, <1>2, ArchiveLookInv
<1>3. CASE /\ archive = "present" /\ files < Files
           /\ files' = files + 1 /\ UNCHANGED pc
           /\ UNCHANGED <<milestoneVars, durable, reason, spaceVars, archive, mem, request, faultVars>>
  <2>1. files' \in 0..Files
    BY <1>3, CleanupAssumption DEF IInv, TypeOK
  <2> QED
    BY <1>1, <1>3, <2>1, ArchiveStepInv
<1> QED
  BY <1>2, <1>3, FailedCallInv DEF WriteFile

(* The bound on faults.                                                      *)
LEMMA FaultBound == ASSUME IInv, Fault PROVE faults' \in 0..MaxFaults
<1>1. faults \in 0..MaxFaults
  BY DEF IInv, TypeOK
<1> QED
  BY <1>1, CleanupAssumption DEF Fault

(* A torn write or deletion leaves a disturbed disk and no running process   *)
(* that relies on it.                                                        *)
LEMMA TearInv == ASSUME IInv, TearFile \/ TearDelete PROVE IInv'
<1>1. /\ pc' \in {"down", "caught"} /\ disturbed' = TRUE
      /\ UNCHANGED <<config, outcome, forced, durable, reason, mem, request, raced>>
      /\ faults' \in 0..MaxFaults
  <2>1. faults' \in 0..MaxFaults
    BY FaultBound DEF TearFile, TearDelete
  <2> QED
    BY <2>1 DEF TearFile, TearDelete, milestoneVars
<1>2. workspace' \in Workspace /\ archive' \in Archive /\ files' \in 0..Files
  <2>1. CASE TearFile
    <3>1. workspace' = workspace /\ archive' = "conflict" /\ files' = 0
      BY <2>1 DEF TearFile, spaceVars
    <3> QED
      BY <3>1, CleanupAssumption DEF IInv, TypeOK, Archive
  <2>2. CASE TearDelete
    <3>1. /\ workspace' \in {workspace, "dirtied", "broken"}
          /\ UNCHANGED <<archive, files>>
      BY <2>2 DEF TearDelete, archiveVars
    <3> QED
      BY <3>1 DEF IInv, TypeOK, Workspace
  <2> QED
    BY <2>1, <2>2
<1>3. deps' \in BOOLEAN
  BY Zenon DEF TearFile, TearDelete, IInv, TypeOK, spaceVars
<1>4. TypeOK'
  BY <1>1, <1>2, <1>3 DEF IInv, TypeOK, Stage
<1> QED
  BY <1>1, <1>4 DEF IInv, Synchronised, PolicyFits, StageFits, Seen, SeenAt, Undisturbed,
         Recovering, Removing, Archiving, DeletingStages

LEMMA AuthorizeDeletionInv == ASSUME IInv, AuthorizeDeletion PROVE IInv'
<1>1. /\ pc = "authorize-deletion" /\ mem = durable /\ durable \in Active /\ reason \in Deleting
      /\ reason \in Reason
  BY DEF AuthorizeDeletion, IInv, Synchronised, StageFits, Recovering, DeletingStages, PolicyFits
<1>2. ~disturbed /\ reason = Diagnosed => ArchiveComplete
  BY <1>1 DEF IInv, Undisturbed, QuietAt
<1>3. /\ StageFits("check-deletion", "workspace-delete-started")
      /\ StageFits("authorize-deletion", "archive-ready")
      /\ PolicyFits("workspace-delete-started")
  BY <1>1 DEF StageFits, PolicyFits, Recovering, Removing, Archiving, DeletingStages, Active
<1>4. /\ SeenAt("check-deletion") /\ SeenAt("authorize-deletion") /\ QuietAt("check-deletion")
      /\ {"check-deletion", "authorize-deletion"} \subseteq Stage
  BY DEF SeenAt, QuietAt, Stage
<1>5. CASE /\ mem \in {"intent-persisted", "archive-ready"}
           /\ Advance("workspace-delete-started", "check-deletion")
  <2>1. ~disturbed => DiskFits("workspace-delete-started")
    BY <1>1, <1>2, <1>5 DEF IInv, Undisturbed, DiskFits
  <2> QED
    BY <1>1, <1>3, <1>4, <1>5, <2>1, AdvanceInv DEF Active
<1>6. CASE mem = "archive-started" /\ Advance("archive-ready", "authorize-deletion")
  <2>1. PolicyFits("archive-ready") /\ reason = Diagnosed
    BY <1>1, <1>6 DEF IInv, PolicyFits, Active
  <2>2. ~disturbed => DiskFits("archive-ready") /\ QuietAt("authorize-deletion")
    BY <1>1, <1>2, <1>6, <2>1 DEF IInv, Undisturbed, DiskFits, QuietAt, Settled
  <2> QED
    BY <1>1, <1>3, <1>4, <1>6, <2>1, <2>2, AdvanceInv DEF Active
<1>7. CASE mem = "workspace-delete-started" /\ Look("check-deletion")
  BY <1>1, <1>3, <1>4, <1>7, LookInv
<1> QED
  BY <1>5, <1>6, <1>7 DEF AuthorizeDeletion

LEMMA DeleteInv == ASSUME IInv, Delete PROVE IInv'
<1>1. /\ pc = "delete" /\ mem = durable /\ durable = "workspace-delete-started" /\ durable \in Active
      /\ reason \in Deleting
  BY DEF Delete, IInv, Synchronised, StageFits, DeletingStages, Active
<1>2. CASE /\ workspace' = "missing" /\ deps' = FALSE /\ Goto("deleted")
           /\ UNCHANGED <<milestoneVars, durable, reason, archiveVars, mem, request, faultVars>>
  <2> USE DEF Goto, milestoneVars, archiveVars, faultVars
  <2>1. TypeOK'
    <3>1. deps' \in BOOLEAN
      BY <1>2
    <3> QED
      BY <1>2, <3>1 DEF IInv, TypeOK, Stage, Workspace
  <2>2. Synchronised' /\ PolicyFits(durable)' /\ StageFits(pc, durable)'
    BY <1>1, <1>2 DEF IInv, Synchronised, PolicyFits, StageFits, Recovering, Removing, Archiving,
           DeletingStages
  <2>3. Seen'
    BY <1>1, <1>2 DEF IInv, Seen, SeenAt, ArchiveComplete
  <2>4. Undisturbed'
    BY <1>1, <1>2 DEF IInv, Undisturbed, DiskFits, QuietAt, ArchiveComplete
  <2> QED
    BY <2>1, <2>2, <2>3, <2>4 DEF IInv
<1> QED
  BY <1>2, FailedCallInv DEF Delete

LEMMA CatchInv == ASSUME IInv, Catch PROVE IInv'
<1>1. /\ pc' = "down" /\ durable' \in {durable, "blocked"} /\ faults' \in 0..MaxFaults
      /\ UNCHANGED <<config, outcome, forced, reason, workspace, deps, archive, files, mem, request,
                     disturbed, raced>>
      /\ durable' # durable => durable \in Active /\ mem = durable /\ Classify(mem) = "blocked"
  BY CleanupAssumption DEF Catch, Goto, Fault, IInv, TypeOK, milestoneVars, spaceVars, archiveVars
<1>2. durable' # durable => disturbed
  BY <1>1, UndisturbedNotBlocked DEF IInv, TypeOK
<1>3. TypeOK'
  BY <1>1 DEF IInv, TypeOK, Phase, Settled, Stage
<1>4. Synchronised' /\ PolicyFits(durable)' /\ StageFits(pc, durable)'
  BY <1>1 DEF IInv, Synchronised, PolicyFits, StageFits, Recovering, Removing, Archiving,
         DeletingStages
<1>5. Seen' /\ Undisturbed'
  BY <1>1, <1>2 DEF IInv, Seen, SeenAt, Undisturbed, DiskFits, QuietAt, ArchiveComplete
<1> QED
  BY <1>3, <1>4, <1>5 DEF IInv

(* An outsider who acts while a process runs makes it a raced one.           *)
LEMMA DriftInv == ASSUME IInv, Drift PROVE IInv'
<1>1. /\ disturbed' = TRUE /\ faults' \in 0..MaxFaults /\ (~raced' => pc = "down")
      /\ UNCHANGED <<config, outcome, forced, durable, reason, pc, mem, request>>
  <2>1. faults' \in 0..MaxFaults
    BY FaultBound DEF Drift
  <2>2. ~raced' => pc = "down"
    BY Zenon DEF Drift
  <2> QED
    BY <2>1, <2>2 DEF Drift, milestoneVars
<1>2. workspace' \in Workspace /\ archive' \in Archive /\ files' \in 0..Files
  BY CleanupAssumption DEF Drift, IInv, TypeOK, spaceVars, archiveVars
<1>3. deps' \in BOOLEAN /\ raced' \in BOOLEAN
  BY Zenon DEF Drift, IInv, TypeOK, spaceVars
<1>4. TypeOK'
  BY <1>1, <1>2, <1>3 DEF IInv, TypeOK
<1>5. Seen'
  BY <1>1 DEF Seen, SeenAt
<1> QED
  BY <1>1, <1>4, <1>5 DEF IInv, Synchronised, PolicyFits, StageFits, Undisturbed

(* Every step keeps the invariant.                                           *)
LEMMA NextInv == IInv /\ [Next]_vars => IInv'
<1> SUFFICES ASSUME IInv, [Next]_vars PROVE IInv'
  OBVIOUS
<1> USE CleanupAssumption
<1> DEFINE Facts == /\ pc \notin {"down", "caught"} => mem = durable
                    /\ durable \in Phase /\ mem \in Phase /\ pc \in Stage
                    /\ StageFits(pc, durable)
                    /\ PolicyFits(durable)
<1>0. Facts
  BY DEF IInv, TypeOK, Synchronised, PolicyFits
<1> DEFINE Stages == /\ \A s \in Recovering : s \notin {"down", "caught"}
                     /\ \A s \in Recovering \cup {"caught", "down", "plan"} : s \in Stage
<1>00. Stages
  BY DEF Recovering, Removing, Archiving, DeletingStages, Stage
<1> HIDE DEF Stages
<1>1. CASE CompleteMilestone \/ \E p \in BOOLEAN : Escalate(p)
  <2>1. PICK how \in {"completed", "escalated"}, preserve \in BOOLEAN, stage \in {"plan", "report"} :
            EndMilestone(how, preserve, stage)
    BY <1>1 DEF CompleteMilestone, Escalate
  <2>2. /\ pc = "running" /\ durable = "active" /\ durable' \in {"active", "terminal"}
        /\ \/ pc' = stage /\ durable' = "terminal" /\ mem' = "terminal"
           \/ pc' = "caught" /\ mem' = mem
        /\ UNCHANGED <<config, reason, workspace, deps, archive, files, disturbed, raced>>
        /\ faults' \in 0..MaxFaults
    BY <1>0, <2>1 DEF EndMilestone, Persist, Goto, Fault, StageFits, spaceVars, archiveVars, IInv, TypeOK
  <2>3. outcome' \in {"none", "completed", "escalated"} /\ forced' \in BOOLEAN
    BY <2>1 DEF EndMilestone, IInv, TypeOK
  <2>4. request' \in {"none", "failed-preserve-workspace"}
    BY <2>1 DEF EndMilestone
  <2>5. TypeOK'
    BY <1>0, <2>2, <2>3, <2>4 DEF IInv, TypeOK, Phase, Stage
  <2>6. Synchronised' /\ PolicyFits(durable)' /\ StageFits(pc, durable)'
    BY <1>0, <2>2 DEF Synchronised, PolicyFits, StageFits, Active, Settled, Recovering, Removing,
           Archiving, DeletingStages
  <2>7. Seen' /\ Undisturbed'
    BY <2>2 DEF IInv, Seen, SeenAt, Undisturbed, DiskFits, QuietAt, ArchiveComplete, Settled
  <2> QED
    BY <2>5, <2>6, <2>7 DEF IInv
<1>2. CASE WriteReport
  BY <1>0, <1>2, LookInv, FailedCallInv
     DEF WriteReport, Stage, StageFits, SeenAt, QuietAt, Recovering, Removing, Archiving, DeletingStages
<1>3. CASE Restart
  <2>1. /\ durable \notin Settled /\ mem' = durable /\ request' = "none" /\ raced' = FALSE
        /\ UNCHANGED <<config, outcome, forced, durable, reason, workspace, deps, archive, files, faults, disturbed>>
        /\ pc' = CASE durable = "active" -> "running"
                   [] durable = "terminal" -> "plan"
                   [] OTHER -> "inspect"
    BY <1>3 DEF Restart, Goto, milestoneVars, spaceVars, archiveVars
  <2>2. TypeOK'
    BY <2>1 DEF IInv, TypeOK, Stage
  <2>3. Synchronised' /\ PolicyFits(durable)' /\ StageFits(pc, durable)'
    BY <1>0, <2>1 DEF Synchronised, PolicyFits, StageFits, Phase, Recovering, Removing,
           Archiving, DeletingStages
  <2>4. Seen' /\ Undisturbed'
    BY <2>1 DEF IInv, Seen, SeenAt, Undisturbed, DiskFits, QuietAt, ArchiveComplete
  <2> QED
    BY <2>2, <2>3, <2>4 DEF IInv
<1>4. CASE Plan
  <2> DEFINE chosen == IF request # "none" THEN request ELSE Policy
  <2>1. CASE workspace \notin Plannable(chosen) /\ Look("down")
    BY <1>00, <1>4, <2>1, LookInv
       DEF Plan, Stages, StageFits, SeenAt, QuietAt, Recovering, Removing, Archiving, DeletingStages
  <2>2. CASE FailedCall
    BY <2>2, FailedCallInv
  <2>3. CASE /\ workspace \in Plannable(chosen)
             /\ Persist("intent-persisted", "inspect")
             /\ IF durable' = durable THEN UNCHANGED <<reason, workspace>>
                ELSE reason' = chosen /\ workspace' = "exact"
             /\ UNCHANGED <<milestoneVars, deps, archiveVars, request, disturbed, raced>>
    <3>1. pc = "plan" /\ durable = "terminal" /\ mem = "terminal"
      BY <1>0, <1>4 DEF Plan, StageFits
    <3>2. chosen \in Reason
      BY DEF IInv, TypeOK, Policy, Reason
    <3> HIDE DEF chosen
    <3>3. /\ \/ /\ pc' = "inspect" /\ durable' = "intent-persisted" /\ mem' = "intent-persisted"
                /\ reason' = chosen /\ workspace' = "exact"
             \/ /\ pc' = "caught" /\ durable' = "intent-persisted" /\ mem' = "terminal"
                /\ reason' = chosen /\ workspace' = "exact"
             \/ /\ pc' = "caught" /\ UNCHANGED <<durable, mem, reason, workspace>>
          /\ UNCHANGED <<config, outcome, forced, deps, archive, files, request, disturbed, raced>>
          /\ faults' \in 0..MaxFaults
      BY <2>3, <3>1 DEF Persist, Goto, Fault, milestoneVars, archiveVars, IInv, TypeOK
    <3>4. TypeOK'
      BY <3>1, <3>2, <3>3 DEF IInv, TypeOK, Phase, Stage, Active, Workspace
    <3>5. Synchronised' /\ PolicyFits(durable)' /\ StageFits(pc, durable)'
      BY <1>0, <3>1, <3>2, <3>3 DEF Synchronised, PolicyFits, StageFits, Active, Settled, Recovering,
             Removing, Archiving, DeletingStages
    <3>6. Seen' /\ Undisturbed'
      BY <3>1, <3>3 DEF IInv, Seen, SeenAt, Undisturbed, DiskFits, QuietAt, ArchiveComplete
    <3> QED
      BY <3>4, <3>5, <3>6 DEF IInv
  <2> QED
    BY <1>4, <2>1, <2>2, <2>3 DEF Plan
<1>5. CASE Inspect
  <2>1. pc = "inspect" /\ mem = durable /\ durable \in Active /\ reason \in Reason
    BY <1>0, <1>5 DEF Inspect, StageFits, Recovering, PolicyFits
  <2>2. ~disturbed => Classify(mem) # "blocked"
    BY <2>1, UndisturbedNotBlocked
  <2>3. PICK stage \in Stage : /\ Look(stage)
           /\ \/ stage = "authorize-removal" /\ Classify(mem) = "workspace-ready" /\ reason \in Preserving
              \/ stage = "authorize-deletion" /\ Classify(mem) = "workspace-ready" /\ reason \notin Preserving
              \/ stage = "adopt-removal" /\ Classify(mem) = "dependencies-removed"
              \/ stage = "authorize-archive" /\ Classify(mem) = "archive-incomplete"
              \/ stage = "authorize-deletion" /\ Classify(mem) = "archive-ready"
              \/ stage = "deleted" /\ Classify(mem) = "workspace-deleted"
              \/ stage = "blocking" /\ Classify(mem) = "blocked"
    BY <1>00, <1>5, <2>1, ClassifyFacts DEF Inspect, Stage
  <2>4. StageFits(stage, durable)
    BY <2>1, <2>3, ClassifyFacts DEF StageFits, Recovering, Removing, Archiving, DeletingStages,
       Deleting, Preserving, Diagnosed, Reason
  <2>5. (~raced => SeenAt(stage)) /\ (~disturbed => QuietAt(stage))
    BY <2>1, <2>2, <2>3, ClassifyFacts DEF SeenAt, QuietAt
  <2> QED
    BY <2>1, <2>3, <2>4, <2>5, LookInv
<1>6. CASE AuthorizeRemoval
  <2>1. /\ pc = "authorize-removal" /\ mem = durable /\ durable \in Active /\ reason \in Preserving
        /\ durable \in {"intent-persisted", "dependency-removal-started"}
    BY <1>0, <1>6 DEF AuthorizeRemoval, StageFits, Recovering, Removing
  <2>2. /\ StageFits("remove", "dependency-removal-started")
        /\ durable # "intent-persisted" => StageFits("remove", durable)
        /\ PolicyFits("dependency-removal-started")
    BY <2>1 DEF StageFits, PolicyFits, Preserving, Reason, Recovering, Removing, Archiving, DeletingStages, Active
  <2>3. SeenAt("remove") /\ QuietAt("remove") /\ "remove" \in Stage
    BY DEF SeenAt, QuietAt, Stage
  <2>4. CASE mem = "intent-persisted" /\ Advance("dependency-removal-started", "remove")
    <3>1. ~disturbed => DiskFits("dependency-removal-started")
      BY <2>1, <2>4 DEF IInv, Undisturbed, DiskFits, Settled
    <3> QED
      BY <2>1, <2>2, <2>3, <2>4, <3>1, AdvanceInv DEF Active
  <2> QED
    BY <1>6, <2>1, <2>2, <2>3, <2>4, LookInv DEF AuthorizeRemoval
<1>7. CASE Remove
  <2>1. pc = "remove" /\ mem = durable /\ durable \in Active /\ reason \in Preserving
    BY <1>0, <1>7 DEF Remove, StageFits, Recovering, Removing
  <2>2. CASE workspace \notin Ready /\ Look("caught")
    BY <1>00, <2>1, <2>2, LookInv
       DEF Stages, StageFits, SeenAt, QuietAt, Recovering, Removing, Archiving, DeletingStages
  <2>3. CASE /\ workspace \in Ready
             /\ deps' = FALSE /\ Goto("adopt-removal")
             /\ UNCHANGED <<milestoneVars, durable, reason, workspace, archiveVars, mem, request, faultVars>>
    <3> USE DEF Goto, milestoneVars, archiveVars, faultVars
    <3>1. TypeOK'
      <4>1. deps' \in BOOLEAN
        BY <2>3
      <4> QED
        BY <2>3, <4>1 DEF IInv, TypeOK, Stage
    <3>2. Synchronised' /\ PolicyFits(durable)' /\ StageFits(pc, durable)'
      BY <1>0, <2>1, <2>3 DEF Synchronised, PolicyFits, StageFits, Recovering, Removing, Archiving,
             DeletingStages
    <3>3. Seen' /\ Undisturbed'
      BY <2>1, <2>3 DEF IInv, Seen, SeenAt, Undisturbed, DiskFits, QuietAt, ArchiveComplete
    <3> QED
      BY <3>1, <3>2, <3>3 DEF IInv
  <2> QED
    BY <1>7, <2>2, <2>3, FailedCallInv DEF Remove
<1>8. CASE AdoptRemoval
  <2>1. /\ pc = "adopt-removal" /\ mem = durable /\ durable \in Active /\ reason \in Preserving
        /\ ~raced => workspace \in Ready /\ ~deps
    BY <1>0, <1>8 DEF AdoptRemoval, StageFits, Recovering, Removing, IInv, Seen, SeenAt
  <2>2. /\ StageFits("adopt-removal", "dependency-removal-started")
        /\ StageFits("complete", "dependencies-removed")
        /\ PolicyFits("dependency-removal-started") /\ PolicyFits("dependencies-removed")
    BY <2>1 DEF StageFits, PolicyFits, Preserving, Reason, Recovering, Removing, Archiving, DeletingStages, Active
  <2>3. ~raced => SeenAt("adopt-removal") /\ SeenAt("complete")
    BY <2>1 DEF SeenAt, Preserving, Deleting, Diagnosed
  <2>4. QuietAt("adopt-removal") /\ QuietAt("complete") /\ {"adopt-removal", "complete"} \subseteq Stage
    BY DEF QuietAt, Stage
  <2>5. ~disturbed /\ mem = "intent-persisted" => DiskFits("dependency-removal-started")
    BY <2>1 DEF IInv, Undisturbed, DiskFits, Settled
  <2>6. ~disturbed /\ mem = "dependency-removal-started" => DiskFits("dependencies-removed")
    BY <2>1 DEF IInv, Undisturbed, DiskFits, Settled
  <2>7. CASE mem = "intent-persisted" /\ Advance("dependency-removal-started", "adopt-removal")
    BY <2>1, <2>2, <2>3, <2>4, <2>5, <2>7, AdvanceInv DEF Active
  <2>8. CASE mem = "dependency-removal-started" /\ Advance("dependencies-removed", "complete")
    BY <2>1, <2>2, <2>3, <2>4, <2>6, <2>8, AdvanceInv DEF Active
  <2> QED
    BY <1>8, <2>1, <2>2, <2>3, <2>4, <2>7, <2>8, LookInv DEF AdoptRemoval
<1>9. CASE AuthorizeArchive
  BY <1>9, AuthorizeArchiveInv
<1>10. CASE Materialize
  BY <1>10, MaterializeInv
<1>11. CASE WriteFile
  BY <1>11, WriteFileInv
<1>12. CASE TearFile \/ TearDelete
  BY <1>12, TearInv
<1>13. CASE CheckArchive
  BY <1>13, ArchiveLookInv DEF CheckArchive, Archiving
<1>14. CASE AuthorizeDeletion
  BY <1>14, AuthorizeDeletionInv
<1>15. CASE CheckDeletion
  <2>1. /\ pc = "check-deletion" /\ durable = "workspace-delete-started" /\ mem = durable
        /\ reason \in Deleting /\ durable \in Active
    BY <1>0, <1>15 DEF CheckDeletion, StageFits, DeletingStages, Active
  <2>2. PICK stage \in {"delete", "deleted", "caught"} :
           /\ Look(stage)
           /\ stage = "delete" => Classify(mem) \in {"workspace-ready", "archive-ready"}
           /\ stage = "deleted" => Classify(mem) = "workspace-deleted"
    BY <1>15 DEF CheckDeletion
  <2>3. SeenAt(stage) /\ QuietAt(stage)
    BY <2>1, <2>2, ClassifyFacts DEF SeenAt, QuietAt, Ready
  <2>4. StageFits(stage, durable) /\ stage \in Stage
    BY <2>1, <2>2 DEF StageFits, Recovering, Removing, Archiving, DeletingStages, Stage
  <2> QED
    BY <2>1, <2>2, <2>3, <2>4, LookInv
<1>16. CASE Delete
  BY <1>16, DeleteInv
<1>17. CASE Deleted
  <2>1. /\ pc = "deleted" /\ mem = durable /\ durable \in Active /\ reason \in Deleting
        /\ ~raced => workspace = "missing" /\ (reason = Diagnosed => ArchiveComplete)
    BY <1>0, <1>17 DEF Deleted, StageFits, Recovering, DeletingStages, IInv, Seen, SeenAt
  <2>2. StageFits("complete", "workspace-deleted") /\ PolicyFits("workspace-deleted")
    BY <2>1 DEF StageFits, PolicyFits, Preserving, Reason, Recovering, Removing, Archiving, DeletingStages, Active, Deleting
  <2>3. ~raced => SeenAt("complete")
    BY <2>1 DEF SeenAt, Preserving, Deleting, Diagnosed
  <2>4. QuietAt("complete") /\ "complete" \in Stage
    BY DEF QuietAt, Stage
  <2>5. ~disturbed /\ mem = "workspace-delete-started" => DiskFits("workspace-deleted")
    BY <2>1 DEF IInv, Undisturbed, DiskFits, Settled
  <2>6. CASE mem = "workspace-delete-started" /\ Advance("workspace-deleted", "complete")
    BY <2>1, <2>2, <2>3, <2>4, <2>5, <2>6, AdvanceInv DEF Active
  <2> QED
    BY <1>17, <2>1, <2>2, <2>3, <2>4, <2>6, LookInv DEF Deleted
<1>18. CASE Complete
  <2>1. pc = "complete" /\ mem = durable /\ durable \in Active
    BY <1>0, <1>18 DEF Complete, StageFits, Recovering
  <2>2. /\ StageFits("down", "completed") /\ SeenAt("down") /\ QuietAt("down") /\ "down" \in Stage
        /\ PolicyFits("completed")
    BY <1>0, <2>1 DEF PolicyFits, StageFits, SeenAt, QuietAt, Stage, Recovering, Removing, Archiving, DeletingStages
  <2>3. ~disturbed => DiskFits("completed")
    BY <2>1 DEF IInv, Undisturbed, DiskFits, Settled
  <2> QED
    BY <1>18, <2>1, <2>2, <2>3, AdvanceInv DEF Complete, Settled
<1>19. CASE Block
  <2>1. pc = "blocking" /\ mem = durable /\ durable \in Active
    BY <1>0, <1>19 DEF Block, StageFits, Recovering
  <2>2. StageFits("down", "blocked") /\ SeenAt("down") /\ "down" \in Stage /\ PolicyFits("blocked")
    BY <1>0, <2>1 DEF PolicyFits, StageFits, SeenAt, Stage, Recovering, Removing, Archiving, DeletingStages
  <2>3. disturbed
    BY <2>1 DEF IInv, TypeOK, Undisturbed, QuietAt
  <2> QED
    BY <1>19, <2>1, <2>2, <2>3, AdvanceInv DEF Block, Settled
<1>20. CASE Catch
  BY <1>20, CatchInv
<1>21. CASE Crash
  <2>1. /\ pc' = "down" /\ faults' \in 0..MaxFaults
        /\ UNCHANGED <<config, outcome, forced, durable, reason, workspace, deps, archive, files, mem,
                       request, disturbed, raced>>
    BY <1>21 DEF Crash, Fault, Goto, IInv, TypeOK, milestoneVars, spaceVars, archiveVars
  <2>2. TypeOK' /\ Synchronised' /\ PolicyFits(durable)' /\ StageFits(pc, durable)'
    BY <2>1 DEF IInv, TypeOK, Synchronised, PolicyFits, StageFits, Stage, Recovering, Removing,
           Archiving, DeletingStages
  <2>3. Seen' /\ Undisturbed'
    BY <2>1 DEF IInv, Seen, SeenAt, Undisturbed, DiskFits, QuietAt, ArchiveComplete
  <2> QED
    BY <2>2, <2>3 DEF IInv
<1>22. CASE Drift
  BY <1>22, DriftInv
<1>23. CASE UNCHANGED vars
  <2>1. UNCHANGED <<config, outcome, forced, durable, reason, workspace, deps, archive, files, pc, mem,
                    request, faults, disturbed, raced>>
    BY <1>23 DEF vars, milestoneVars, spaceVars, archiveVars, faultVars
  <2> QED
    BY <2>1 DEF IInv, TypeOK, Synchronised, PolicyFits, StageFits, Seen, SeenAt, Undisturbed,
       DiskFits, QuietAt, ArchiveComplete
<1> QED
  BY <1>1, <1>2, <1>3, <1>4, <1>5, <1>6, <1>7, <1>8, <1>9, <1>10, <1>11, <1>12, <1>13,
     <1>14, <1>15, <1>16, <1>17, <1>18, <1>19, <1>20, <1>21, <1>22, <1>23
     DEF Next, Controller

(* The inductive invariant holds in every reachable state.                   *)
THEOREM Invariance == Spec => []IInv
  BY InitInv, NextInv, PTL DEF Spec

(* Every variable has its type, whoever crashes and whatever others change.  *)
THEOREM TypeCorrectness == Spec => []TypeOK
<1>1. IInv => TypeOK
  BY DEF IInv
<1> QED
  BY <1>1, Invariance, PTL

(* Clean crashes and failing calls never leave a cleanup that recovery must  *)
(* block: every phase is published before its effect can be seen.            *)
THEOREM CrashAloneNeverBlocksHolds == Spec => []CrashAloneNeverBlocks
<1>1. IInv => CrashAloneNeverBlocks
  BY DEF IInv, TypeOK, Undisturbed, DiskFits, CrashAloneNeverBlocks
<1> QED
  BY <1>1, Invariance, PTL

(* Which steps can change the workspace, and where they are taken.           *)
LEMMA SpaceSteps ==
    ASSUME IInv, [Next]_vars, ~Drift
    PROVE  \/ UNCHANGED <<workspace, deps>>
           \/ Plan /\ UNCHANGED deps /\ (UNCHANGED workspace \/ durable' # durable)
           \/ Remove /\ UNCHANGED workspace
           \/ pc = "delete"
  BY DEF Next, Controller, vars, spaceVars, EndMilestone, CompleteMilestone, Escalate, WriteReport,
         Look, FailedCall, Restart, Plan, Inspect, AuthorizeRemoval, Advance, Remove, AdoptRemoval,
         AuthorizeArchive, Materialize, WriteFile, TearFile, CheckArchive, AuthorizeDeletion,
         CheckDeletion, Delete, TearDelete, Deleted, Complete, Block, Catch, Crash

(* Whoever interferes, the controller destroys a workspace only under a      *)
(* published workspace-delete-started of a policy that deletes, and nothing  *)
(* once it has blocked.                                                      *)
THEOREM DeletionAuthorisedHolds == Spec => DeletionAuthorised
<1>1. IInv /\ [Next]_vars => [RemovalIntended]_vars
  <2> SUFFICES ASSUME IInv, [Next]_vars, ~Drift, workspace \in Ready, workspace' \notin Ready
               PROVE  durable = "workspace-delete-started" /\ reason \in Deleting
    BY DEF RemovalIntended
  <2>1. CASE pc = "delete"
    BY <2>1 DEF IInv, StageFits, DeletingStages
  <2>2. CASE Plan
    <3>1. workspace' \in {workspace, "exact"}
      BY <2>2 DEF Plan, Look, FailedCall, spaceVars
    <3> QED
      BY <3>1 DEF Ready
  <2> QED
    BY <2>1, <2>2, SpaceSteps
<1>2. IInv /\ [Next]_vars => [BlockStands]_vars
  <2> SUFFICES ASSUME IInv, durable = "blocked", Controller
               PROVE  UNCHANGED <<durable, reason, spaceVars, archiveVars>>
    BY DEF BlockStands
  <2>1. pc \in {"down", "caught"}
    BY DEF IInv, TypeOK, StageFits, Stage, Recovering, Removing, Archiving, DeletingStages, Active
  <2>2. Catch
    BY <2>1 DEF Controller, EndMilestone, CompleteMilestone, Escalate, WriteReport, Restart, Plan,
       Inspect, AuthorizeRemoval, Remove, AdoptRemoval, AuthorizeArchive, Materialize, WriteFile,
       CheckArchive, AuthorizeDeletion, CheckDeletion, Delete, Deleted, Complete, Block, Settled
  <2> QED
    BY <2>2 DEF Catch, spaceVars, archiveVars
<1> QED
  BY <1>1, <1>2, Invariance, PTL DEF Spec, DeletionAuthorised

(* A failed workspace that is to be deleted is touched only with a complete  *)
(* archive that describes it, unless outsiders race that very process.       *)
THEOREM DiagnosticsFirstHolds == Spec => DiagnosticsFirst
<1>1. IInv /\ [Next]_vars =>
        [ ~raced /\ reason = Diagnosed /\ ~Drift /\ UNCHANGED reason
          /\ (workspace' # workspace \/ deps' # deps) =>
            ArchiveComplete /\ workspace = "exact" ]_vars
  <2> SUFFICES ASSUME IInv, [Next]_vars, ~raced, reason = Diagnosed, ~Drift, reason' = reason,
                      workspace' # workspace \/ deps' # deps
               PROVE  ArchiveComplete /\ workspace = "exact"
    OBVIOUS
  <2>1. CASE pc = "delete"
    BY <2>1 DEF IInv, Seen, SeenAt
  <2>2. CASE Remove
    BY <2>2 DEF Remove, IInv, StageFits, Removing, Preserving, Diagnosed
  <2>3. CASE Plan /\ durable' # durable
    <3>1. pc = "plan" /\ durable = "terminal"
      BY <2>3 DEF Plan, IInv, StageFits
    <3> QED
      BY <2>3, <3>1 DEF IInv, PolicyFits, Diagnosed
  <2> QED
    BY <2>1, <2>2, <2>3, SpaceSteps
<1> QED
  BY <1>1, Invariance, PTL DEF Spec, DiagnosticsFirst

(* Only Complete publishes a completed cleanup.                              *)
LEMMA CompletionSteps ==
    ASSUME IInv, [Next]_vars, durable' = "completed", durable # "completed"
    PROVE  Complete
  BY DEF Next, Controller, vars, EndMilestone, CompleteMilestone, Escalate, WriteReport, Look,
         FailedCall, Restart, Plan, Inspect, AuthorizeRemoval, Advance, Persist, Remove, AdoptRemoval,
         AuthorizeArchive, Materialize, WriteFile, TearFile, CheckArchive, AuthorizeDeletion,
         CheckDeletion, Delete, TearDelete, Deleted, Block, Catch, Crash, Drift

(* A published completion is true: the workspace is there without            *)
(* dependencies, or gone and archived, unless outsiders raced the process.   *)
THEOREM CompletionIsTrueHolds == Spec => CompletionIsTrue
<1>1. IInv /\ [Next]_vars =>
        [ ~raced /\ durable' = "completed" /\ durable # "completed" =>
            /\ reason \in Preserving => workspace \in Ready /\ ~deps
            /\ reason \in Deleting => workspace = "missing"
            /\ reason = Diagnosed => ArchiveComplete ]_vars
  <2> SUFFICES ASSUME IInv, [Next]_vars, ~raced, durable' = "completed", durable # "completed"
               PROVE  /\ reason \in Preserving => workspace \in Ready /\ ~deps
                      /\ reason \in Deleting => workspace = "missing"
                      /\ reason = Diagnosed => ArchiveComplete
    OBVIOUS
  <2>1. pc = "complete"
    BY CompletionSteps DEF Complete
  <2> QED
    BY <2>1 DEF IInv, Seen, SeenAt
<1> QED
  BY <1>1, Invariance, PTL DEF Spec, CompletionIsTrue

------------------------------------------------------------------------------
(* The promise of a recoverable operation.                                   *)

PromiseStep == Promise!Next \/ UNCHANGED <<Status, Removed, faults, raced>>

(* A step that publishes nothing is a disturbance, unless it removes         *)
(* something without a fault.                                                *)
LEMMA NothingPublished ==
    ASSUME TypeOK', Status' = Status, raced' \in {raced, TRUE},
           faults' = faults + 1 \/ UNCHANGED <<faults, Removed>>
    PROVE  PromiseStep
<1>1. Removed' \in BOOLEAN
  BY DEF TypeOK, Removed
<1>2. Promise!Disturb
  BY <1>1 DEF Promise!Disturb
<1> QED BY <1>2 DEF PromiseStep, Promise!Next

(* A step that only looks, or fails, keeps the promise.                      *)
LEMMA LooksAround ==
    ASSUME TypeOK', NEW stage, Look(stage) \/ FailedCall
    PROVE  PromiseStep
<1>1. /\ UNCHANGED <<durable, reason, workspace, deps, raced>>
      /\ faults' = faults + 1 \/ UNCHANGED faults
  BY DEF Look, FailedCall, Fault, spaceVars, faultVars
<1>2. Status' = Status /\ Removed' = Removed
  BY <1>1 DEF Status, Removed
<1> QED BY <1>1, <1>2, NothingPublished

(* What is published of an operation is published in order.                  *)
LEMMA PublishedInOrder ==
    ASSUME IInv, TypeOK', NEW phase \in Phase, NEW stage, Advance(phase, stage),
           \/ durable = "intent-persisted" /\ phase = "dependency-removal-started"
           \/ durable = "intent-persisted" /\ phase = "archive-started"
           \/ durable = "archive-started" /\ phase = "archive-ready"
           \/ durable \in {"intent-persisted", "archive-ready"}
                 /\ phase = "workspace-delete-started"
           \/ durable = "dependency-removal-started" /\ phase = "dependencies-removed"
                 /\ (Removed \/ raced)
           \/ durable = "workspace-delete-started" /\ phase = "workspace-deleted"
                 /\ (Removed \/ raced)
           \/ durable \in {"dependencies-removed", "workspace-deleted"} /\ phase = "completed"
                 /\ (Removed \/ raced)
           \/ durable \in Active /\ phase = "blocked"
    PROVE  PromiseStep
<1>1. /\ durable' \in {durable, phase} /\ faults' \in {faults, faults + 1}
      /\ UNCHANGED <<reason, workspace, deps, raced>>
  BY DEF Advance, Persist, Fault, spaceVars
<1>2. Removed' = Removed
  BY <1>1 DEF Removed
<1>3. CASE durable' = durable
  <2>1. Status' = Status
    BY <1>3 DEF Status
  <2> QED BY <1>1, <1>2, <2>1, NothingPublished
<1>4. CASE durable' = phase
  <2> USE DEF PromiseStep, Promise!Next, Promise!Publish
  <2>1. CASE \/ durable = "intent-persisted" /\ phase = "dependency-removal-started"
             \/ durable \in {"intent-persisted", "archive-ready"}
                   /\ phase = "workspace-delete-started"
    <3>1. Status = "intended" /\ Status' = "started"
      BY <1>4, <2>1 DEF Status
    <3> QED BY <1>1, <1>2, <3>1 DEF Promise!Start
  <2>2. CASE \/ durable = "intent-persisted" /\ phase = "archive-started"
             \/ durable = "archive-started" /\ phase = "archive-ready"
    <3>1. Status' = Status
      BY <1>4, <2>2 DEF Status
    <3> QED BY <1>1, <1>2, <3>1, NothingPublished
  <2>3. CASE /\ \/ durable = "dependency-removal-started" /\ phase = "dependencies-removed"
                \/ durable = "workspace-delete-started" /\ phase = "workspace-deleted"
             /\ Removed \/ raced
    <3>1. Status = "started" /\ Status' = "done"
      BY <1>4, <2>3 DEF Status
    <3> QED BY <1>1, <1>2, <2>3, <3>1 DEF Promise!Record
  <2>4. CASE /\ durable \in {"dependencies-removed", "workspace-deleted"} /\ phase = "completed"
             /\ Removed \/ raced
    <3>1. Status = "done" /\ Status' = "completed"
      BY <1>4, <2>4 DEF Status
    <3> QED BY <1>1, <1>2, <2>4, <3>1 DEF Promise!Complete
  <2>5. CASE durable \in Active /\ phase = "blocked"
    <3>1. Status \in {"intended", "started", "done"} /\ Status' = "blocked"
      BY <1>4, <2>5 DEF Status, Active
    <3> QED BY <1>1, <1>2, <3>1 DEF Promise!Block
  <2> QED BY <2>1, <2>2, <2>3, <2>4, <2>5
<1> QED BY <1>1, <1>3, <1>4

(* What an operation is about is known with its intent.                      *)
LEMMA Intended ==
    ASSUME IInv, TypeOK', Plan
    PROVE  PromiseStep
<1>1. durable = "terminal" /\ mem = durable
  BY DEF Plan, IInv, StageFits, Synchronised
<1>2. CASE \E stage : Look(stage) \/ FailedCall
  BY <1>2, LooksAround
<1>3. CASE durable' = durable /\ UNCHANGED <<reason, workspace, deps, raced>>
           /\ faults' \in {faults, faults + 1}
  <2>1. Status' = Status /\ Removed' = Removed
    BY <1>3 DEF Status, Removed
  <2> QED BY <1>3, <2>1, NothingPublished
<1>4. CASE durable' = "intent-persisted" /\ faults' \in {faults, faults + 1} /\ UNCHANGED raced
  <2>1. Status = "none" /\ Status' = "intended"
    BY <1>1, <1>4 DEF Status
  <2>2. Removed' \in BOOLEAN
    BY DEF TypeOK, Removed
  <2> QED BY <1>4, <2>1, <2>2 DEF PromiseStep, Promise!Next, Promise!Intend, Promise!Publish
<1> QED BY <1>1, <1>2, <1>3, <1>4 DEF Plan, Persist, Fault

(* Every step of a cleanup is a step of a recoverable operation, or changes  *)
(* nothing that its promise is about.                                        *)
LEMMA StepSimulation ==
    ASSUME IInv, IInv', [Next]_vars
    PROVE  PromiseStep
<1>0. /\ TypeOK' /\ raced \in BOOLEAN
      /\ pc \notin {"down", "caught"} => mem = durable
  BY DEF IInv, TypeOK, Synchronised
<1>1. ASSUME NEW how, NEW preserve, NEW stage, EndMilestone(how, preserve, stage)
      PROVE  PromiseStep
  <2>1. durable = "active"
    BY <1>1 DEF EndMilestone, IInv, StageFits
  <2>2. /\ durable' \in {"active", "terminal"} /\ faults' \in {faults, faults + 1}
        /\ UNCHANGED <<reason, workspace, deps, raced>>
    BY <1>1, <2>1 DEF EndMilestone, Persist, Fault, spaceVars
  <2>3. Status' = Status /\ Removed' = Removed
    BY <2>1, <2>2 DEF Status, Removed
  <2> QED BY <1>0, <2>2, <2>3, NothingPublished
<1>2. CASE Restart
  <2>1. UNCHANGED <<durable, reason, workspace, deps, faults>> /\ raced' = FALSE
        /\ durable \notin Settled
    BY <1>2 DEF Restart, spaceVars
  <2>2. Status' = Status /\ Removed' = Removed
    BY <2>1 DEF Status, Removed
  <2>3. Status \notin Promise!Settled
    BY <2>1 DEF Status, Promise!Settled, Settled
  <2> QED BY <2>1, <2>2, <2>3 DEF PromiseStep, Promise!Next, Promise!Resume
<1>3. CASE Plan
  BY <1>0, <1>3, Intended
<1>4. CASE WriteReport \/ Inspect \/ CheckArchive \/ CheckDeletion
  BY <1>0, <1>4, LooksAround DEF WriteReport, Inspect, CheckArchive, CheckDeletion
<1>5. CASE AuthorizeRemoval
  BY <1>0, <1>5, LooksAround, PublishedInOrder DEF AuthorizeRemoval, Phase, Active
<1>6. CASE Remove
  <2>1. CASE /\ deps' = FALSE
             /\ UNCHANGED <<milestoneVars, durable, reason, workspace, archiveVars, mem,
                            request, faultVars>>
    <3>1. reason \in Preserving /\ durable = "dependency-removal-started"
      BY <1>6 DEF Remove, IInv, StageFits, Removing
    <3>2. Removed' = TRUE
      BY <2>1, <3>1 DEF Removed
    <3>3. UNCHANGED <<faults, raced>> /\ Status' = Status
      BY <2>1 DEF faultVars, Status
    <3>4. Status = "started"
      BY <3>1 DEF Status
    <3> QED BY <3>2, <3>3, <3>4 DEF PromiseStep, Promise!Next, Promise!Apply
  <2> QED BY <1>0, <1>6, <2>1, LooksAround DEF Remove
<1>7. CASE AdoptRemoval
  <2>1. mem = durable /\ reason \in Preserving /\ (Removed \/ raced)
    BY <1>0, <1>7 DEF AdoptRemoval, IInv, StageFits, Removing, Seen, SeenAt, Removed
  <2> QED BY <1>0, <1>7, <2>1, LooksAround, PublishedInOrder DEF AdoptRemoval, Phase, Active
<1>8. CASE AuthorizeArchive
  BY <1>0, <1>8, LooksAround, PublishedInOrder DEF AuthorizeArchive, IInv, StageFits, Phase, Active
<1>9. CASE Materialize \/ WriteFile \/ TearFile
  <2>1. /\ UNCHANGED <<durable, reason, workspace, deps, raced>>
        /\ faults' = faults + 1 \/ UNCHANGED faults
    BY <1>9 DEF Materialize, WriteFile, TearFile, Look, FailedCall, Fault, spaceVars, faultVars
  <2>2. Status' = Status /\ Removed' = Removed
    BY <2>1 DEF Status, Removed
  <2> QED BY <1>0, <2>1, <2>2, NothingPublished
<1>10. CASE AuthorizeDeletion
  BY <1>0, <1>10, LooksAround, PublishedInOrder DEF AuthorizeDeletion, Phase, Active
<1>11. CASE Delete
  <2>1. CASE /\ workspace' = "missing"
             /\ UNCHANGED <<milestoneVars, durable, reason, archiveVars, mem, request, faultVars>>
    <3>1. reason \in Deleting /\ durable = "workspace-delete-started"
      BY <1>11 DEF Delete, IInv, StageFits, DeletingStages
    <3>2. Removed' = TRUE
      BY <2>1, <3>1 DEF Removed, Deleting
    <3>3. UNCHANGED <<faults, raced>> /\ Status' = Status /\ Status = "started"
      BY <2>1, <3>1 DEF faultVars, Status
    <3> QED BY <3>2, <3>3 DEF PromiseStep, Promise!Next, Promise!Apply
  <2> QED BY <1>0, <1>11, <2>1, LooksAround DEF Delete
<1>12. CASE Deleted
  <2>1. mem = durable /\ reason \in Deleting /\ (Removed \/ raced)
    BY <1>0, <1>12 DEF Deleted, IInv, StageFits, DeletingStages, Seen, SeenAt, Removed, Deleting
  <2> QED BY <1>0, <1>12, <2>1, LooksAround, PublishedInOrder DEF Deleted, Phase, Active
<1>13. CASE Complete
  <2>1. durable \in {"dependencies-removed", "workspace-deleted"} /\ reason \in Reason
    BY <1>13 DEF Complete, IInv, StageFits, Recovering, PolicyFits
  <2>2. Removed \/ raced
    BY <1>13, <2>1 DEF Complete, IInv, Seen, SeenAt, Removed, Deleting
  <2> QED BY <1>0, <1>13, <2>1, <2>2, PublishedInOrder DEF Complete, Phase, Settled
<1>14. CASE Block
  <2>1. durable \in Active
    BY <1>14 DEF Block, IInv, StageFits, Recovering
  <2> QED BY <1>0, <1>14, <2>1, PublishedInOrder DEF Block, Phase, Settled
<1>15. CASE Catch
  <2>1. /\ UNCHANGED <<reason, workspace, deps, raced>>
        /\ \/ UNCHANGED durable /\ (faults' = faults + 1 \/ UNCHANGED faults)
           \/ mem \in Active /\ mem = durable /\ durable' = "blocked" /\ UNCHANGED faults
    BY <1>15 DEF Catch, Fault, spaceVars
  <2>2. Removed' = Removed
    BY <2>1 DEF Removed
  <2>3. CASE UNCHANGED durable /\ (faults' = faults + 1 \/ UNCHANGED faults)
    <3>1. Status' = Status
      BY <2>3 DEF Status
    <3> QED BY <1>0, <2>1, <2>2, <2>3, <3>1, NothingPublished
  <2>4. CASE mem \in Active /\ mem = durable /\ durable' = "blocked" /\ UNCHANGED faults
    <3>1. Status \in {"intended", "started", "done"} /\ Status' = "blocked"
      BY <2>4 DEF Status, Active
    <3> QED BY <2>1, <2>2, <2>4, <3>1 DEF PromiseStep, Promise!Next, Promise!Block, Promise!Publish
  <2> QED BY <2>1, <2>3, <2>4
<1>16. CASE TearDelete \/ Crash \/ Drift
  <2>1. UNCHANGED durable /\ raced' \in {raced, TRUE} /\ faults' = faults + 1
    BY <1>0, <1>16 DEF TearDelete, Crash, Drift, Fault
  <2>2. Status' = Status
    BY <2>1 DEF Status
  <2> QED BY <1>0, <2>1, <2>2, NothingPublished
<1>17. CASE UNCHANGED vars
  <2>1. UNCHANGED <<durable, reason, workspace, deps, faults, raced>>
    BY <1>17 DEF vars, spaceVars, faultVars
  <2>2. UNCHANGED <<Status, Removed>>
    BY <2>1 DEF Status, Removed
  <2> QED BY <2>1, <2>2 DEF PromiseStep
<1> QED
  BY <1>1, <1>2, <1>3, <1>4, <1>5, <1>6, <1>7, <1>8, <1>9, <1>10, <1>11, <1>12, <1>13,
     <1>14, <1>15, <1>16, <1>17
  DEF Next, Controller, CompleteMilestone, Escalate

(* A cleanup keeps the promise of a recoverable operation, whatever dies,    *)
(* fails or interferes.                                                      *)
THEOREM Refinement == Spec => ImplementsRecoverableOperation
<1>1. Init => Promise!Init
  BY DEF Init, Promise!Init, Status, Removed, Preserving
<1>2. IInv /\ IInv' /\ [Next]_vars => [Promise!Next]_<<Status, Removed, faults, raced>>
  BY StepSimulation DEF PromiseStep
<1> QED
  BY <1>1, <1>2, Invariance, PTL DEF Spec, ImplementsRecoverableOperation, Promise!Spec
==============================================================================
