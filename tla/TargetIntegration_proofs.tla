----------------------- MODULE TargetIntegration_proofs -----------------------
(***************************************************************************)
(* Safety of target integration for every bound on faults, every set of      *)
(* obstacles, and with or without interference.  The inductive invariant     *)
(* ties what a running process believes to what is published, each stage to  *)
(* the phase it belongs to, and the published phase to the facts on disk.    *)
(***************************************************************************)
EXTENDS TargetIntegration, TLAPS

(* Between two calls of persist a process works on the published phase.      *)
Synchronised ==
    pc \notin {"down", "caught"} => mem = durable /\ mem \in Active

(* The stages of a process and the phases they occur in.                     *)
StageOfPhase ==
    /\ pc \in {"reinspect", "fetch", "forward", "merge", "merged", "update"} =>
          mem = "target-update-started"
    /\ pc = "updated-inspect" => mem = "target-updated"
    /\ pc = "final-inspect" => mem = "outcome-integrated"

(* A process about to record the update, or to write or complete an          *)
(* integrated outcome, has seen the exact target, and nobody else acts       *)
(* meanwhile.                                                                *)
TargetSeen ==
    /\ ~raced /\ pc = "update" => head = "candidate"
    /\ ~raced /\ mem \in After
        /\ pc \in {"materialize", "writing", "renaming", "checking", "advance"} =>
            head = "candidate" /\ obstacle = NoObstacle /\ workspace = "ready"

(* Before it completes it has read the outcome back.                         *)
OutcomeRead ==
    ~raced /\ pc = "advance" => final = Wanted(mem) /\ temp = "absent"

(* While nothing but clean crashes and failed calls happened, the facts on   *)
(* disk are those the published phase implies.                               *)
Undisturbed ==
    ~disturbed =>
        /\ workspace = "ready" /\ obstacle = NoObstacle
        /\ head \in {"base", "candidate"}
        /\ final # "conflict" /\ temp # "conflict"
        /\ durable \in After \cup {"completed"} => head = "candidate"
        /\ ~(final = "integrated" /\ temp = "pending")
        /\ durable # "blocked" /\ pc # "blocking"
        /\ pc = "update" => head = "candidate"

IInv ==
    /\ TypeOK /\ Synchronised /\ StageOfPhase /\ RecordNeverAhead
    /\ TargetSeen /\ OutcomeRead /\ Undisturbed

(* The initial state satisfies the inductive invariant.                      *)
LEMMA InitInv == Init => IInv
<1> SUFFICES ASSUME Init PROVE IInv
  OBVIOUS
<1>1. TypeOK
  <2>1. faults \in 0..MaxFaults /\ obstacle \in Obstacle \cup {NoObstacle}
    BY IntegrationAssumption DEF Init
  <2>2. disturbed \in BOOLEAN /\ raced \in BOOLEAN /\ protectedOK \in BOOLEAN
    BY DEF Init
  <2>3. durable \in Phase /\ mem \in Phase /\ pc \in Stage
    BY DEF Init, Phase, Stage
  <2> QED
    BY <2>1, <2>2, <2>3 DEF Init, TypeOK, Artifact, Workspace
<1>2. Synchronised /\ StageOfPhase /\ RecordNeverAhead /\ OutcomeRead
  BY DEF Init, Synchronised, StageOfPhase, RecordNeverAhead, OutcomeRead
<1>3. TargetSeen /\ Undisturbed
  BY DEF Init, TargetSeen, Undisturbed, After
<1> QED
  BY <1>1, <1>2, <1>3 DEF IInv

(* A step that only looks keeps everything but the stage.                    *)
LEMMA LookInv ==
    ASSUME IInv, NEW stage \in Stage, Look(stage),
           pc \notin {"down", "caught"},
           stage \in {"reinspect", "fetch", "forward", "merge", "merged", "update"} =>
               mem = "target-update-started",
           stage = "updated-inspect" => mem = "target-updated",
           stage = "final-inspect" => mem = "outcome-integrated",
           ~raced /\ mem \in After
             /\ stage \in {"materialize", "writing", "renaming", "checking", "advance"} =>
               head = "candidate" /\ obstacle = NoObstacle /\ workspace = "ready",
           ~raced /\ stage = "advance" => final = Wanted(mem) /\ temp = "absent",
           stage = "update" => head = "candidate",
           stage = "blocking" => disturbed
    PROVE  IInv'
  BY DEF Look, Goto, IInv, TypeOK, Synchronised, StageOfPhase, RecordNeverAhead,
         TargetSeen, OutcomeRead, Undisturbed, Wanted,
         targetVars, outsideVars, fileVars, faultVars

(* An inspection of undisturbed facts is recoverable.                        *)
LEMMA UndisturbedRecoverable ==
    ASSUME IInv, ~disturbed, mem = durable, mem \in Active
    PROVE  Classify(mem) = IF head = "base" THEN "target-base" ELSE "target-candidate"
  BY DEF IInv, Undisturbed, RecordNeverAhead, Classify, TypeOK, Active, After, Before, Settled

(* The classification of a target ready for the integrated outcome.          *)
LEMMA CandidateSeen ==
    ASSUME IInv, Classify(mem) = "target-candidate"
    PROVE  head = "candidate" /\ obstacle = NoObstacle /\ workspace = "ready"
  BY IntegrationAssumption DEF IInv, TypeOK, Classify, Workspace

(* A call that throws leaves a process that will only clean up.              *)
LEMMA FailedCallInv == IInv /\ FailedCall => IInv'
  BY IntegrationAssumption
     DEF FailedCall, Goto, Fault, Stage, Wanted, IInv, TypeOK, Synchronised, StageOfPhase, RecordNeverAhead, TargetSeen,
         OutcomeRead, Undisturbed, durableVars, targetVars, outsideVars, fileVars, faultVars

(* Publishing the next phase keeps the invariant, where the facts on disk    *)
(* carry that phase.                                                         *)
LEMMA PersistInv ==
    ASSUME IInv, NEW phase \in Phase, NEW stage \in Stage, Persist(phase, stage),
           durable = "none" \/ durable \in Active,
           durable \in After => phase \in After \cup Settled,
           durable \in Before => phase # "none",
           stage # "down" => phase \in Active,
           stage \notin {"writing", "renaming", "checking", "advance", "update",
                         "blocking", "caught"},
           stage = "materialize" => phase \in Before,
           stage \in {"reinspect", "fetch", "forward", "merge", "merged", "update"} =>
               phase = "target-update-started",
           stage = "updated-inspect" => phase = "target-updated",
           stage = "final-inspect" => phase = "outcome-integrated",
           ~disturbed /\ phase \in After \cup {"completed"} => head = "candidate",
           phase = "blocked" => disturbed
    PROVE  IInv'
<1> USE DEF Persist, Goto
<1>1. TypeOK'
  BY IntegrationAssumption DEF IInv, TypeOK, Fault, targetVars, outsideVars, fileVars, Stage
<1>2. Synchronised' /\ StageOfPhase'
  BY DEF IInv, Synchronised, StageOfPhase
<1>3. RecordNeverAhead'
  BY DEF IInv, TypeOK, RecordNeverAhead, fileVars, Phase, Active, Before, After, Settled
<1>4. TargetSeen' /\ OutcomeRead'
  BY DEF IInv, TargetSeen, OutcomeRead, Before, After
<1>5. Undisturbed'
  BY DEF IInv, TypeOK, Undisturbed, targetVars, outsideVars, fileVars
<1> QED
  BY <1>1, <1>2, <1>3, <1>4, <1>5 DEF IInv

(* Every step keeps the invariant.                                           *)
LEMMA NextInv == IInv /\ [Next]_vars => IInv'
<1> SUFFICES ASSUME IInv, [Next]_vars PROVE IInv'
  OBVIOUS
<1> USE IntegrationAssumption
<1> DEFINE Facts == /\ pc \notin {"down", "caught"} => mem = durable /\ mem \in Active
                    /\ durable \in Phase /\ disturbed \in BOOLEAN
<1>0. Facts
  BY DEF IInv, TypeOK, Synchronised
<1>1. CASE PublishIntent
  BY <1>1, PersistInv DEF PublishIntent, IInv, Undisturbed, Phase, Active, Before, After, Settled, Stage
<1>2. CASE Restart
  BY <1>2 DEF Restart, Goto, Stage, Wanted, Before, After, Active, Phase, IInv, TypeOK,
         Synchronised, StageOfPhase, RecordNeverAhead, TargetSeen, OutcomeRead,
         Undisturbed, targetVars, outsideVars, fileVars, faultVars
<1>3. CASE Inspect
  <2>1. Recoverable(Classify(mem)) \/ disturbed
    BY <1>0, <1>3, UndisturbedRecoverable DEF Inspect, Recoverable
  <2> QED
    BY <1>3, <2>1, LookInv DEF Inspect, Stage
<1>4. CASE AssertProtectedFiles
  BY <1>0, <1>4, LookInv DEF AssertProtectedFiles, Stage, Active, Before, After
<1>5. CASE Materialize
  BY <1>5, LookInv DEF Materialize, Stage, Wanted, IInv, TargetSeen
<1>6. CASE WriteTemporary
  <2>1. CASE temp # "absent" /\ Look("caught")
    BY <1>6, <2>1, LookInv DEF WriteTemporary, Stage
  <2>2. CASE temp = "absent" /\ FailedCall
    BY <2>2, FailedCallInv
  <2>3. CASE /\ temp = "absent" /\ temp' = Wanted(mem) /\ Goto("renaming")
             /\ UNCHANGED <<durable, targetVars, outsideVars, final, mem, faultVars>>
    BY <1>0, <1>6, <2>3
       DEF WriteTemporary, Goto, Stage, Wanted, Before, After, Active, Settled, Artifact, IInv, TypeOK,
         Synchronised, StageOfPhase, RecordNeverAhead, TargetSeen, OutcomeRead,
         Undisturbed, targetVars, outsideVars, fileVars, faultVars
  <2> QED
    BY <1>6, <2>1, <2>2, <2>3 DEF WriteTemporary
<1>7. CASE TearTemporary
  BY <1>0, <1>7 DEF TearTemporary, Fault, Goto, Stage, Artifact, IInv, TypeOK,
         Synchronised, StageOfPhase, RecordNeverAhead, TargetSeen, OutcomeRead,
         Undisturbed, targetVars, outsideVars, fileVars, faultVars
<1>8. CASE Rename
  <2>1. CASE temp = "absent" /\ Look("caught")
    BY <1>8, <2>1, LookInv DEF Rename, Stage
  <2>2. CASE /\ temp # "absent" /\ final' = temp /\ temp' = "absent" /\ Goto("checking")
             /\ UNCHANGED <<durable, targetVars, outsideVars, mem, faultVars>>
    BY <1>0, <1>8, <2>2 DEF Rename, Goto, Stage, Artifact, IInv, TypeOK,
         Synchronised, StageOfPhase, RecordNeverAhead, TargetSeen, OutcomeRead,
         Undisturbed, targetVars, outsideVars, fileVars, faultVars
  <2>3. CASE /\ Fault /\ temp' \in {temp, "absent"} /\ Goto("caught")
             /\ UNCHANGED <<durable, targetVars, outsideVars, final, mem, disturbed, raced>>
    BY <1>0, <1>8, <2>3 DEF Rename, Fault, Goto, Stage, Artifact, IInv, TypeOK,
         Synchronised, StageOfPhase, RecordNeverAhead, TargetSeen, OutcomeRead,
         Undisturbed, targetVars, outsideVars, fileVars, faultVars
  <2> QED
    BY <1>8, <2>1, <2>2, <2>3 DEF Rename
<1>9. CASE CheckOutcome
  BY <1>9, LookInv DEF CheckOutcome, Stage, IInv, TargetSeen
<1>10. CASE Advance
  <2>1. CASE mem = "intent-persisted" /\ Persist("outcome-pending", "materialize")
    BY <1>0, <1>10, <2>1, PersistInv DEF Advance, Phase, Active, Before, After, Settled, Stage
  <2>2. CASE mem = "outcome-pending" /\ Persist("target-update-started", "reinspect")
    BY <1>0, <1>10, <2>2, PersistInv DEF Advance, Phase, Active, Before, After, Settled, Stage
  <2>3. CASE mem = "target-update-started" /\ Look("reinspect")
    BY <1>10, <2>3, LookInv DEF Advance, Stage
  <2>4. CASE mem = "target-updated" /\ Persist("outcome-integrated", "final-inspect")
    BY <1>0, <1>10, <2>4, PersistInv
       DEF Advance, Phase, Active, Before, After, Settled, Stage, IInv, Undisturbed
  <2>5. CASE mem = "outcome-integrated" /\ Persist("completed", "down")
    BY <1>0, <1>10, <2>5, PersistInv
       DEF Advance, Phase, Active, Before, After, Settled, Stage, IInv, Undisturbed
  <2> QED
    BY <1>10, <2>1, <2>2, <2>3, <2>4, <2>5 DEF Advance
<1>11. CASE Reinspect
  <2>1. mem = "target-update-started"
    BY <1>11 DEF Reinspect, IInv, StageOfPhase
  <2>2. Recoverable(Classify(mem)) \/ disturbed
    BY <1>0, <1>11, UndisturbedRecoverable DEF Reinspect, Recoverable
  <2>3. Classify(mem) = "target-candidate" => head = "candidate"
    BY CandidateSeen
  <2> QED
    BY <1>11, <2>1, <2>2, <2>3, LookInv DEF Reinspect, Recoverable, Stage, After
<1>12. CASE Fetch
  BY <1>12, LookInv, FailedCallInv DEF Fetch, Stage, IInv, StageOfPhase
<1>13. CASE BeforeFastForward
  BY <1>13, LookInv DEF BeforeFastForward, Stage, IInv, StageOfPhase
<1>14. CASE FastForward
  <2>1. CASE /\ head \in {"base", "candidate"} /\ head' = "candidate" /\ Goto("merged")
             /\ UNCHANGED <<durable, obstacle, outsideVars, fileVars, mem, faultVars>>
    BY <1>0, <1>14, <2>1 DEF FastForward, Goto, Stage, After, Active, Before, IInv, TypeOK,
         Synchronised, StageOfPhase, RecordNeverAhead, TargetSeen, OutcomeRead,
         Undisturbed, targetVars, outsideVars, fileVars, faultVars
  <2> QED
    BY <1>14, <2>1, LookInv, FailedCallInv DEF FastForward, Stage
<1>15. CASE TearMerge
  BY <1>0, <1>15 DEF TearMerge, Fault, Goto, Stage, IInv, TypeOK,
         Synchronised, StageOfPhase, RecordNeverAhead, TargetSeen, OutcomeRead,
         Undisturbed, targetVars, outsideVars, fileVars, faultVars
<1>16. CASE AfterFastForward \/ PublishUpdated
  <2>1. CASE AfterFastForward
    BY <2>1, LookInv DEF AfterFastForward, Stage, IInv, StageOfPhase
  <2>2. CASE PublishUpdated
    BY <1>0, <2>2, PersistInv DEF PublishUpdated, Phase, Active, Before, After, Settled, Stage,
       IInv, StageOfPhase, Undisturbed
  <2> QED
    BY <1>16, <2>1, <2>2
<1>17. CASE UpdatedInspect
  <2>1. mem = "target-updated" /\ mem = durable /\ mem \in After /\ mem \in Active
    BY <1>0, <1>17 DEF UpdatedInspect, IInv, StageOfPhase, After
  <2>2. Classify(mem) = "target-candidate" \/ disturbed
    BY <2>1, UndisturbedRecoverable DEF IInv, Undisturbed
  <2> QED
    BY <1>17, <2>1, <2>2, LookInv, CandidateSeen DEF UpdatedInspect, Stage
<1>18. CASE FinalInspect
  <2>1. mem = "outcome-integrated" /\ mem = durable /\ mem \in After /\ mem \in Active
    BY <1>0, <1>18 DEF FinalInspect, IInv, StageOfPhase, After
  <2>2. Classify(mem) = "target-candidate" \/ disturbed
    BY <2>1, UndisturbedRecoverable DEF IInv, Undisturbed
  <2> QED
    BY <1>18, <2>1, <2>2, LookInv, CandidateSeen DEF FinalInspect, Stage
<1>19. CASE Block
  BY <1>0, <1>19, PersistInv
     DEF Block, Phase, Active, Before, After, Settled, Stage, IInv, Undisturbed
<1>20. CASE Catch
  <2>1. mem \in Active /\ mem = durable /\ ~disturbed => Recoverable(Classify(mem))
    BY UndisturbedRecoverable DEF Recoverable
  <2> QED
    BY <1>20, <2>1 DEF Catch, Fault, Goto, Stage, Phase, Active, Before, After, Settled, IInv, TypeOK,
         Synchronised, StageOfPhase, RecordNeverAhead, TargetSeen, OutcomeRead,
         Undisturbed, targetVars, outsideVars, fileVars, faultVars
<1>21. CASE Crash
  BY <1>21 DEF Crash, Fault, Goto, Stage, IInv, TypeOK,
         Synchronised, StageOfPhase, RecordNeverAhead, TargetSeen, OutcomeRead,
         Undisturbed, targetVars, outsideVars, fileVars, faultVars
<1>22. CASE Drift
  <2>1. disturbed' = TRUE /\ UNCHANGED <<durable, pc, mem>>
    BY <1>22 DEF Drift
  <2>0. raced' \in BOOLEAN
    BY <1>22 DEF Drift, Race, IInv, TypeOK
  <2>2. TypeOK'
    <3>1. faults' \in 0..MaxFaults
      BY <1>22 DEF Drift, Fault, IInv, TypeOK
    <3> QED
      BY <1>22, <2>1, <2>0, <3>1 DEF Drift, IInv, TypeOK, targetVars, outsideVars, fileVars, Artifact
  <2>3. RecordNeverAhead'
    BY <1>22, <2>1 DEF Drift, IInv, RecordNeverAhead, fileVars
  <2>4. raced' \in BOOLEAN /\ (~raced' => pc = "down" /\ ~raced)
    BY <1>22 DEF Drift, Race, IInv, TypeOK
  <2>5. Synchronised' /\ StageOfPhase'
    BY <2>1 DEF IInv, Synchronised, StageOfPhase
  <2>6. TargetSeen' /\ OutcomeRead'
    BY <2>1, <2>4 DEF TargetSeen, OutcomeRead
  <2>7. Undisturbed'
    BY <2>1 DEF Undisturbed
  <2> QED
    BY <2>2, <2>3, <2>5, <2>6, <2>7 DEF IInv
<1>23. CASE ProtectedFileChanges \/ ProtectedFileRestored
  <2>1. faults' \in 0..MaxFaults
    BY <1>23 DEF ProtectedFileChanges, ProtectedFileRestored, Fault, IInv, TypeOK, faultVars
  <2>3. protectedOK' \in BOOLEAN
    BY <1>23, Zenon DEF ProtectedFileChanges, ProtectedFileRestored
  <2>4. raced' \in BOOLEAN /\ (~raced' => ~raced)
    BY <1>23 DEF ProtectedFileChanges, ProtectedFileRestored, Race, IInv, TypeOK
  <2>2. UNCHANGED <<durable, head, obstacle, workspace, final, temp, pc, mem, disturbed>>
    BY <1>23 DEF ProtectedFileChanges, ProtectedFileRestored, targetVars, fileVars, faultVars
  <2> QED
    BY <2>1, <2>2, <2>3, <2>4 DEF Wanted, IInv, TypeOK, Synchronised, StageOfPhase, RecordNeverAhead,
       TargetSeen, OutcomeRead, Undisturbed
<1>24. CASE UNCHANGED vars
  BY <1>24 DEF vars, Wanted, IInv, TypeOK,
         Synchronised, StageOfPhase, RecordNeverAhead, TargetSeen, OutcomeRead,
         Undisturbed, targetVars, outsideVars, fileVars, faultVars
<1> QED
  BY <1>1, <1>2, <1>3, <1>4, <1>5, <1>6, <1>7, <1>8, <1>9, <1>10, <1>11, <1>12,
     <1>13, <1>14, <1>15, <1>16, <1>17, <1>18, <1>19, <1>20, <1>21, <1>22, <1>23, <1>24
     DEF Next, Controller, Environment

(* The inductive invariant holds in every reachable state.                   *)
THEOREM Invariance == Spec => []IInv
  BY InitInv, NextInv, PTL DEF Spec

(* Every variable keeps its type: the phases, stages and artifacts the       *)
(* process and the published state can name.                                 *)
THEOREM TypeCorrectness == Spec => []TypeOK
<1>1. IInv => TypeOK
  BY DEF IInv
<1> QED
  BY <1>1, Invariance, PTL

(* The outcome files never run ahead of the published phase, for any number  *)
(* of faults and with outsiders acting at any moment.                        *)
THEOREM RecordNeverAheadHolds == Spec => []RecordNeverAhead
<1>1. IInv => RecordNeverAhead
  BY DEF IInv
<1> QED
  BY <1>1, Invariance, PTL

(* Clean crashes and failed calls, in any number, never block an integration. *)
THEOREM CrashAloneNeverBlocksHolds == Spec => []CrashAloneNeverBlocks
<1>1. IInv => CrashAloneNeverBlocks
  BY DEF IInv, TypeOK, Undisturbed, CrashAloneNeverBlocks
<1> QED
  BY <1>1, Invariance, PTL

(* The controller moves the target only under a published intent to do so,   *)
(* and leaves everything alone once it has blocked.                          *)
THEOREM TargetMovedUnderIntentHolds == Spec => TargetMovedUnderIntent
<1>1. IInv /\ [Next]_vars => [MoveIntended]_vars
  <2> SUFFICES ASSUME IInv, Next, head' # head, ~Drift
               PROVE  /\ durable = "target-update-started"
                      /\ head = "base" /\ head' = "candidate"
    BY DEF MoveIntended, vars, targetVars
  <2>1. FastForward \/ TearMerge
    BY DEF Next, Controller, Environment, PublishIntent, Restart, Inspect,
           AssertProtectedFiles, Materialize, WriteTemporary, Rename, CheckOutcome,
           Advance, Reinspect, Fetch, BeforeFastForward, AfterFastForward, PublishUpdated,
           UpdatedInspect, FinalInspect, Block, Catch, TearTemporary, Crash,
           ProtectedFileChanges, ProtectedFileRestored, Look, Persist, FailedCall, targetVars
  <2>2. pc = "merge" /\ durable = "target-update-started"
    BY <2>1 DEF FastForward, TearMerge, IInv, Synchronised, StageOfPhase
  <2> QED
    BY <2>1, <2>2 DEF FastForward, TearMerge, Look, FailedCall, targetVars
<1>2. IInv /\ [Next]_vars => [BlockStands]_vars
  <2> SUFFICES ASSUME IInv, durable = "blocked", Controller
               PROVE  UNCHANGED <<durable, targetVars, fileVars>>
    BY DEF BlockStands
  <2>1. pc \in {"down", "caught"} /\ durable \notin Active
    BY DEF IInv, Synchronised, Active, Before, After
  <2>2. Catch
    BY <2>1 DEF Controller, PublishIntent, Restart, Inspect,
           AssertProtectedFiles, Materialize, WriteTemporary, Rename, CheckOutcome,
           Advance, Reinspect, Fetch, BeforeFastForward, FastForward, AfterFastForward, PublishUpdated,
           UpdatedInspect, FinalInspect, Block
  <2> QED
    BY <2>1, <2>2 DEF Catch, fileVars
<1> QED
  BY <1>1, <1>2, Invariance, PTL DEF Spec, TargetMovedUnderIntent

(* An operation is completed only with the target at the candidate and the   *)
(* integrated outcome on disk, unless outsiders act while that process runs. *)
THEOREM CompletionIsTrueHolds == Spec => CompletionIsTrue
<1>1. IInv /\ [Next]_vars =>
        [ ~raced /\ durable' = "completed" /\ durable # "completed" =>
            /\ head = "candidate" /\ obstacle = NoObstacle
            /\ final = "integrated" /\ temp = "absent" /\ workspace = "ready" ]_vars
  <2> SUFFICES ASSUME IInv, Next, ~raced, durable' = "completed", durable # "completed"
               PROVE  /\ head = "candidate" /\ obstacle = NoObstacle
                      /\ final = "integrated" /\ temp = "absent" /\ workspace = "ready"
    BY DEF vars
  <2>1. pc = "advance" /\ mem = "outcome-integrated"
    BY DEF Next, Controller, Environment, PublishIntent, Restart, Inspect,
           AssertProtectedFiles, Materialize, WriteTemporary, Rename, CheckOutcome,
           Advance, Reinspect, Fetch, BeforeFastForward, FastForward, AfterFastForward, PublishUpdated,
           UpdatedInspect, FinalInspect, Block, Catch, TearTemporary, TearMerge, Crash,
           Drift, ProtectedFileChanges, ProtectedFileRestored, Look, Persist, FailedCall
  <2> QED
    BY <2>1 DEF IInv, TargetSeen, OutcomeRead, Wanted, After, Before
<1> QED
  BY <1>1, Invariance, PTL DEF Spec, CompletionIsTrue

------------------------------------------------------------------------------
(* The promise of a recoverable operation.                                   *)

PromiseStep == Promise!Next \/ UNCHANGED <<Status, head = "candidate", faults, raced>>

(* A step that publishes nothing is a disturbance, unless it moves the       *)
(* target without a fault.                                                   *)
LEMMA NothingPublished ==
    ASSUME UNCHANGED durable, raced' \in {raced, TRUE},
           faults' = faults + 1 \/ UNCHANGED <<faults, head>>
    PROVE  PromiseStep
<1>1. Status' = Status
  BY DEF Status
<1>2. (head = "candidate")' \in BOOLEAN
  OBVIOUS
<1>3. UNCHANGED <<faults, head>> => UNCHANGED <<faults, head = "candidate">>
  OBVIOUS
<1>4. Promise!Disturb
  BY <1>1, <1>2, <1>3 DEF Promise!Disturb
<1> QED BY <1>4 DEF PromiseStep, Promise!Next

(* The three results of persist.                                             *)
LEMMA Published ==
    ASSUME NEW phase, NEW stage, Persist(phase, stage)
    PROVE  /\ durable' \in {durable, phase} /\ faults' \in {faults, faults + 1}
           /\ UNCHANGED <<head, raced>>
BY DEF Persist, Fault, targetVars

(* A step that only looks, or fails, keeps the promise.                      *)
LEMMA LooksAround ==
    ASSUME NEW stage, Look(stage) \/ FailedCall
    PROVE  PromiseStep
<1>1. /\ UNCHANGED <<durable, head, raced>> /\ (faults' = faults + 1 \/ UNCHANGED faults)
  BY DEF Look, FailedCall, Fault, targetVars, faultVars
<1> QED BY <1>1, NothingPublished

(* What is published of an operation is published in order.                  *)
LEMMA PublishedInOrder ==
    ASSUME IInv, NEW phase \in Phase, NEW stage, Persist(phase, stage),
           \/ durable = "none" /\ phase = "intent-persisted"
           \/ durable = "intent-persisted" /\ phase = "outcome-pending"
           \/ durable = "outcome-pending" /\ phase = "target-update-started"
           \/ durable = "target-update-started" /\ phase = "target-updated"
                 /\ (head = "candidate" \/ raced)
           \/ durable = "target-updated" /\ phase = "outcome-integrated"
           \/ durable = "outcome-integrated" /\ phase = "completed"
                 /\ (head = "candidate" \/ raced)
           \/ durable \in Active /\ phase = "blocked"
    PROVE  PromiseStep
<1>1. /\ durable' \in {durable, phase} /\ faults' \in {faults, faults + 1}
      /\ UNCHANGED <<head, raced>>
  BY Published
<1>2. CASE durable' = durable
  BY <1>1, <1>2, NothingPublished
<1>3. CASE durable' = phase
  <2> USE DEF PromiseStep, Promise!Next, Promise!Publish, Status, Active, Before, After, Settled
  <2>1. (head = "candidate")' = (head = "candidate") /\ (head = "candidate")' \in BOOLEAN
    BY <1>1
  <2>2. CASE durable = "none" /\ phase = "intent-persisted"
    BY <1>1, <1>3, <2>1, <2>2 DEF Promise!Intend
  <2>3. CASE durable = "intent-persisted" /\ phase = "outcome-pending"
    BY <1>1, <1>3, <2>1, <2>3 DEF Promise!Disturb
  <2>4. CASE durable = "outcome-pending" /\ phase = "target-update-started"
    BY <1>1, <1>3, <2>1, <2>4 DEF Promise!Start
  <2>5. CASE durable = "target-update-started" /\ phase = "target-updated"
                 /\ (head = "candidate" \/ raced)
    BY <1>1, <1>3, <2>1, <2>5 DEF Promise!Record
  <2>6. CASE durable = "target-updated" /\ phase = "outcome-integrated"
    BY <1>1, <1>3, <2>1, <2>6 DEF Promise!Disturb
  <2>7. CASE durable = "outcome-integrated" /\ phase = "completed"
                 /\ (head = "candidate" \/ raced)
    BY <1>1, <1>3, <2>1, <2>7 DEF Promise!Complete
  <2>8. CASE durable \in Active /\ phase = "blocked"
    BY <1>1, <1>3, <2>1, <2>8 DEF Promise!Block
  <2> QED BY <2>2, <2>3, <2>4, <2>5, <2>6, <2>7, <2>8
<1> QED BY <1>1, <1>2, <1>3

(* Every step of an integration is a step of a recoverable operation, or     *)
(* changes nothing that its promise is about.                                *)
LEMMA StepSimulation ==
    ASSUME IInv, [Next]_vars
    PROVE  PromiseStep
<1>0. /\ pc \notin {"down", "caught"} => mem = durable /\ mem \in Active
      /\ raced \in BOOLEAN
  BY DEF IInv, TypeOK, Synchronised
<1>1. CASE PublishIntent
  BY <1>1, PublishedInOrder DEF PublishIntent, Phase, Active, Before
<1>2. CASE Restart
  <2>1. Status' = Status /\ Status \in {"intended", "started", "done"}
    BY <1>2 DEF Restart, Status, Active, Before, After
  <2>2. raced' = FALSE /\ UNCHANGED <<head, faults>>
    BY <1>2 DEF Restart, targetVars
  <2>3. Promise!Resume
    BY <2>1, <2>2 DEF Promise!Resume, Promise!Settled
  <2> QED BY <2>3 DEF PromiseStep, Promise!Next
<1>3. CASE \/ Inspect \/ AssertProtectedFiles \/ Materialize \/ CheckOutcome \/ Reinspect
           \/ Fetch \/ BeforeFastForward \/ AfterFastForward \/ UpdatedInspect \/ FinalInspect
  BY <1>3, LooksAround DEF Inspect, AssertProtectedFiles, Materialize, CheckOutcome, Reinspect,
     Fetch, BeforeFastForward, AfterFastForward, UpdatedInspect, FinalInspect
<1>4. CASE WriteTemporary \/ Rename
  <2>1. UNCHANGED <<durable, head, raced>> /\ (faults' = faults + 1 \/ UNCHANGED faults)
    BY <1>4 DEF WriteTemporary, Rename, Look, FailedCall, Fault, targetVars, faultVars
  <2> QED BY <2>1, NothingPublished
<1>5. CASE Advance
  <2>1. mem = durable /\ pc = "advance"
    BY <1>0, <1>5 DEF Advance
  <2>2. mem = "outcome-integrated" => head = "candidate" \/ raced
    BY <2>1 DEF IInv, TargetSeen, After
  <2> QED BY <1>5, <2>1, <2>2, LooksAround, PublishedInOrder
          DEF Advance, Phase, Active, Before, After, Settled
<1>6. CASE FastForward
  <2>1. durable = "target-update-started"
    BY <1>0, <1>6 DEF FastForward, IInv, StageOfPhase
  <2>2. CASE /\ head' = "candidate"
             /\ UNCHANGED <<durable, obstacle, outsideVars, fileVars, mem, faultVars>>
    <3>1. Status = "started" /\ Status' = Status
      BY <2>1, <2>2 DEF Status, After
    <3>2. (head = "candidate")' = TRUE /\ UNCHANGED <<faults, raced>>
      BY <2>2 DEF faultVars
    <3>3. Promise!Apply
      BY <3>1, <3>2 DEF Promise!Apply
    <3> QED BY <3>3 DEF PromiseStep, Promise!Next
  <2> QED BY <1>6, <2>2, LooksAround DEF FastForward
<1>7. CASE PublishUpdated
  <2>1. durable = "target-update-started" /\ (head = "candidate" \/ raced)
    BY <1>0, <1>7 DEF PublishUpdated, IInv, StageOfPhase, TargetSeen
  <2> QED BY <1>7, <2>1, PublishedInOrder DEF PublishUpdated, Phase, Active, After
<1>8. CASE Block
  BY <1>0, <1>8, PublishedInOrder DEF Block, Phase, Settled
<1>9. CASE Catch
  <2>1. \/ UNCHANGED <<durable, head, raced>> /\ (faults' = faults + 1 \/ UNCHANGED faults)
        \/ /\ mem \in Active /\ mem = durable /\ durable' = "blocked"
           /\ UNCHANGED <<head, raced, faults>>
    BY <1>9 DEF Catch, Fault, targetVars
  <2>2. CASE /\ mem \in Active /\ mem = durable /\ durable' = "blocked"
             /\ UNCHANGED <<head, raced, faults>>
    <3>1. Status \in {"intended", "started", "done"} /\ Status' = "blocked"
      BY <2>2 DEF Status, Active, Before, After
    <3>2. Promise!Block
      BY <2>2, <3>1 DEF Promise!Block, Promise!Publish
    <3> QED BY <3>2 DEF PromiseStep, Promise!Next
  <2> QED BY <2>1, <2>2, NothingPublished
<1>10. CASE \/ TearTemporary \/ TearMerge \/ Crash \/ Drift
            \/ ProtectedFileChanges \/ ProtectedFileRestored
  <2>1. UNCHANGED durable /\ raced' \in {raced, TRUE}
    BY <1>0, <1>10 DEF TearTemporary, TearMerge, Crash, Drift, ProtectedFileChanges,
       ProtectedFileRestored, Race
  <2>2. faults' = faults + 1 \/ UNCHANGED <<faults, head>>
    BY <1>10 DEF TearTemporary, TearMerge, Crash, Drift, ProtectedFileChanges,
       ProtectedFileRestored, Fault, targetVars
  <2> QED BY <2>1, <2>2, NothingPublished
<1>11. CASE UNCHANGED vars
  BY <1>11, NothingPublished DEF vars, targetVars, faultVars
<1> QED
  BY <1>1, <1>2, <1>3, <1>4, <1>5, <1>6, <1>7, <1>8, <1>9, <1>10, <1>11
  DEF Next, Controller, Environment

(* An integration keeps the promise of a recoverable operation, whatever     *)
(* dies, fails or interferes.                                                *)
THEOREM Refinement == Spec => ImplementsRecoverableOperation
<1>1. Init => Promise!Init
  BY DEF Init, Promise!Init, Status, After, Before
<1>2. IInv /\ [Next]_vars => [Promise!Next]_<<Status, head = "candidate", faults, raced>>
  BY StepSimulation DEF PromiseStep
<1> QED
  BY <1>1, <1>2, Invariance, PTL DEF Spec, ImplementsRecoverableOperation, Promise!Spec
=============================================================================
