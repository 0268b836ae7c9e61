---------------------------- MODULE RetentionApply ----------------------------
(***************************************************************************)
(* Approved deletion of retained evidence (retention-apply-operation.ts,     *)
(* with the plan of evidence-retention.ts and the reducers of                *)
(* operation-intent.ts).                                                     *)
(*                                                                           *)
(* The operator approves a plan by its hash.  Its deletions are carried out  *)
(* in order, each under a published phase of its own; a synced journal and a *)
(* result are derived evidence.  Every process, the first one included, is   *)
(* driven by the published phase and by what it finds: before each step it   *)
(* looks at the whole world the approval was given for, and preserves        *)
(* everything with a durable block when that has changed.                    *)
(***************************************************************************)
EXTENDS Naturals

CONSTANTS
    Deletions,      \* number of approved deletions
    MaxFaults       \* bound on crashes, failing calls and outside changes

VARIABLES
    phase,      \* phase of the operation in the published state
    done,       \* completedDeletionCount in the published state
    run,        \* the evidence directories to delete
    journal,    \* length of journal.jsonl, two per line, or Conflict
    result,     \* apply-result.json
    approved,   \* candidate (HEAD and every file git sees), configuration, roots and the
                \* other runs are as approved
    cited,      \* the deletions whose run is cited by now
    at,         \* where the process is
    exclusive,  \* a reconciliation is active in the same published state
    faults,     \* faults so far
    disturbed,  \* history: something but a clean crash or a failed call happened
    raced       \* history: outsiders acted while a process ran

derivedVars == <<journal, result>>
worldVars   == <<approved, cited>>
faultVars   == <<faults, disturbed, raced>>
vars == <<phase, done, run, derivedVars, worldVars, at, exclusive, faultVars>>

Target == 1 .. Deletions
Active == {"intent-persisted", "deletion-started", "deletion-finished", "result-written"}
Phase  == {"none"} \cup Active \cup {"completed", "blocked"}

(* "partial" lost files but not its manifest, "headless" its manifest but    *)
(* not everything; "changed" is not the approved run.                        *)
Directory == {"exact", "partial", "headless", "gone", "changed"}

Conflict == 4 * Deletions + 1

Stage == {"down", "inspect", "blocking", "authorise", "deleting", "target", "remove",
          "deleted", "finish", "converge", "next", "result", "written", "complete"}

------------------------------------------------------------------------------
Init ==
    /\ phase = "none" /\ done = 0 /\ at = "down"
    /\ run = [target \in Target |-> "exact"]
    /\ journal = 0 /\ result = "missing"
    /\ approved = TRUE /\ cited = {}
    /\ faults = 0 /\ disturbed = FALSE /\ raced = FALSE

Fault == faults < MaxFaults /\ faults' = faults + 1

Goto(stage) == at' = stage

(* A step that only looks, and decides where to go.                          *)
Look(stage) ==
    Goto(stage) /\ UNCHANGED <<phase, done, run, derivedVars, worldVars, faultVars>>

(* persist: refused, published, or published and then failing; either        *)
(* failure is thrown to the operator.                                        *)
Persist(next, count, stage) ==
    /\ \/ phase' = next /\ done' = count /\ Goto(stage) /\ UNCHANGED faults
       \/ Fault /\ phase' = next /\ done' = count /\ Goto("down")
       \/ Fault /\ UNCHANGED <<phase, done>> /\ Goto("down")
    /\ UNCHANGED <<run, derivedVars, worldVars, disturbed, raced>>

------------------------------------------------------------------------------
(* inspectDeletion: the manifest decides, and without one the target counts  *)
(* as missing.                                                               *)
Inspection(target) ==
    CASE run[target] \in {"exact", "partial"} -> "exact"
      [] run[target] \in {"headless", "gone"} -> "missing"
      [] OTHER -> "unsafe"

Current == done + 1

(* Mutant: one phase late.                                                   *)
AuthorizedMissingLate(target) == phase = "deletion-finished" /\ target = Current

(* Only the target that is being deleted may be gone already.                *)
AuthorizedMissing(target) == phase = "deletion-started" /\ target = Current

(* assertRecoveryWorld: all that remains to be deleted is there, is what was *)
(* approved, and is not cited; what is being deleted may be gone.            *)
WorldAsApproved ==
    /\ approved
    /\ \A target \in Target :
          target > done =>
              \/ AuthorizedMissing(target) /\ Inspection(target) = "missing"
              \/ Inspection(target) = "exact" /\ target \notin cited

(* journalBytes, as lengths: what the journal must and may hold.             *)
Desired == 4 * done + IF phase = "deletion-started" THEN 2 ELSE 0
Maximum == 4 * done + IF phase = "deletion-started" THEN 4 ELSE 0

(* What was deleted stays gone, what comes later is untouched.               *)
TargetsInOrder ==
    \A target \in Target :
        /\ target < Current => Inspection(target) = "missing"
        /\ target > Current => Inspection(target) = "exact"
        /\ target = Current =>
              phase = "deletion-started" \/ Inspection(target) = "exact"

(* inspectRetentionApplyOperation: journal, result and targets are ones of   *)
(* this operation at this phase.                                             *)
Canonical ==
    /\ journal <= Maximum
    /\ result # "conflict" /\ (result = "exact" => done = Deletions)
    /\ TargetsInOrder

NextStage ==
    CASE phase = "intent-persisted"  -> IF Deletions = 0 THEN "result" ELSE "authorise"
      [] phase = "deletion-started"  -> "deleting"
      [] phase = "deletion-finished" -> "converge"
      [] OTHER -> "complete"

------------------------------------------------------------------------------
(* planRetentionApplyOperation: the hash, the world and every target match   *)
(* the approved plan, and nothing else owns the state.                       *)
PublishIntent ==
    /\ at = "down" /\ phase = "none"
    /\ approved /\ cited = {} /\ ~exclusive
    /\ \A target \in Target : Inspection(target) = "exact"
    /\ Persist("intent-persisted", 0, "inspect")

(* The same approval is applied again, or the loop opens the store.          *)
Restart ==
    /\ at = "down" /\ phase \in Active
    /\ raced' = FALSE
    /\ Goto("inspect")
    /\ UNCHANGED <<phase, done, run, derivedVars, worldVars, faults, disturbed>>

(* Mutant: the approval is not held against the world again.                 *)
InspectEvidenceOnly ==
    /\ at = "inspect"
    /\ Look(IF Canonical THEN NextStage ELSE "blocking")

(* Top of recoverRetentionApplyOperation's loop.                             *)
Inspect ==
    /\ at = "inspect"
    /\ Look(IF WorldAsApproved /\ Canonical THEN NextStage ELSE "blocking")

(* Each deletion is published before anything is removed.                    *)
Authorise == at = "authorise" /\ Persist("deletion-started", done, "inspect")

(* convergeJournal: appends what is missing; a write may stop half-way.      *)
Converge(stage, desired, maximum, next) ==
    /\ at = stage
    /\ IF journal > maximum THEN Look("blocking")
       ELSE IF journal >= desired THEN Look(next)
       ELSE /\ \/ journal' = desired /\ Goto(next) /\ UNCHANGED faults
               \/ Fault /\ journal' \in journal .. desired /\ Goto("down")
            /\ UNCHANGED <<phase, done, run, result, worldVars, disturbed, raced>>

JournalDeleting == Converge("deleting", 4 * done + 2, 4 * done + 4, "target")
JournalDeleted  == Converge("deleted", 4 * done + 4, 4 * done + 4, "finish")
JournalExact    ==
    Converge("converge", 4 * done, 4 * done, IF done < Deletions THEN "next" ELSE "result")

(* The target is looked at once more ...                                     *)
InspectTarget ==
    /\ at = "target"
    /\ Look(CASE Inspection(Current) = "exact"   -> "remove"
              [] Inspection(Current) = "missing" -> "deleted"
              [] OTHER -> "blocking")

(* ... and removed; the removal may stop half-way, before or after it        *)
(* reached the manifest.                                                     *)
Remove ==
    /\ at = "remove"
    /\ \/ /\ run' = [run EXCEPT ![Current] = "gone"]
          /\ Goto("deleted") /\ UNCHANGED faults
       \/ /\ Fault
          /\ run[Current] # "gone"
          /\ run' \in {[run EXCEPT ![Current] = left] : left \in {run[Current], "headless"}
                          \cup IF run[Current] = "exact" THEN {"partial"} ELSE {}}
          /\ Goto("down")
    /\ UNCHANGED <<phase, done, derivedVars, worldVars, disturbed, raced>>

FinishDeletion == at = "finish" /\ Persist("deletion-finished", done + 1, "inspect")

AuthoriseNext == at = "next" /\ Persist("deletion-started", done, "inspect")

(* materializeResult: created exclusively and written in place, so a crash   *)
(* in between leaves a file that conflicts from then on.                     *)
WriteResult ==
    /\ at = "result"
    /\ CASE result = "exact"    -> Look("written")
         [] result = "conflict" -> Look("blocking")
         [] result = "missing"  ->
              /\ \/ result' = "exact" /\ Goto("written") /\ UNCHANGED <<faults, disturbed>>
                 \/ Fault /\ result' = "conflict" /\ Goto("down") /\ disturbed' = TRUE
              /\ UNCHANGED <<phase, done, run, journal, worldVars, raced>>

PublishResult == at = "written" /\ Persist("result-written", done, "inspect")

(* completeRetentionApplyOperation, after a last look at the evidence.       *)
Complete ==
    /\ at = "complete"
    /\ CASE journal > 4 * done \/ result = "conflict" -> Look("blocking")
         [] journal < 4 * done ->
              /\ journal' = 4 * done /\ UNCHANGED at
              /\ UNCHANGED <<phase, done, run, result, worldVars, faultVars>>
         [] journal = 4 * done /\ result = "missing" ->
              /\ result' = "exact" /\ UNCHANGED at
              /\ UNCHANGED <<phase, done, run, journal, worldVars, faultVars>>
         [] OTHER -> Persist("completed", done, "down")

(* blockRetentionApplyOperation; a published block ends the command.         *)
Block == at = "blocking" /\ Persist("blocked", done, "down")

------------------------------------------------------------------------------
(* The operator asks for a new plan and approves it; that takes no lease.     *)
Plan ==
    /\ at = "down" /\ phase = "none" /\ ~approved
    /\ approved' = TRUE
    /\ UNCHANGED <<phase, done, run, derivedVars, cited, at, faultVars>>

(* The process dies between two steps.                                       *)
Crash ==
    /\ at # "down" /\ Fault /\ Goto("down")
    /\ UNCHANGED <<phase, done, run, derivedVars, worldVars, disturbed, raced>>

(* Someone else changes what the approval was given for, cites a run,        *)
(* removes or changes one, or touches the evidence of the operation.         *)
Drift ==
    /\ Fault /\ disturbed' = TRUE /\ raced' = (raced \/ at # "down")
    /\ \/ approved' = ~approved /\ UNCHANGED <<cited, run, derivedVars>>
       \/ \E target \in Target :
             \/ cited' = cited \cup {target} /\ UNCHANGED <<approved, run, derivedVars>>
             \/ /\ run' \in {[run EXCEPT ![target] = left] : left \in {"gone", "changed"}}
                /\ UNCHANGED <<worldVars, derivedVars>>
       \/ journal' \in {0, Conflict} /\ UNCHANGED <<worldVars, run, result>>
       \/ result' \in {"missing", "conflict"} /\ UNCHANGED <<worldVars, run, journal>>
    /\ UNCHANGED <<phase, done, at>>

Controller ==
    \/ PublishIntent \/ Restart \/ Inspect \/ Authorise \/ JournalDeleting \/ InspectTarget
    \/ Remove \/ JournalDeleted \/ FinishDeletion \/ JournalExact \/ AuthoriseNext
    \/ WriteResult \/ PublishResult \/ Complete \/ Block

Environment == Plan \/ Crash \/ Drift

Next == (Controller \/ Environment) /\ UNCHANGED exclusive

Spec == Init /\ [][Next]_vars

------------------------------------------------------------------------------
TypeOK ==
    /\ phase \in Phase /\ done \in 0 .. Deletions /\ at \in Stage
    /\ run \in [Target -> Directory] /\ journal \in 0 .. Conflict
    /\ result \in {"missing", "exact", "conflict"}
    /\ approved \in BOOLEAN /\ cited \subseteq Target
    /\ faults \in Nat /\ disturbed \in BOOLEAN /\ raced \in BOOLEAN

Authorised ==
    /\ Remove /\ run' # run =>
          /\ phase = "deletion-started" /\ ~exclusive
          /\ \A target \in Target : run'[target] # run[target] => target = Current
          /\ ~raced => WorldAsApproved /\ run[Current] # "changed" /\ journal >= 4 * done + 2
    /\ phase' = "completed" /\ phase # "completed" /\ ~raced =>
          /\ journal = 4 * Deletions /\ result = "exact" /\ approved
          /\ \A target \in Target : run[target] \in {"gone", "headless"}

(* Evidence is removed only as approved: one target at a time, in its order, *)
(* under a published deletion-started and a journal line of its own, while   *)
(* the world is as approved and the target uncited, unless outsiders acted   *)
(* while that process ran.  And the operation completes only with every      *)
(* target out of the managed evidence and an exact journal and result.       *)
RetentionAuthorised == [][Authorised]_vars
==============================================================================
