------------------------------- MODULE Attempt -------------------------------
(***************************************************************************)
(* One attempt at a milestone, up to its verdict, as beginAttempt, runWorker *)
(* and verify (orchestrator.ts) compose it: the workspace is created, the    *)
(* candidate is prepared in it, its dependencies are installed again, and    *)
(* the candidate is verified.  The parts follow one another in the same      *)
(* command process or in later ones; creation and preparation use the one    *)
(* pending operation of the published state.                                 *)
(***************************************************************************)
EXTENDS Naturals

CONSTANTS
    MaxFaults,      \* bound on crashes, failing calls and outside changes
    Timeout, Grace  \* of the supervised installation

ASSUME AttemptAssumption == MaxFaults \in Nat /\ Timeout \in Nat /\ Grace \in Nat

VARIABLES
    part,       \* "create", "prepare", "install" or "verify"
    durable, pc, faults, disturbed, raced,              \* of several parts
    temp, final, rootSafe, target,                      \* of the creation
    head, headTree, index, work, bound, turn,           \* of the preparation
    checkpoint, plan, result, worker, launches, expired, fresh,
    phase, now, timer, alive, open, doomed, root,       \* of the installation
    exitCode, timedOut, outputLimitExceeded, spawnError, installed, signalled, spared,
    stage, command, candidate, clean, cloned, owed,     \* of the verification
    held, late, container, ended, cut, attach, seen, copied, published, reported,
    failure, status, provider, roots, start, tested, results, verdict

createOnly  == <<temp, final, rootSafe, target>>
prepareOnly == <<head, headTree, index, work, bound, turn, checkpoint, plan, result,
                 worker, launches, expired, fresh>>
installOnly == <<phase, now, timer, alive, open, doomed, root, exitCode, timedOut,
                 outputLimitExceeded, spawnError, installed, signalled, spared>>
verifyOnly  == <<stage, command, candidate, clean, cloned, owed, held, late, container, ended,
                 cut, attach, seen, copied, published, reported, failure, status, provider,
                 roots, start, tested, results, verdict>>
vars == <<part, durable, pc, faults, disturbed, raced, createOnly, prepareOnly, installOnly,
          verifyOnly>>

Create  == INSTANCE WorkspaceCreate
Prepare == INSTANCE CandidatePrepare
Install == INSTANCE ProcessSupervision WITH status <- installed
Verify  == INSTANCE Verification

Init == part = "create" /\ Create!Init /\ Prepare!Init /\ Install!Init /\ Verify!Unverified

------------------------------------------------------------------------------
InCreate  == part = "create"  /\ UNCHANGED <<prepareOnly, installOnly, verifyOnly>>
InPrepare == part = "prepare" /\ UNCHANGED <<createOnly, installOnly, verifyOnly>>
InInstall == part = "install" /\ UNCHANGED <<durable, pc, disturbed, raced, createOnly,
                                             prepareOnly, verifyOnly>>
InVerify  == part = "verify"  /\ UNCHANGED <<disturbed, createOnly, prepareOnly, installOnly>>

CreateStep == durable # "completed" /\ Create!Next /\ InCreate /\ UNCHANGED part

(* completeWorkspaceCreateOperation clears the pending operation, and        *)
(* runWorker goes on with the workspace.                                     *)
HandOver ==
    /\ part = "create" /\ durable = "completed" /\ final = "ready" /\ pc = "down"
    /\ part' = "prepare"
    /\ durable' = "none" /\ disturbed' = FALSE /\ raced' = FALSE
    /\ UNCHANGED <<pc, faults, createOnly, prepareOnly, installOnly, verifyOnly>>

PrepareStep == Prepare!Next /\ InPrepare /\ UNCHANGED part

(* What the parts that are over still held is not looked at again.           *)
Forget ==
    /\ temp' = "missing" /\ final' = "missing" /\ UNCHANGED <<rootSafe, target>>
    /\ head' = "start" /\ headTree' = "start" /\ index' = "start" /\ work' = "start"
    /\ bound' = "ok" /\ turn' = "absent" /\ checkpoint' = "absent"
    /\ plan' = Prepare!NoPlan /\ result' = Prepare!NoResult
    /\ worker' = "idle" /\ launches' = 0 /\ expired' = FALSE /\ fresh' = FALSE

(* completeCandidatePrepareOperation clears the operation, too; processMile- *)
(* stone checks the limits and calls verify, which takes the workspace as it *)
(* is by then.                                                               *)
BeginVerify ==
    /\ part = "prepare" /\ durable = "completed" /\ pc = "down" /\ ~expired
    /\ part' = "install" /\ durable' = "verifying" /\ Forget
    /\ candidate' = IF result = [commit |-> head, tree |-> headTree] THEN "result" ELSE "other"
    /\ clean' = Prepare!Clean /\ roots' = (bound # "protected-file")
    /\ disturbed' = FALSE /\ raced' = FALSE
    /\ UNCHANGED <<pc, faults, installOnly, stage, command, cloned, owed, held, late, container,
                   ended, cut, attach, seen, copied, published, reported, failure, status,
                   provider, start, tested, results, verdict>>

(* Nothing is pending any more, and run's handler escalates.                 *)
LimitEnds ==
    /\ durable = "completed" /\ pc = "down" /\ expired
    /\ durable' = "escalated"
    /\ InPrepare /\ UNCHANGED <<part, prepareOnly, pc, faults, disturbed, raced>>

(* prepareWorkspace before verification: a frozen installation, supervised.  *)
InstallStep == Install!Next /\ InInstall /\ UNCHANGED part

(* What is not a pass throws, and run's handler escalates.                   *)
Installed ==
    /\ part = "install" /\ installed # "none" /\ durable = "verifying"
    /\ IF installed = "PASS"
       THEN part' = "verify" /\ pc' = "begin" /\ Install!Renew /\ UNCHANGED durable
       ELSE durable' = "escalated" /\ UNCHANGED <<part, pc, installOnly>>
    /\ UNCHANGED <<faults, disturbed, raced, createOnly, prepareOnly, verifyOnly>>

(* A process that verifies again installs first, too, under the same         *)
(* supervision; that is not repeated here.                                   *)
VerifyStep == Verify!VerifyNext /\ InVerify /\ UNCHANGED part

Next ==
    \/ CreateStep \/ HandOver \/ PrepareStep \/ BeginVerify \/ LimitEnds \/ InstallStep
    \/ Installed \/ VerifyStep

Command ==
    \/ durable # "completed" /\ Create!Controller /\ InCreate /\ UNCHANGED part
    \/ HandOver
    \/ Prepare!Controller /\ InPrepare /\ UNCHANGED part
    \/ BeginVerify \/ LimitEnds
    \/ Install!Supervisor /\ InInstall /\ UNCHANGED part
    \/ Installed
    \/ Verify!Verifier /\ InVerify /\ UNCHANGED part

Restoration == durable # "completed" /\ Create!TargetRestored /\ InCreate /\ UNCHANGED part

(* Someone keeps running the command, a turn ends at its timeout, timers     *)
(* fire, and a moved target is put back.                                     *)
Spec == Init /\ [][Next]_vars /\ WF_vars(Command) /\ WF_vars(Restoration)

------------------------------------------------------------------------------
TypeOK ==
    CASE part = "create"  -> Create!TypeOK
      [] part = "prepare" -> Prepare!TypeOK
      [] part = "install" -> Install!TypeOK
      [] part = "verify"  -> Verify!VerifyTypeOK

(* One Worker launch at most in an attempt, see CandidatePrepare.            *)
OneLaunch == Prepare!OneLaunch

(* Creation destroys nothing that stands in its way, whoever interferes, and *)
(* completes only with its own exact clone, see WorkspaceCreate.             *)
CreationIsSafe ==
    [][CreateStep => Create!DestroysNothing /\ Create!CompletesExact]_vars

(* Commits and results of the controller are planned ones, of a Worker that  *)
(* has ended, and verification begins only on the exact published result,    *)
(* see CandidatePrepare.                                                     *)
CandidateAuthorised == [][PrepareStep => Prepare!Authorised /\ Prepare!CompletesTrue]_vars

(* Neither operation blocks after crashes alone, except where the Worker's   *)
(* outcome is unknown or its output forbidden.                               *)
NoNeedlessBlock ==
    [][ /\ CreateStep  => Create!BlocksForCause
        /\ PrepareStep => Prepare!BlocksForCause ]_vars

(* A supervised command settles in time, with nothing of its group left that *)
(* holds its output unkilled, and passes only by its own exit, see           *)
(* ProcessSupervision.                                                       *)
SupervisionIsSound == Install!SettlesInTime /\ Install!PassIsTrue

(* A container command's status is its own candidate's, and unless it is an  *)
(* error nothing of the execution is left or can appear, see                 *)
(* ContainerExecution.                                                       *)
ExecutionIsSound == Verify!Disposed /\ Verify!PassIsOwn

(* The verdict is about the commit that was inspected and tested, see        *)
(* Verification.                                                             *)
VerdictIsTrue == [][VerifyStep => Verify!PassesTrue]_vars

(* An attempt that was begun reaches a verdict, a durable block or an        *)
(* escalation, whatever crashes and outside changes there are.  Three        *)
(* exceptions: a killed configuration leaves git's lock in the temporary     *)
(* clone, which is then taken for one that can be finished; a limit is       *)
(* reached before the Worker was launched, which makes every later command   *)
(* throw; and a creation raced by outsiders completes without its clone.     *)
AttemptDecided ==
    part = "create" /\ durable \in Create!Active ~>
        \/ durable \in {"blocked", "escalated", "reviewing", "retrying"}
        \/ part = "create"  /\ temp = "locked"
        \/ part = "create"  /\ durable = "completed" /\ final # "ready" /\ raced
        \/ part = "prepare" /\ expired /\ durable \in {"none", "intent-persisted"}

(* What is published of the creation, and of the preparation, as far as it   *)
(* matters to their promises; what comes after a part finds it completed.    *)
CreationStatus ==
    CASE part # "create" -> "completed"
      [] part = "create" /\ durable \in {"intent-persisted", "clone-started", "clone-ready"} ->
           "intended"
      [] part = "create" /\ durable = "publish-started" -> "started"
      [] part = "create" /\ durable = "published" -> "done"
      [] OTHER -> durable

PreparationStatus ==
    CASE part = "create" -> "none"
      [] part \in {"install", "verify"} -> "completed"
      [] part = "prepare" /\ durable = "intent-persisted" -> "intended"
      [] part = "prepare" /\ durable \in Prepare!Uncertain -> "started"
      [] part = "prepare" /\ durable \in Prepare!Active
             /\ durable \notin Prepare!Uncertain \cup {"intent-persisted"} -> "done"
      [] part = "prepare" /\ durable = "escalated" -> IF launches = 0 THEN "none" ELSE "completed"
      [] OTHER -> durable

Created  == part = "create" => final = "ready"
Launched == part \in {"install", "verify"} \/ launches > 0

CreationRaced    == part = "create" => raced
PreparationRaced == CASE part = "create" -> FALSE [] part = "prepare" -> raced [] OTHER -> TRUE

(* The final workspace appears only after the published state says so, and   *)
(* is recorded only when it is there; the Worker is launched only after the  *)
(* published state says so, and no turn is recorded without a launch.        *)
CreationPromise ==
    INSTANCE RecoverableOperation
    WITH status <- CreationStatus, effect <- Created, raced <- CreationRaced

PreparationPromise ==
    INSTANCE RecoverableOperation
    WITH status <- PreparationStatus, effect <- Launched,
         raced <- PreparationRaced

ImplementsRecoverableOperations == CreationPromise!Spec /\ PreparationPromise!Spec
==============================================================================
