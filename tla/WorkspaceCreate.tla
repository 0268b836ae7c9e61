--------------------------- MODULE WorkspaceCreate ---------------------------
(***************************************************************************)
(* Recoverable creation of an attempt's workspace (workspace-create.ts; the  *)
(* driver is recoverPendingWorkspaceCreate in orchestrator.ts).              *)
(*                                                                           *)
(* A standalone clone is made under a temporary name, stripped of its remote *)
(* and marked as the operation's own, and moved to its final name without    *)
(* replacing what may stand there.  Every process, the first one included,   *)
(* is driven by what it finds under the two names: it clones, finishes,      *)
(* publishes, adopts, or preserves everything with a durable block.          *)
(***************************************************************************)
EXTENDS Naturals

CONSTANT MaxFaults      \* bound on crashes, failing calls and outside changes

VARIABLES
    durable,    \* phase of the operation in the published state
    temp,       \* what is under the temporary name
    final,      \* what is under the final name
    rootSafe,   \* the workspace root is a real directory inside the repository
    target,     \* the target branch is clean at the base commit
    pc,         \* where the controller process is
    faults,     \* faults so far
    disturbed,  \* history: something but a clean crash or a failed call happened
    raced       \* history: outsiders acted while a controller process ran

entryVars   == <<temp, final>>
outsideVars == <<rootSafe, target>>
faultVars   == <<faults, disturbed, raced>>
vars == <<durable, entryVars, outsideVars, pc, faultVars>>

Active  == {"intent-persisted", "clone-started", "clone-ready", "publish-started", "published"}
Phase   == {"none"} \cup Active \cup {"completed", "blocked"}

(* "partial" is a clone that died half-way, "locked" one whose configuration *)
(* died and left git's lock behind; "foreign" is somebody else's.            *)
Entry == {"missing", "partial", "source-clone", "locked", "ready", "foreign"}

Stage == {"down", "inspect", "blocking", "clone", "target", "cloning", "finish",
          "cloned", "publish", "before-rename", "rename", "after-rename", "adopt",
          "complete", "caught"}

Rank(phase) ==
    CASE phase = "intent-persisted" -> 0 [] phase = "clone-started" -> 1
      [] phase = "clone-ready" -> 2 [] phase = "publish-started" -> 3
      [] OTHER -> 4

------------------------------------------------------------------------------
Init ==
    /\ durable = "none" /\ pc = "down"
    /\ temp = "missing" /\ final \in {"missing", "foreign"}
    /\ rootSafe = TRUE /\ target = TRUE
    /\ faults = 0 /\ disturbed = FALSE /\ raced = FALSE

Fault == faults < MaxFaults /\ faults' = faults + 1

Goto(stage) == pc' = stage

(* A step that only looks, and decides where to go.                          *)
Look(stage) == Goto(stage) /\ UNCHANGED <<durable, entryVars, outsideVars, faultVars>>

(* A call that throws for a reason outside the model.                        *)
FailedCall ==
    /\ Fault /\ Goto("caught")
    /\ UNCHANGED <<durable, entryVars, outsideVars, disturbed, raced>>

(* persist: refused, published, or published and then failing, after which   *)
(* this process can publish nothing more.                                    *)
Persist(phase, stage) ==
    /\ \/ durable' = phase /\ Goto(stage) /\ UNCHANGED faults
       \/ Fault /\ durable' = phase /\ Goto("down")
       \/ Fault /\ UNCHANGED durable /\ Goto("caught")
    /\ UNCHANGED <<entryVars, outsideVars, disturbed, raced>>

------------------------------------------------------------------------------
(* inspectWorkspaceCreateOperation, with inspectCandidate on both names.     *)
Classify ==
    CASE ~rootSafe -> "workspace-root-unsafe"
      [] rootSafe /\ "missing" \notin {temp, final} -> "ambiguous-paths"
      [] rootSafe /\ temp = "missing" /\ final # "missing" ->
           IF final = "ready" THEN "final-ready" ELSE "invalid-final-workspace"
      [] rootSafe /\ final = "missing" ->
           CASE temp = "missing" -> "missing"
             [] temp \in {"source-clone", "locked"} -> "temporary-source-clone"
             [] temp = "ready" -> "temporary-ready"
             [] OTHER -> "invalid-temporary-workspace"

Manual(class) ==
    class \in {"workspace-root-unsafe", "ambiguous-paths", "invalid-final-workspace",
               "invalid-temporary-workspace"}

------------------------------------------------------------------------------
(* beginAttempt: the operation is planned and its intent published.          *)
PublishIntent ==
    /\ pc = "down" /\ durable = "none"
    /\ Persist("intent-persisted", "inspect")

(* A later command opens the store and finds the operation.                  *)
Restart ==
    /\ pc = "down" /\ durable \in Active
    /\ raced' = FALSE
    /\ Goto("inspect")
    /\ UNCHANGED <<durable, entryVars, outsideVars, faults, disturbed>>

(* Top of the recovery loop.  A published workspace that is no longer there  *)
(* as intended is a publication conflict.                                    *)
Inspect ==
    /\ pc = "inspect"
    /\ Look(CASE Manual(Classify) -> "blocking"
              [] durable = "published" /\ Classify # "final-ready" -> "blocking"
              [] Classify = "final-ready" -> "adopt"
              [] durable # "published" /\ Classify = "missing" -> "clone"
              [] durable # "published" /\ Classify = "temporary-source-clone" -> "finish"
              [] durable # "published" /\ Classify = "temporary-ready" -> "publish")

(* advanceWorkspaceCreateTo: one phase at a time, none twice.                *)
AdvanceTo(goal, stage, next) ==
    /\ pc = stage
    /\ IF Rank(durable) >= Rank(goal) THEN Look(next)
       ELSE \E phase \in Active :
                Rank(phase) = Rank(durable) + 1 /\ Persist(phase, stage)

BeginClone   == AdvanceTo("clone-started", "clone", "target")
RecordClone  == AdvanceTo("clone-ready", "cloned", "inspect")
BeginPublish == AdvanceTo("publish-started", "publish", "before-rename")

(* Mutant: the publication of an adopted clone is never recorded.            *)
AdoptFinalSilently == AdvanceTo("publish-started", "adopt", "inspect")

AdoptFinal == AdvanceTo("published", "adopt", "complete")

(* cloneWorkspaceCreateTemporary: the target must be exact, and neither name *)
(* may be taken ...                                                          *)
BeforeClone ==
    /\ pc = "target"
    /\ Look(IF target /\ Classify = "missing" THEN "cloning" ELSE "caught")

(* ... git clone refuses a name that is taken, and cleans up when it fails,  *)
(* if it can.                                                                *)
Clone ==
    /\ pc = "cloning"
    /\ IF temp # "missing" THEN Look("caught")
       ELSE \/ temp' = "source-clone" /\ Goto("finish") /\ UNCHANGED faults
               /\ UNCHANGED <<durable, final, outsideVars, disturbed, raced>>
            \/ Fault /\ temp' \in {"missing", "partial"} /\ Goto("caught")
               /\ disturbed' = (disturbed \/ temp' = "partial")
               /\ UNCHANGED <<durable, final, outsideVars, raced>>

(* finishWorkspaceCreateTemporary: configuration, markers, remote, branch.   *)
(* Every prefix of it is still a source clone.  After a restart the phase    *)
(* clone-started is published first.                                         *)
Finish ==
    /\ pc = "finish"
    /\ IF Rank(durable) < Rank("clone-started") THEN Persist("clone-started", "finish")
       ELSE \/ /\ temp = "source-clone"
               /\ temp' = "ready" /\ Goto("cloned")
               /\ UNCHANGED <<durable, final, outsideVars, faultVars>>
            \/ temp = "ready" /\ Look("cloned")
            \/ temp \notin {"source-clone", "ready"} /\ Look("caught")
            \/ FailedCall

(* publishWorkspaceCreateTemporary: the temporary clone must be exact, and   *)
(* the only one ...                                                          *)
BeforeRename ==
    /\ pc = "before-rename"
    /\ Look(IF Classify = "temporary-ready" THEN "rename" ELSE "caught")

(* Mutant: a plain rename replaces what stands under the final name.         *)
RenameReplacing ==
    /\ pc = "rename"
    /\ \/ /\ temp # "missing"
          /\ final' = temp /\ temp' = "missing"
          /\ Goto("after-rename")
          /\ UNCHANGED <<durable, outsideVars, faultVars>>
       \/ temp = "missing" /\ Look("caught")
       \/ FailedCall

(* ... noClobberRename leaves both in place when the final name is taken ... *)
Rename ==
    /\ pc = "rename"
    /\ \/ /\ temp # "missing" /\ final = "missing"
          /\ final' = temp /\ temp' = "missing"
          /\ Goto("after-rename")
          /\ UNCHANGED <<durable, outsideVars, faultVars>>
       \/ (temp = "missing" \/ final # "missing") /\ Look("caught")
       \/ FailedCall

(* ... and what was published is inspected again.                            *)
AfterRename ==
    /\ pc = "after-rename"
    /\ Look(IF Classify = "final-ready" THEN "inspect" ELSE "caught")

(* completeWorkspaceCreateOperation: the milestone gets its workspace.       *)
Complete == pc = "complete" /\ Persist("completed", "down")

(* blockWorkspaceCreate; a published block ends the command.                 *)
Block == pc = "blocking" /\ Persist("blocked", "down")

(* The handler of the loop inspects once more: what needs a person is        *)
(* blocked, everything else is thrown.  A block that fails here is thrown.   *)
Catch ==
    /\ pc = "caught"
    /\ \/ /\ durable \in Active /\ Manual(Classify)
          /\ durable' = "blocked" /\ UNCHANGED faults
       \/ (durable \notin Active \/ ~Manual(Classify)) /\ UNCHANGED <<durable, faults>>
       \/ Fault /\ UNCHANGED durable
    /\ Goto("down")
    /\ UNCHANGED <<entryVars, outsideVars, disturbed, raced>>

------------------------------------------------------------------------------
(* The process dies between two steps, or inside git.                        *)
Crash ==
    /\ pc # "down" /\ Fault
    /\ Goto("down")
    /\ UNCHANGED <<durable, entryVars, outsideVars, disturbed, raced>>

TearClone ==
    /\ Fault /\ disturbed' = TRUE
    /\ \/ pc = "cloning" /\ temp = "missing" /\ temp' = "partial"
       \/ pc = "finish" /\ temp = "source-clone" /\ temp' = "locked"
          /\ Rank(durable) >= Rank("clone-started")
    /\ Goto("down")
    /\ UNCHANGED <<durable, final, outsideVars, raced>>

(* Someone else removes or creates an entry, moves the target, or replaces   *)
(* the workspace root by a link.                                             *)
Drift ==
    /\ Fault /\ disturbed' = TRUE /\ raced' = (raced \/ pc # "down")
    /\ \/ temp' \in {"missing", "foreign"} /\ UNCHANGED <<final, outsideVars>>
       \/ final' \in {"missing", "foreign"} /\ UNCHANGED <<temp, outsideVars>>
       \/ target' = FALSE /\ UNCHANGED <<entryVars, rootSafe>>
       \/ rootSafe' = ~rootSafe /\ UNCHANGED <<entryVars, target>>
    /\ UNCHANGED <<durable, pc>>

TargetRestored ==
    /\ ~target /\ target' = TRUE
    /\ raced' = (raced \/ pc # "down")
    /\ UNCHANGED <<durable, entryVars, rootSafe, pc, faults, disturbed>>

Controller ==
    \/ PublishIntent \/ Restart \/ Inspect \/ BeginClone \/ BeforeClone \/ Clone
    \/ Finish \/ RecordClone \/ BeginPublish \/ BeforeRename \/ Rename
    \/ AfterRename \/ AdoptFinal \/ Complete \/ Block \/ Catch

Environment == Crash \/ TearClone \/ Drift \/ TargetRestored

Next == Controller \/ Environment

Spec == Init /\ [][Next]_vars

(* Someone keeps running the command and puts the target back; nothing else  *)
(* about the environment is fair.                                            *)
FairSpec == Spec /\ WF_vars(Controller) /\ WF_vars(TargetRestored)

------------------------------------------------------------------------------
TypeOK ==
    /\ durable \in Phase /\ pc \in Stage
    /\ temp \in Entry /\ final \in Entry
    /\ rootSafe \in BOOLEAN /\ target \in BOOLEAN
    /\ faults \in Nat /\ disturbed \in BOOLEAN /\ raced \in BOOLEAN

DestroysNothing ==
    ~Drift =>
        /\ final \in {"missing", final'}
        /\ temp' # temp /\ temp # "missing" =>
              \/ temp = "source-clone" /\ temp' \in {"ready", "locked"}
              \/ temp' = "missing" /\ final = "missing" /\ final' = temp

CompletesExact ==
    ~raced /\ durable' = "completed" /\ durable # "completed" =>
        final = "ready" /\ temp = "missing" /\ rootSafe

(* Whoever interferes and however late, the controller destroys nothing: an  *)
(* entry is changed only by finishing its own clone, and leaves its name     *)
(* only for a final name that was free.  And the milestone gets its          *)
(* workspace only when the final name holds the operation's exact clone and  *)
(* no other trace of it is left, unless outsiders acted while that process   *)
(* ran.                                                                      *)
CreationIsSafe == [][DestroysNothing /\ CompletesExact]_vars

BlocksForCause ==
    durable' = "blocked" /\ durable # "blocked" => disturbed \/ final = "foreign"

(* Crashes between two steps, however many, never block a creation whose     *)
(* final name was free.                                                      *)
NoNeedlessBlock == [][BlocksForCause]_vars
==============================================================================
