-------------------------- MODULE ContainerExecution --------------------------
(***************************************************************************)
(* One verification command in a disposable container                        *)
(* (createContainerCommandExecutor in container-executor.ts, with            *)
(* verification-clone.ts and container-artifacts.ts).                        *)
(*                                                                           *)
(* The executor owns a private clone of the candidate, two volumes, an       *)
(* exporter that holds them, and the candidate's container.  Every runtime   *)
(* invocation is a supervised client process: one that fails or is given up  *)
(* on may have had its effect, or have it later.  Whatever happened, all     *)
(* that may have been created is removed, and the removal proved.            *)
(***************************************************************************)
EXTENDS Naturals

CONSTANT MaxFaults      \* bound on failing calls and changes from outside

VARIABLES
    stage,      \* where the executor is
    command,    \* the verification command it executes
    candidate,  \* HEAD of the workspace
    clean,      \* the workspace has no uncommitted changes
    cloned,     \* the commit in the disposable clone
    owed,       \* resources whose creation was attempted: *CleanupRequired
    held,       \* resources that exist
    late,       \* calls given up on that the daemon may still carry out
    container,  \* the candidate's container: Absent, "created", "running" or "ended"
    ended,      \* how it ended
    cut,        \* why the executor gave up on start --attach: "no", "timeout", "limit"
    attach,     \* exit status of start --attach
    seen,       \* exit status the inspection found
    copied,     \* history: what was exported was final
    published,  \* commands whose artifacts are in the host's directories
    reported,   \* commands whose containment report exists
    failure,    \* the execution failed
    status,     \* of the command, "threw" if the executor rejected
    faults

outerVars == <<command, candidate, clean>>
daemonVars == <<held, late, container, ended>>
outcomeVars == <<cut, attach, seen, copied>>
fileVars == <<published, reported>>
executorVars == <<stage, cloned, owed, daemonVars, outcomeVars, fileVars, failure, status>>
vars == <<executorVars, outerVars, faults>>

Resource == {"clone", "staging", "workspace", "evidence", "exporter"}
Stage == {"idle", "image", "clone", "names", "workspace", "evidence", "exporter", "create",
          "policy", "start", "attached", "stop", "inspect", "late-stop", "inspect-again",
          "export", "publish", "rm-container", "rm-exporter", "rm-workspace", "rm-evidence",
          "rm-clone", "report", "returned"}
Exit == {"none", "zero", "nonzero", "forced-zero", "forced-nonzero"}

ExitsZero(e) == e \in {"zero", "forced-zero"}

Fault == faults < MaxFaults /\ faults' = faults + 1

------------------------------------------------------------------------------
(* What an execution starts from; files of earlier ones are kept.            *)
Fresh ==
    /\ cloned = "none" /\ owed = {} /\ held = {} /\ late = {}
    /\ container = "absent" /\ ended = "none"
    /\ cut = "no" /\ attach = "none" /\ seen = "none" /\ copied = FALSE
    /\ failure = FALSE /\ status = "none"

Renew ==
    /\ cloned' = "none" /\ owed' = {} /\ held' = {} /\ late' = {}
    /\ container' = "absent" /\ ended' = "none"
    /\ cut' = "no" /\ attach' = "none" /\ seen' = "none" /\ copied' = FALSE
    /\ failure' = FALSE /\ status' = "none"

Init == stage = "idle" /\ Fresh /\ published = {} /\ reported = {}

Outside == UNCHANGED outerVars

(* Something throws inside the try block: the finally block is next.         *)
Fail == failure' = TRUE /\ stage' = "rm-container"

(* An invocation that only reads.                                            *)
Look(at, next) ==
    /\ stage = at
    /\ \/ stage' = next /\ UNCHANGED <<failure, faults>>
       \/ Fault /\ Fail
    /\ UNCHANGED <<cloned, owed, daemonVars, outcomeVars, fileVars, status>> /\ Outside

InspectImage == Look("image", "clone")

(* createDisposableVerificationClone: only of a clean workspace, at its HEAD;*)
(* a failure removes it again.  The staging directory comes after it.        *)
CreateClone ==
    /\ stage = "clone"
    /\ \/ /\ clean
          /\ cloned' = candidate /\ held' = held \cup {"clone", "staging"}
          /\ owed' = owed \cup {"clone", "staging"}
          /\ stage' = "names" /\ UNCHANGED <<failure, faults>>
       \/ /\ \/ ~clean /\ UNCHANGED faults
             \/ Fault
          /\ Fail /\ UNCHANGED <<cloned, held, owed>>
    /\ UNCHANGED <<late, container, ended, outcomeVars, fileVars, status>> /\ Outside

(* The names of container and exporter must be provably unused.              *)
PreflightNames == Look("names", "workspace")

(* Creation of a resource, with the reads before and after it.  What is owed *)
(* is noted first; a failed creation may have happened, or may come late.    *)
Create(r, at, next) ==
    /\ stage = at
    /\ owed' = owed \cup {r}
    /\ \/ held' = held \cup {r} /\ stage' = next /\ UNCHANGED <<late, failure, faults>>
       \/ /\ Fault /\ Fail
          /\ \/ held' = held \cup {r} /\ UNCHANGED late
             \/ UNCHANGED held /\ late' \in {late, late \cup {r}}
    /\ UNCHANGED <<cloned, container, ended, outcomeVars, fileVars, status>> /\ Outside

CreateWorkspaceVolume == Create("workspace", "workspace", "evidence")
CreateEvidenceVolume  == Create("evidence", "evidence", "exporter")
CreateExporter        == Create("exporter", "exporter", "create")

CreateContainer ==
    /\ stage = "create"
    /\ owed' = owed \cup {"container"}
    /\ \/ container' = "created" /\ stage' = "policy" /\ UNCHANGED <<late, failure, faults>>
       \/ /\ Fault /\ Fail
          /\ \/ container' = "created" /\ UNCHANGED late
             \/ UNCHANGED container /\ late' \in {late, late \cup {"container"}}
    /\ UNCHANGED <<cloned, held, ended, outcomeVars, fileVars, status>> /\ Outside

(* parseContainerPolicyInspection: nothing runs under another policy.        *)
InspectPolicy == Look("policy", "start")

(* start --attach.  The client may not run at all, or fail after the         *)
(* container was started, or wait for a start that comes late.               *)
Start ==
    /\ stage = "start"
    /\ \/ /\ container' = "running" /\ stage' = "attached"
          /\ UNCHANGED <<attach, late, failure, faults>>
       \/ Fault /\ Fail /\ UNCHANGED <<container, attach, late>>
       \/ /\ Fault /\ attach' = "nonzero" /\ stage' = "inspect"
          /\ container' \in {"created", "running"} /\ UNCHANGED <<late, failure>>
       \/ /\ Fault /\ late' = late \cup {"start"} /\ stage' = "attached"
          /\ UNCHANGED <<container, attach, failure>>
    /\ UNCHANGED <<cloned, owed, held, ended, cut, seen, copied, fileVars, status>> /\ Outside

(* The attached client returns with the container's exit status, dies, or is *)
(* cut off at the timeout or the output limit - then the container is        *)
(* stopped, whether it had just ended or not.                                *)
AttachReturns ==
    /\ stage = "attached"
    /\ \/ /\ container = "ended" /\ attach' = IF ExitsZero(ended) THEN "zero" ELSE "nonzero"
          /\ stage' = "inspect" /\ UNCHANGED <<cut, faults>>
       \/ Fault /\ attach' = "nonzero" /\ stage' = "inspect" /\ UNCHANGED cut
       \/ cut' \in {"timeout", "limit"} /\ stage' = "stop" /\ UNCHANGED <<attach, faults>>
    /\ UNCHANGED <<cloned, owed, daemonVars, seen, copied, fileVars, failure, status>> /\ Outside

(* stop, and kill if that fails: the candidate may use the notice to exit    *)
(* zero.                                                                     *)
Halt(at, next) ==
    /\ stage = at /\ stage' = next
    /\ \/ /\ IF container = "running"
             THEN container' = "ended" /\ ended' \in {"forced-zero", "forced-nonzero"}
             ELSE UNCHANGED <<container, ended>>
          /\ UNCHANGED faults
       \/ Fault /\ UNCHANGED <<container, ended>>
    /\ UNCHANGED <<cloned, owed, held, late, outcomeVars, fileVars, failure, status>> /\ Outside

Stop     == Halt("stop", "inspect")
LateStop == Halt("late-stop", "inspect-again")

(* The container's state decides: one that never started is a failure of the *)
(* start unless it was cut off, and one that runs is stopped once more.      *)
Inspect ==
    /\ stage = "inspect"
    /\ \/ /\ stage' = IF container = "running" THEN "late-stop" ELSE "export"
          /\ container = "created" => cut # "no"
          /\ seen' = ended /\ UNCHANGED <<failure, faults>>
       \/ container = "created" /\ cut = "no" /\ Fail /\ UNCHANGED <<seen, faults>>
       \/ Fault /\ Fail /\ UNCHANGED seen
    /\ UNCHANGED <<cloned, owed, daemonVars, cut, attach, copied, fileVars, status>> /\ Outside

InspectAgain ==
    /\ stage = "inspect-again"
    /\ \/ /\ container # "running" /\ stage' = "export" /\ seen' = ended
          /\ UNCHANGED <<failure, faults>>
       \/ container = "running" /\ Fail /\ UNCHANGED <<seen, faults>>
       \/ Fault /\ Fail /\ UNCHANGED seen
    /\ UNCHANGED <<cloned, owed, daemonVars, cut, attach, copied, fileVars, status>> /\ Outside

(* The artifact preflight and the two copies out of the volumes, and their   *)
(* inventories.                                                              *)
Export ==
    /\ stage = "export"
    /\ \/ /\ stage' = "publish" /\ copied' = (container # "running")
          /\ UNCHANGED <<failure, faults>>
       \/ Fault /\ Fail /\ UNCHANGED copied
    /\ UNCHANGED <<cloned, owed, daemonVars, cut, attach, seen, fileVars, status>> /\ Outside

(* publishContainerArtifacts creates each file exclusively: one that an      *)
(* earlier execution left is an error, and a failure leaves what it wrote.   *)
Publish ==
    /\ stage = "publish"
    /\ \/ /\ command \notin published
          /\ published' = published \cup {command}
          /\ stage' = "rm-container" /\ UNCHANGED <<failure, faults>>
       \/ command \in published /\ Fail /\ UNCHANGED <<published, faults>>
       \/ Fault /\ Fail /\ published' \in {published, published \cup {command}}
    /\ UNCHANGED <<cloned, owed, daemonVars, outcomeVars, reported, status>> /\ Outside

Forget == /\ cloned' = "none" /\ ended' = "none"
          /\ cut' = "no" /\ attach' = "none" /\ seen' = "none" /\ copied' = FALSE

(* rm --force and the inspection that must find nothing.  What a failed      *)
(* execution saw is not looked at again.                                     *)
RemoveContainer ==
    /\ stage = "rm-container" /\ stage' = "rm-exporter"
    /\ IF failure THEN Forget ELSE UNCHANGED <<cloned, ended, outcomeVars>>
    /\ IF "container" \notin owed
       THEN UNCHANGED <<container, late, failure, faults>>
       ELSE \/ /\ container' = "absent" /\ late' = late \ {"start"}
               /\ UNCHANGED <<failure, faults>>
            \/ Fault /\ failure' = TRUE /\ UNCHANGED late
               /\ container' \in {container, "absent"}
    /\ UNCHANGED <<owed, held, fileVars, status>> /\ Outside

(* A volume cannot be removed while a container uses it.                     *)
InUse(r) ==
    /\ r \in {"workspace", "evidence"} /\ r \in held
    /\ container # "absent" \/ "exporter" \in held

(* Mutant: the removal is not confirmed.                                     *)
RemoveUnconfirmed(r, at, next) ==
    /\ stage = at /\ stage' = next
    /\ IF r \notin owed THEN UNCHANGED <<held, failure, faults>>
       ELSE \/ ~InUse(r) /\ held' = held \ {r} /\ UNCHANGED <<failure, faults>>
            \/ InUse(r) /\ failure' = TRUE /\ UNCHANGED <<held, faults>>
            \/ Fault /\ UNCHANGED <<held, failure>>
    /\ UNCHANGED <<cloned, owed, late, container, ended, outcomeVars, fileVars, status>> /\ Outside

Remove(r, at, next) ==
    /\ stage = at /\ stage' = next
    /\ IF r \notin owed THEN UNCHANGED <<held, failure, faults>>
       ELSE \/ ~InUse(r) /\ held' = held \ {r} /\ UNCHANGED <<failure, faults>>
            \/ InUse(r) /\ failure' = TRUE /\ UNCHANGED <<held, faults>>
            \/ Fault /\ failure' = TRUE /\ held' \in {held, held \ {r}}
    /\ UNCHANGED <<cloned, owed, late, container, ended, outcomeVars, fileVars, status>> /\ Outside

RemoveExporter        == Remove("exporter", "rm-exporter", "rm-workspace")
RemoveWorkspaceVolume == Remove("workspace", "rm-workspace", "rm-evidence")
RemoveEvidenceVolume  == Remove("evidence", "rm-evidence", "rm-clone")

(* The clone's removal is guarded, the staging directory's is not: it        *)
(* rejects the execution.                                                    *)
RemoveClone ==
    /\ stage = "rm-clone"
    /\ \/ held' = held \ {"clone", "staging"} /\ stage' = "report" /\ UNCHANGED <<failure, status, faults>>
       \/ /\ "clone" \in owed /\ Fault
          /\ \/ held' = held \ {"staging"} /\ stage' = "report" /\ failure' = TRUE /\ UNCHANGED status
             \/ held' = held \ {"clone"} /\ stage' = "returned" /\ status' = "threw" /\ UNCHANGED failure
    /\ UNCHANGED <<cloned, owed, late, container, ended, outcomeVars, fileVars>> /\ Outside

Verdict ==
    IF failure THEN "ERROR"
    ELSE IF cut = "timeout" THEN "TIMEOUT"
    ELSE IF cut = "limit" THEN "ERROR"
    ELSE IF ExitsZero(seen) /\ attach = "zero" THEN "PASS" ELSE "FAIL"

(* The containment report is created exclusively, too, and what throws here  *)
(* rejects the execution.                                                    *)
Report ==
    /\ stage = "report" /\ stage' = "returned"
    /\ \/ /\ command \notin reported /\ reported' = reported \cup {command}
          /\ status' = Verdict /\ UNCHANGED faults
       \/ command \in reported /\ status' = "threw" /\ UNCHANGED <<reported, faults>>
       \/ Fault /\ status' = "threw" /\ UNCHANGED reported
    /\ UNCHANGED <<cloned, owed, daemonVars, outcomeVars, published, failure>> /\ Outside

------------------------------------------------------------------------------
(* The candidate's own process ends; or the daemon does late what a client   *)
(* gave up on.                                                               *)
ContainerEnds ==
    /\ container = "running"
    /\ container' = "ended" /\ ended' \in {"zero", "nonzero"}
    /\ UNCHANGED <<stage, cloned, owed, held, late, outcomeVars, fileVars, failure, status, faults>>
    /\ Outside

Arrives(c) ==
    /\ c \in late /\ late' = late \ {c}
    /\ CASE c = "start"     -> container = "created" /\ container' = "running" /\ UNCHANGED held
         [] c = "container" -> container' = "created" /\ UNCHANGED held
         [] OTHER           -> held' = held \cup {c} /\ UNCHANGED container
    /\ UNCHANGED <<stage, cloned, owed, ended, outcomeVars, fileVars, failure, status, faults>>
    /\ Outside

Executor ==
    \/ InspectImage \/ CreateClone \/ PreflightNames \/ CreateWorkspaceVolume
    \/ CreateEvidenceVolume \/ CreateExporter \/ CreateContainer \/ InspectPolicy \/ Start
    \/ AttachReturns \/ Stop \/ Inspect \/ LateStop \/ InspectAgain \/ Export \/ Publish
    \/ RemoveContainer \/ RemoveExporter \/ RemoveWorkspaceVolume \/ RemoveEvidenceVolume
    \/ RemoveClone \/ Report

Daemon == ContainerEnds \/ \E c \in late : Arrives(c)

Next == Executor \/ Daemon

------------------------------------------------------------------------------
TypeOK ==
    /\ stage \in Stage /\ owed \subseteq Resource \cup {"container"} /\ held \subseteq Resource
    /\ late \subseteq Resource \cup {"container", "start"}
    /\ container \in {"absent", "created", "running", "ended"} /\ ended \in Exit
    /\ cut \in {"no", "timeout", "limit"} /\ attach \in {"none", "zero", "nonzero"}
    /\ seen \in Exit /\ copied \in BOOLEAN /\ failure \in BOOLEAN
    /\ status \in {"none", "PASS", "FAIL", "TIMEOUT", "ERROR", "threw"} /\ faults \in Nat

(* A status other than an error is proof of removal: the container, its      *)
(* volumes, the exporter and the clone are gone, and no call that was given  *)
(* up on can bring them back.                                                *)
Disposed ==
    status \in {"PASS", "FAIL", "TIMEOUT"} => container = "absent" /\ held = {} /\ late = {}

(* A pass is the candidate's own: its process ended with zero, not by a stop *)
(* or after a cut, and the artifacts were taken after its end.               *)
PassIsOwn == status = "PASS" => ended = "zero" /\ cut = "no" /\ copied
==============================================================================
