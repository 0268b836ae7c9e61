---------------------------- MODULE OperatorCommands ----------------------------
(***************************************************************************)
(* The commands an operator runs besides the loop, in one repository:        *)
(* commissioning, then deletion of evidence, reconciliation, amendment and   *)
(* source publication.                                                       *)
(*                                                                           *)
(* Commissioning needs no lease; what it publishes is committed by hand, and *)
(* everything else needs it.                                                 *)
(* The lease lets one of them run at a time (ControllerLease), but each may  *)
(* stop half-way and leave its work pending.  What is pending decides what   *)
(* may start: the lease refuses most commands while files are published, the *)
(* state's schema keeps an operation and a reconciliation apart, and         *)
(* publication wants nothing pending at all.                                 *)
(***************************************************************************)
EXTENDS Naturals, FiniteSets

CONSTANTS
    Invocations, Deletions, Commits, Generation, Authority,     \* sizes, see the modules
    MaxFaults                                   \* bound on faults of all commands together

ASSUME OperatorAssumption ==
    /\ Invocations \in Nat /\ Deletions \in Nat /\ Commits \in Nat \ {0}
    /\ Generation \in Nat /\ Authority \in Nat /\ MaxFaults \in Nat

VARIABLES
    temporary, manifest, bytes, input, place, identity, tidy, meddled,  \* commissioning
    commissioned,                               \* the manifest is committed
    phase, done, run, journal, result, approved, cited, removal,        \* retention
    disturbed, raced,
    rec, verified, queued, step, draft, verdict, archive, range, index, report,
    head, clean, proposal, acceptable, doubt,                           \* reconciliation
    amending, generation, base, amendment, amended, amendDoubt,         \* amendment
    publishing, completed, authority, staged, trace, litter, world,     \* publication
    publication, published, publishDoubt,
    faults

commissionVars == <<temporary, manifest, bytes, input, place, identity, tidy, meddled>>
retentionVars == <<phase, done, run, journal, result, approved, cited, removal,
                   disturbed, raced>>
reconcileVars == <<rec, verified, queued, step, draft, verdict, range, index, report,
                   head, clean, proposal, acceptable, doubt>>
amendVars   == <<amending, generation, base, amendment, amended, amendDoubt>>
publishVars == <<publishing, completed, authority, staged, trace, litter, world,
                 publication, published, publishDoubt>>

(* What git sees of the tree: the files of an amendment, those of a           *)
(* publication, and all others.  (It ignores artifacts.)                     *)
amendFiles   == <<amending, generation, base>>
publishFiles == <<publishing, authority, world>>
otherFiles   == <<head, clean, proposal>>

retentionRest == <<phase, done, run, journal, result, cited, removal>>
reconcileRest == <<rec, verified, queued, step, draft, verdict, range, index, report,
                   head, proposal, acceptable>>

stateVars == <<retentionVars, reconcileVars, archive, amendVars, publishVars>>
foundation == <<commissionVars, commissioned>>
vars == <<foundation, stateVars, faults>>

Commission == INSTANCE Commissioning

Retention == INSTANCE RetentionApply WITH at <- removal, exclusive <- rec.phase # "none"

(* A blocked operation stays in the state.                                   *)
OperationPending == phase \in Retention!Active \cup {"blocked"}

Reconcile == INSTANCE Reconciliation WITH pending <- OperationPending, unseen <- doubt

Amend == INSTANCE CommissioningAmendment WITH
    Files <- Generation, pending <- amending, live <- generation, here <- base,
    at <- amendment, file <- amended, unseen <- amendDoubt

Publish == INSTANCE SourceAuthorityPublication WITH
    Files <- Authority, pending <- publishing, live <- authority, here <- world,
    idle <- ~OperationPending /\ rec.phase = "none" /\ amending = "absent",
    at <- publication, file <- published, unseen <- publishDoubt

Init ==
    /\ Commission!Init /\ commissioned = FALSE
    /\ Retention!Init /\ Reconcile!Init /\ Amend!Init /\ Publish!Init

------------------------------------------------------------------------------
Name == {"removal", "step", "amendment", "publication"}

Running == {command \in Name :
              \/ command = "removal"     /\ removal # "down"
              \/ command = "step"        /\ step # "down"
              \/ command = "amendment"   /\ amendment # "down"
              \/ command = "publication" /\ publication # "down"}

Touched == {command \in Name :
              \/ command = "removal"     /\ (phase # "none" \/ cited # {} \/ journal # 0
                                              \/ result # "missing" \/ run[1] # "exact")
              \/ command = "step"        /\ (archive # "missing" \/ verified # 0 \/ proposal # "one"
                                              \/ (head # 1 /\ generation[Generation] = "old"))
              \/ command = "amendment"   /\ (amending # "absent" \/ amendDoubt \/ ~base
                                              \/ "old" # generation[Generation])
              \/ command = "publication" /\ (trace # "absent" \/ publishDoubt)}

(* Bound: the more commands are in use, the fewer faults.                    *)
Bounded == Cardinality(Running \cup Touched) + faults <= MaxFaults + 1

(* The commissioning command, and what happens meanwhile.                    *)
Invoked == {i \in 1 .. Invocations : place[i] # "idle"}

CommissioningRuns ==
    /\ ~commissioned /\ Commission!Controller
    /\ Cardinality(Invoked') + faults' <= MaxFaults + 1
    /\ UNCHANGED <<commissioned, stateVars>>

CommissioningDisturbed ==
    /\ ~commissioned /\ (Commission!Crash \/ Commission!Drift)
    /\ Cardinality(Invoked') + faults' <= MaxFaults + 1
    /\ UNCHANGED <<commissioned, stateVars>>

(* The operator reviews and commits what an invocation reported.  (The next  *)
(* invocation is refused; what the former remember is forgotten.)            *)
Activate ==
    /\ ~commissioned /\ tidy
    /\ \E i \in Commission!Passed : Commission!Exact(i, manifest)
    /\ \A i \in 1 .. Invocations : place[i] \in Commission!Ended
    /\ commissioned' = TRUE
    /\ temporary' = 0 /\ manifest' = 0 /\ identity' = [i \in 1 .. Invocations |-> 0]
    /\ bytes' = [i \in 1 .. Invocations |-> "none"] /\ meddled' = "no"
    /\ input' = [i \in 1 .. Invocations |-> "one"]
    /\ place' = [i \in 1 .. Invocations |-> "idle"]
    /\ UNCHANGED <<tidy, stateVars, faults>>

------------------------------------------------------------------------------
(* assertActiveAuthorityPublication: none pending, and the files are those   *)
(* of the legacy authority.                                                  *)
LegacyAuthority == publishing = "absent" /\ \A file \in 1 .. Authority : authority[file] # "new"

(* ControllerLease.acquire: the command has the lease, or gets it.           *)
Leased(command, admitted) ==
    /\ commissioned /\ Running \subseteq {command}
    /\ Running = {} => admitted

Ordinary == LegacyAuthority /\ amending = "absent"

(* A command that changes files of the tree: an approval pins HEAD and every *)
(* file git sees, and a reconciliation wants them all committed.             *)
TreeChangedBy(files) ==
    /\ approved' = (approved /\ files' = files)
    /\ clean' = (clean /\ files' = files)
    /\ UNCHANGED <<retentionRest, disturbed, raced, reconcileRest, doubt>>

(* The same by someone else, who may just put back what was approved.        *)
ApprovalDisturbed(files) ==
    /\ approved' \in IF files' = files THEN {approved} ELSE {FALSE, ~approved}
    /\ disturbed' = (disturbed \/ (files' # files /\ OperationPending))
    /\ raced' = (raced \/ (files' # files /\ removal # "down"))
    /\ UNCHANGED retentionRest

TreeDisturbed(files) ==
    /\ ApprovalDisturbed(files)
    /\ clean' = (clean /\ files' = files)
    /\ doubt' = (doubt \/ (files' # files /\ step = "adopt"))
    /\ UNCHANGED reconcileRest

(* A pending intent is an untracked file.                                    *)
CleanWithoutIntent == clean' => amending = "absent" /\ publishing = "absent"

(* A state archive is of one state, so what is published outdates it.        *)
RetentionRuns ==
    /\ Leased("removal", Ordinary) /\ Retention!Controller
    /\ UNCHANGED <<foundation, reconcileVars, amendVars, publishVars>>
    /\ archive' = IF phase' # phase THEN "missing" ELSE archive
    /\ Bounded'

ReconciliationRuns ==
    /\ Leased("step", Ordinary) /\ Reconcile!Controller
    /\ UNCHANGED <<foundation, retentionVars, acceptable, amendVars, publishVars>>
    /\ Bounded'

(* A new amendment wants a clean tree; what it publishes is committed by     *)
(* hand, later.                                                              *)
AmendmentRuns ==
    /\ Leased("amendment", LegacyAuthority) /\ Amend!Controller
    /\ amendment = "down" /\ amending = "absent" => clean
    /\ TreeChangedBy(amendFiles)
    /\ UNCHANGED <<foundation, archive, publishVars>>
    /\ Bounded'

(* So does a new publication.                                                *)
PublicationRuns ==
    /\ Leased("publication", TRUE) /\ Publish!Controller
    /\ publication = "down" /\ ~Publish!Bound => clean
    /\ TreeChangedBy(publishFiles)
    /\ UNCHANGED <<foundation, archive, amendVars>>
    /\ Bounded'

(* Crashes, and what people do.  (Bounds: they plan while no command runs,   *)
(* and commit what an amendment published; other commits are faults.)        *)
RetentionDisturbed ==
    /\ commissioned /\ Retention!Environment
    /\ Retention!Plan => Running = {}
    /\ UNCHANGED <<foundation, reconcileVars, archive, amendVars, publishVars>>
    /\ Bounded'

ReconciliationDisturbed ==
    /\ commissioned /\ Reconcile!Environment
    /\ Reconcile!Committed => generation[Generation] = "new"
    /\ CleanWithoutIntent /\ ApprovalDisturbed(otherFiles)
    /\ UNCHANGED <<foundation, acceptable, amendVars, publishVars>>
    /\ Bounded'

AmendmentDisturbed ==
    /\ commissioned /\ (Amend!Crash \/ Amend!Drift \/ Amend!Restored)
    /\ TreeDisturbed(amendFiles)
    /\ UNCHANGED <<foundation, archive, publishVars>>
    /\ Bounded'

PublicationDisturbed ==
    /\ commissioned /\ (Publish!Crash \/ Publish!Drift \/ Publish!Restored)
    /\ TreeDisturbed(publishFiles)
    /\ UNCHANGED <<foundation, archive, amendVars>>
    /\ Bounded'

Next ==
    \/ CommissioningRuns \/ CommissioningDisturbed \/ Activate
    \/ RetentionRuns \/ ReconciliationRuns \/ AmendmentRuns \/ PublicationRuns
    \/ RetentionDisturbed \/ ReconciliationDisturbed
    \/ AmendmentDisturbed \/ PublicationDisturbed

PutBack ==
    \/ /\ Reconcile!Restored /\ CleanWithoutIntent /\ ApprovalDisturbed(otherFiles)
       /\ UNCHANGED <<foundation, acceptable, amendVars, publishVars>>
    \/ /\ Amend!Restored /\ TreeDisturbed(amendFiles)
       /\ UNCHANGED <<foundation, archive, publishVars>>
    \/ /\ Publish!Restored /\ TreeDisturbed(publishFiles)
       /\ UNCHANGED <<foundation, archive, amendVars>>

Command ==
    CommissioningRuns \/ RetentionRuns \/ ReconciliationRuns \/ AmendmentRuns \/ PublicationRuns

(* The command whose work is pending.                                        *)
Finish ==
    \/ amending = "exact" /\ AmendmentRuns
    \/ publishing = "exact" /\ PublicationRuns
    \/ rec.phase # "none" /\ ReconciliationRuns
    \/ phase \in Retention!Active /\ RetentionRuns

(* A command that was started runs, someone runs again the one whose work is *)
(* pending, and takes back what was changed by mistake.                      *)
Spec ==
    /\ Init /\ [][Next]_vars
    /\ WF_vars(Command) /\ SF_vars(Finish) /\ WF_vars(PutBack)

------------------------------------------------------------------------------
(* At most one commissioning passes and stays, see Commissioning.            *)
CommissionedOnce == Commission!CommissionedOnce

(* What was pending when a command stopped is never joined by a second one   *)
(* over the same state: a deletion, a reconciliation and a publication       *)
(* exclude each other, across crashes, unless someone planted a record.      *)
OneOwner ==
    /\ ~(OperationPending /\ rec.phase # "none")
    /\ publishing = "exact" => ~OperationPending /\ rec.phase = "none"

(* Evidence is removed only as approved, see RetentionApply.                 *)
RetentionAuthorised == Retention!RetentionAuthorised

(* The verified commit moves only to an approved candidate, see              *)
(* Reconciliation.                                                           *)
AdoptionAuthorised == Reconcile!AdoptionAuthorised

(* The test "invalidates pre-adoption evidence ... on clean candidate drift"  *)
(* (reconciliation.test.ts:960): supporting evidence of an adopted candidate *)
(* was made for it.  The reset keeps the benchmark and inventory of the one  *)
(* before.                                                                   *)
SupportIsExact == Reconcile!SupportIsExact

(* Both publications of files keep their consumers out while the files are   *)
(* mixed, and overwrite nobody's change, see FileSetPublication.             *)
PublishedAsFileSets == Amend!ImplementsFileSet /\ Publish!ImplementsFileSet

(* Someone planted an intent, or a publication cannot be resumed: every      *)
(* command is refused.                                                       *)
Fenced ==
    \/ amending = "changed" \/ publishing = "changed"
    \/ publishing = "exact" /\ (completed = "changed" \/ Publish!Wedged)

StatePending == phase \in Retention!Active \/ rec.phase # "none"

FilesPending == "exact" \in {amending, publishing}

(* Something happened, or an amendment changed the tree that was approved.   *)
BlockedForCause == phase = "blocked" => disturbed \/ ~approved

(* Whatever a crash leaves pending, running the commands ends it: a deletion *)
(* completes, or is blocked for a cause; a reconciliation, an amendment and  *)
(* a publication end.                                                        *)
EverySettles ==
    /\ StatePending ~> (~StatePending /\ BlockedForCause) \/ Reconcile!Wedged \/ Fenced
    /\ FilesPending ~> ~FilesPending \/ Fenced
================================================================================
