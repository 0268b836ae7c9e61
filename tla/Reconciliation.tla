---------------------------- MODULE Reconciliation ----------------------------
(***************************************************************************)
(* Reconciliation of the controller with work that was done outside it       *)
(* (reconciliation.ts; phases in transitions.ts).                            *)
(*                                                                           *)
(* The target advanced without the loop.  The command archives the prior     *)
(* state, verifies and independently reviews the candidate at HEAD, adopts   *)
(* it as the verified commit and queues the next milestone.  Every phase is  *)
(* published; a command that is run again goes on from there.  A candidate   *)
(* that changed returns the record to "prepared"; any other error fails it,  *)
(* until it is adopted.                                                      *)
(***************************************************************************)
EXTENDS Naturals

CONSTANTS
    Commits,        \* number of commits after the first verified one
    MaxFaults       \* bound on crashes, failing saves and outside changes

VARIABLES
    rec,            \* the active record of the published state, or NoRecord
    verified,       \* repository.verifiedCommit
    queued,         \* next proposals that are milestones already
    step,           \* where the process is
    draft,          \* commit the process prepares a record for
    verdict,        \* decision of the review the process has in hand
    archive,        \* state.json of the controller archive
    range, index,   \* commit that commit-range.json, focused-evidence-index.json are for
    report,         \* commit and decision of reviewer-report.json
    head, clean,    \* HEAD, and whether the tree equals it
    proposal,       \* contents of the tracked next proposal
    acceptable,     \* evaluateProposal accepts it
    unseen,         \* history: something changed between the last look and adoption
    pending,        \* some other operation owns the published state
    faults          \* faults so far

files  == <<archive, range, index, report>>
memory == <<draft, verdict>>
outside == <<head, clean, proposal>>
vars == <<rec, verified, queued, step, memory, files, outside, acceptable, unseen,
          pending, faults>>

Commit == 1 .. Commits
Proposal == {"one", "two"}
NoReport == <<0, "none">>

Adopted == {"state-adopted", "queueing-next"}
Phase == {"none", "prepared", "verifying", "candidate-verified", "reviewing",
          "review-approved", "adopting"} \cup Adopted

(* index and review are the commits their evidence was made for, benchmark   *)
(* the one the supporting artifacts are bound to; 0 is null.                 *)
Record == [phase : Phase, candidate : 0 .. Commits, symbolic : BOOLEAN,
           index : 0 .. Commits, review : 0 .. Commits, decision : {"none", "approve", "reject"},
           benchmark : 0 .. Commits, next : Proposal]

NoRecord == [phase |-> "none", candidate |-> 0, symbolic |-> FALSE, index |-> 0,
             review |-> 0, decision |-> "none", benchmark |-> 0, next |-> "one"]

(* A record before anything was made for its candidate.                      *)
Prepared(candidate, symbolic, benchmark, next) ==
    [phase |-> "prepared", candidate |-> candidate, symbolic |-> symbolic, index |-> 0,
     review |-> 0, decision |-> "none", benchmark |-> benchmark, next |-> next]

Step == {"down", "capture", "prepare", "loop", "tier", "verified", "reviewer", "reviewed",
         "decide", "validate", "adopt", "queue", "drift", "reset", "failing"}

------------------------------------------------------------------------------
Init ==
    /\ rec = NoRecord /\ verified = 0 /\ queued = {} /\ step = "down"
    /\ draft = 0 /\ verdict = "none"
    /\ archive = "missing" /\ range = 0 /\ index = 0 /\ report = NoReport
    /\ head = 1 /\ clean = TRUE /\ proposal = "one" /\ acceptable \in BOOLEAN
    /\ unseen = FALSE /\ faults = 0

Fault == faults < MaxFaults /\ faults' = faults + 1

Goto(next) ==
    /\ step' = next
    /\ IF next = "down" THEN draft' = 0 /\ verdict' = "none" ELSE UNCHANGED memory

Look(next) == Goto(next) /\ UNCHANGED <<rec, verified, queued, files, unseen, faults>>

(* store.save: published or refused.  (One that fails after publishing ends   *)
(* the process, as a crash does: it holds a stale state.)                    *)
Save(record, commit, next, refused) ==
    /\ \/ rec' = record /\ verified' = commit /\ Goto(next) /\ UNCHANGED faults
       \/ Fault /\ Goto(refused) /\ UNCHANGED <<rec, verified>>
    /\ UNCHANGED <<queued, files, unseen>>

Persist(record, next) == Save(record, verified, next, "failing")

(* The record goes to the history, and with it its archive and directory:    *)
(* the next one gets its own.                                                *)
End(milestones) ==
    /\ \/ /\ rec' = NoRecord /\ queued' = milestones /\ UNCHANGED faults
          /\ archive' = "missing" /\ range' = 0 /\ index' = 0 /\ report' = NoReport
       \/ Fault /\ UNCHANGED <<rec, queued, files>>
    /\ Goto("down") /\ UNCHANGED <<verified, unseen>>

At(phases) == step = "loop" /\ rec.phase \in phases

(* candidateIdentity: the revision is HEAD, and the tree is clean.           *)
Identity(record) == clean /\ (record.symbolic \/ record.candidate = head)

(* assertCandidateUnchanged.                                                 *)
Unchanged(record) == Identity(record) /\ record.candidate = head

(* Referenced evidence is validated by its bytes.                            *)
EvidenceExact == range = rec.candidate /\ index = rec.index /\ proposal = rec.next

BoundaryExact ==
    EvidenceExact /\ archive = "exact" /\ report = <<rec.review, rec.decision>>

------------------------------------------------------------------------------
(* run, prepare: without an active record, the state is archived.  An        *)
(* archive that was cut short does not match from then on.                   *)
Begin ==
    /\ step = "down" /\ rec.phase = "none"
    /\ clean /\ archive # "torn"
    /\ \/ archive' = "exact" /\ Goto("capture") /\ UNCHANGED faults
       \/ archive = "missing" /\ Fault /\ archive' = "torn" /\ Goto("down")
    /\ UNCHANGED <<rec, verified, queued, range, index, report, unseen>>

(* createCommitRangeManifest from the verified commit to the candidate.      *)
Capture ==
    /\ step = "capture"
    /\ IF ~clean \/ head <= verified THEN Look("down")
       ELSE /\ draft' = head /\ range' = head /\ step' = "prepare"
            /\ UNCHANGED <<rec, verified, queued, verdict, archive, index, report, unseen,
                           faults>>

(* Mutant: nobody asks for a pending operation.                              *)
PrepareUnasked ==
    /\ step = "prepare"
    /\ IF ~clean \/ head # draft THEN Look("down")
       ELSE Save(Prepared(draft, FALSE, draft, proposal), verified, "loop", "down")

(* The record is published last; the schema refuses it while an operation    *)
(* is pending.                                                               *)
Prepare ==
    /\ step = "prepare"
    /\ IF ~clean \/ head # draft \/ pending THEN Look("down")
       ELSE \E symbolic \in BOOLEAN :
              Save(Prepared(draft, symbolic, draft, proposal), verified, "loop", "down")

Resume == step = "down" /\ rec.phase # "none" /\ Look("loop")

------------------------------------------------------------------------------
(* verify                                                                    *)
CheckVerify ==
    /\ At({"prepared", "verifying"})
    /\ IF ~Unchanged(rec) THEN Look("drift")
       ELSE IF rec.phase = "verifying" THEN Look("tier")
       ELSE Persist([rec EXCEPT !.phase = "verifying"], "tier")

(* The tier result is validated against the record; any error fails.         *)
RunTier ==
    /\ step = "tier"
    /\ \/ Look("failing")
       \/ /\ clean /\ head = rec.candidate
          /\ index' = head /\ Goto("verified")
          /\ UNCHANGED <<rec, verified, queued, archive, range, report, unseen, faults>>

PublishVerified ==
    /\ step = "verified"
    /\ IF ~Unchanged(rec) THEN Look("drift")
       ELSE Persist([rec EXCEPT !.phase = "candidate-verified", !.index = rec.candidate], "loop")

(* independentlyReview                                                       *)
CheckReview ==
    /\ At({"candidate-verified", "reviewing"})
    /\ IF ~Unchanged(rec) THEN Look("drift")
       ELSE IF ~EvidenceExact THEN Look("failing")
       ELSE IF rec.phase = "reviewing" THEN Look("reviewer")
       ELSE Persist([rec EXCEPT !.phase = "reviewing"], "reviewer")

Review ==
    /\ step = "reviewer"
    /\ \/ Look("failing")
       \/ /\ verdict' \in {"approve", "reject"}
          /\ report' = <<rec.candidate, verdict'>> /\ step' = "reviewed"
          /\ UNCHANGED <<rec, verified, queued, draft, archive, range, index, unseen, faults>>

PublishReview ==
    step = "reviewed" /\
    Persist([rec EXCEPT !.review = rec.candidate, !.decision = verdict], "decide")

Decide ==
    /\ step = "decide"
    /\ IF verdict = "reject" THEN Look("failing")
       ELSE IF ~Unchanged(rec) THEN Look("drift")
       ELSE Persist([rec EXCEPT !.phase = "review-approved"], "loop")

(* adopt; the evidence may be of a provider that is not eligible.            *)
CheckAdopt ==
    /\ At({"review-approved", "adopting"})
    /\ IF ~Unchanged(rec) THEN Look("drift")
       ELSE \/ Look("failing")
            \/ /\ rec.index # 0 /\ rec.decision = "approve"
               /\ IF rec.phase = "adopting" THEN Look("validate")
                  ELSE Persist([rec EXCEPT !.phase = "adopting"], "validate")

Validate ==
    /\ step = "validate"
    /\ IF ~BoundaryExact THEN Look("failing")
       ELSE IF ~Unchanged(rec) THEN Look("drift")
       ELSE /\ unseen' = FALSE /\ Goto("adopt")
            /\ UNCHANGED <<rec, verified, queued, files, faults>>

Adopt ==
    step = "adopt" /\
    Save([rec EXCEPT !.phase = "state-adopted"], rec.candidate, "loop", "failing")

(* queueNext                                                                 *)
StartQueueing ==
    /\ At(Adopted)
    /\ IF rec.phase = "queueing-next" THEN Look("queue")
       ELSE Persist([rec EXCEPT !.phase = "queueing-next"], "queue")

(* The policy is asked only now, when fail() no longer ends the record.      *)
Complete ==
    /\ step = "queue"
    /\ IF proposal # rec.next \/ rec.next \in queued \/ ~acceptable THEN Look("failing")
       ELSE End(queued \cup {rec.next})

------------------------------------------------------------------------------
(* resetForCandidateDrift: the range is rewritten for the new HEAD ...       *)
Recapture ==
    /\ step = "drift"
    /\ IF rec.phase \in Adopted \/ ~Identity(rec) \/ head <= verified THEN Look("down")
       ELSE /\ draft' = head /\ range' = head /\ step' = "reset"
            /\ UNCHANGED <<rec, verified, queued, verdict, archive, index, report, unseen,
                           faults>>

(* Mutant: the phase survives the reset.                                     *)
ResetToPhase ==
    /\ step = "reset"
    /\ IF ~clean \/ head # draft THEN Look("down")
       ELSE Save([rec EXCEPT !.candidate = draft, !.next = proposal],
                 verified, "down", "down")

(* ... and the record returns to "prepared" without its evidence; the        *)
(* supporting artifacts stay those of the first candidate.                   *)
Reset ==
    /\ step = "reset"
    /\ IF ~clean \/ head # draft THEN Look("down")
       ELSE Save(Prepared(draft, rec.symbolic, rec.benchmark, proposal),
                 verified, "down", "down")

(* fail: silent once the candidate is adopted.                               *)
Fail ==
    /\ step = "failing"
    /\ IF rec.phase \in Adopted THEN Look("down")
       ELSE End(queued)

------------------------------------------------------------------------------
Crash ==
    /\ step # "down" /\ Fault /\ Goto("down")
    /\ UNCHANGED <<rec, verified, queued, files, outside, unseen>>

(* Outsiders act; it matters between the last look and the adoption.          *)
Noticed == unseen' = (unseen \/ step = "adopt")

(* Someone commits, checks out or edits, or damages an evidence file.        *)
Drift ==
    /\ Fault /\ Noticed
    /\ \/ head' \in Commit \ {head} /\ clean' = TRUE /\ UNCHANGED <<proposal, files>>
       \/ clean' = ~clean /\ UNCHANGED <<head, proposal, files>>
       \/ proposal' \in Proposal \ {proposal} /\ UNCHANGED <<head, clean, files>>
       \/ /\ \/ archive = "exact" /\ archive' = "torn" /\ UNCHANGED <<range, index, report>>
             \/ range' = 0 /\ UNCHANGED <<archive, index, report>>
             \/ index' = 0 /\ UNCHANGED <<archive, range, report>>
             \/ report' = NoReport /\ UNCHANGED <<archive, range, index>>
          /\ UNCHANGED outside
    /\ UNCHANGED <<rec, verified, queued, step, memory>>

(* The operator commits what is in the tree.                                 *)
Committed ==
    /\ ~clean /\ head < Commits /\ Noticed
    /\ clean' = TRUE /\ head' = head + 1
    /\ UNCHANGED <<rec, verified, queued, step, memory, files, proposal, faults>>

(* The operator puts the candidate and its proposal back.                    *)
Restored ==
    /\ rec.phase # "none"
    /\ clean' = TRUE /\ head' = rec.candidate
    /\ proposal' = rec.next
    /\ outside' # outside /\ Noticed
    /\ UNCHANGED <<rec, verified, queued, step, memory, files, faults>>

Controller ==
    /\ \/ Begin \/ Capture \/ Prepare \/ Resume \/ CheckVerify \/ RunTier \/ PublishVerified
       \/ CheckReview \/ Review \/ PublishReview \/ Decide \/ CheckAdopt \/ Validate \/ Adopt
       \/ StartQueueing \/ Complete \/ Recapture \/ Reset \/ Fail
    /\ UNCHANGED outside

Environment == Crash \/ Drift \/ Committed \/ Restored

Next == (Controller \/ Environment) /\ UNCHANGED <<acceptable, pending>>

Spec == Init /\ [][Next]_vars

------------------------------------------------------------------------------
TypeOK ==
    /\ rec \in Record /\ verified \in 0 .. Commits /\ queued \subseteq Proposal
    /\ step \in Step /\ draft \in 0 .. Commits /\ verdict \in {"none", "approve", "reject"}
    /\ archive \in {"missing", "exact", "torn"} /\ range \in 0 .. Commits
    /\ index \in 0 .. Commits /\ report \in (0 .. Commits) \X {"none", "approve", "reject"}
    /\ head \in Commit /\ clean \in BOOLEAN /\ proposal \in Proposal
    /\ acceptable \in BOOLEAN /\ unseen \in BOOLEAN /\ pending \in BOOLEAN /\ faults \in Nat

Authorised ==
    /\ verified' # verified =>
          /\ rec.phase = "adopting" /\ verified' = rec.candidate /\ verified' > verified
          /\ rec.index = verified' /\ rec.review = verified' /\ rec.decision = "approve"
          /\ ~unseen => Unchanged(rec) /\ BoundaryExact
    /\ rec.phase \in Adopted =>
          /\ verified' = verified
          /\ rec'.phase \in Adopted \/ rec.next \in queued' \ queued

(* The verified commit moves only forward, to a commit that was verified and *)
(* approved as it is, with the prior state archived and HEAD and all         *)
(* evidence as recorded, unless outsiders acted since that was last looked   *)
(* at; and an adopted record only ends with its next milestone queued.       *)
AdoptionAuthorised == [][Authorised]_vars

(* Supporting evidence of an adopted candidate was made for that candidate.  *)
SupportIsExact == [][verified' # verified => rec.benchmark = verified']_vars

(* What leaves an adopted record without an end: its proposal is refused by  *)
(* the policy or is a milestone already.                                     *)
Wedged == rec.phase \in Adopted /\ (~acceptable \/ rec.next \in queued)
=============================================================================
