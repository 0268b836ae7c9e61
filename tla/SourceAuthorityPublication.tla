---------------------- MODULE SourceAuthorityPublication ----------------------
(***************************************************************************)
(* Publication of a reviewed source authority                                *)
(* (source-authority-publication.ts).                                        *)
(*                                                                           *)
(* The files of the new authority are staged, an exclusive intent is linked  *)
(* into place, each file is renamed from its staged copy between two trace   *)
(* events, a completed intent is recorded and the pending one unlinked.      *)
(* Staged copies and trace lines are written in place: one that was cut      *)
(* short is taken for foreign, or cannot be parsed, from then on.            *)
(***************************************************************************)
EXTENDS Naturals

CONSTANTS
    Files,          \* number of files of the authority
    MaxFaults       \* bound on crashes, failing calls and outside changes

VARIABLES
    pending, completed,     \* the intent, pending and completed
    live, staged,           \* the files and their staged copies
    trace,                  \* publication-events.jsonl
    litter,                 \* a temporary file of the intent was left beside it
    here,                   \* HEAD, branch, index, inputs and other files are as recorded
    idle,                   \* no operation is pending, no reconciliation active, no amendment
    at, file,               \* where the process is, and at which file
    unseen,                 \* history: something changed since the process last looked
    faults                  \* faults so far

evidence == <<completed, staged, trace, litter>>
vars == <<pending, evidence, live, here, idle, at, file, unseen, faults>>

File == 1 .. Files
Stage == {"down", "stage", "intent", "link", "observe", "replace", "traced", "rename",
          "renamed", "complete", "finalize", "unlink"}

Init ==
    /\ pending = "absent" /\ completed = "absent" /\ trace = "absent" /\ litter = FALSE
    /\ live = [f \in File |-> "old"] /\ staged = [f \in File |-> "absent"]
    /\ here = TRUE /\ at = "down" /\ file = 1 /\ unseen = FALSE /\ faults = 0

Fault == faults < MaxFaults /\ faults' = faults + 1

Goto(stage) == at' = stage

Stop == Goto("down") /\ UNCHANGED file

Refuse == Stop /\ UNCHANGED <<pending, evidence, live, unseen, faults>>

(* An event is appended, or its line is cut short.                           *)
Append(next) ==
    \/ trace' = (IF trace = "torn" THEN "torn" ELSE "whole") /\ Goto(next) /\ UNCHANGED faults
    \/ Fault /\ trace' = "torn" /\ Goto("down")

(* assertInputs: everything is as it was admitted, each file old or new, or  *)
(* all of them new.                                                          *)
Inputs(allowed) ==
    /\ idle /\ here /\ ~litter
    /\ pending # "changed" /\ completed # "changed"
    /\ \A f \in File : live[f] \in allowed

Bound == pending = "exact" \/ completed = "exact"

Boundary == Bound /\ Inputs({"old", "new"})

(* inspectSourcePublicationAdmission, before the lease and under it.         *)
Admission ==
    IF completed = "exact" THEN Inputs({"new"})
    ELSE IF pending = "exact" THEN Inputs({"old", "new"})
    ELSE Inputs({"old"}) /\ trace # "torn"

Begin ==
    /\ at = "down" /\ Admission
    /\ unseen' = FALSE /\ file' = 1
    /\ Append(IF completed = "exact" THEN "complete" ELSE "stage")
    /\ UNCHANGED <<pending, completed, staged, litter, live>>

(* durableExactFile for each file in turn.                                   *)
StageFile ==
    /\ at = "stage"
    /\ IF file > Files THEN file' = 1 /\ Goto("intent") /\ UNCHANGED <<staged, faults>>
       ELSE CASE staged[file] = "torn"  -> Goto("down") /\ UNCHANGED <<staged, file, faults>>
              [] staged[file] = "whole" -> file' = file + 1 /\ UNCHANGED <<at, staged, faults>>
              [] OTHER ->
                   \/ /\ staged' = [staged EXCEPT ![file] = "whole"]
                      /\ file' = file + 1 /\ UNCHANGED <<at, faults>>
                   \/ /\ Fault /\ staged' = [staged EXCEPT ![file] = "torn"]
                      /\ Goto("down") /\ UNCHANGED file
    /\ UNCHANGED <<pending, completed, trace, litter, live, unseen>>

BeforeIntent ==
    /\ at = "intent"
    /\ CASE pending = "exact" /\ Boundary ->
              Goto("observe") /\ UNCHANGED <<pending, evidence, live, file, unseen, faults>>
         [] ~Bound /\ Inputs({"old"}) ->
              /\ unseen' = FALSE /\ Goto("link")
              /\ UNCHANGED <<pending, evidence, live, file, faults>>
         [] OTHER -> Refuse

(* exclusiveWriteSerialized: a temporary beside the intent is linked to it   *)
(* and removed; a process that is killed leaves it.                          *)
LinkIntent ==
    /\ at = "link"
    /\ IF pending # "absent" THEN Refuse
       ELSE /\ \/ pending' = "exact" /\ Goto("observe") /\ UNCHANGED <<litter, faults>>
               \/ /\ Fault /\ litter' = TRUE /\ Goto("down")
                  /\ pending' \in {"absent", "exact"}
            /\ UNCHANGED <<completed, staged, trace, live, file, unseen>>

(* The events are parsed, and the intent's is appended if it is missing.     *)
ObserveIntent ==
    /\ at = "observe"
    /\ IF ~Boundary \/ trace = "torn" THEN Refuse
       ELSE /\ \/ Append("replace")
               \/ Goto("replace") /\ UNCHANGED <<trace, faults>>
            /\ UNCHANGED <<pending, completed, staged, litter, live, file, unseen>>

BeforeReplace ==
    /\ at = "replace" /\ file \in File
    /\ IF live[file] = "new" THEN Append("replace") /\ file' = file + 1
       ELSE IF ~Boundary THEN Stop /\ UNCHANGED <<trace, faults>>
       ELSE Append("traced") /\ UNCHANGED file
    /\ UNCHANGED <<pending, completed, staged, litter, live, unseen>>

(* Mutant: the file is replaced without another look.                        *)
RenameUnseen ==
    /\ at = "traced"
    /\ unseen' = FALSE /\ Goto("rename")
    /\ UNCHANGED <<pending, evidence, live, file, faults>>

BeforeRename ==
    /\ at = "traced"
    /\ IF ~Boundary THEN Refuse
       ELSE /\ unseen' = FALSE /\ Goto("rename")
            /\ UNCHANGED <<pending, evidence, live, file, faults>>

Rename ==
    /\ at = "rename"
    /\ live' = [live EXCEPT ![file] = "new"] /\ staged' = [staged EXCEPT ![file] = "absent"]
    /\ Append("renamed")
    /\ UNCHANGED <<pending, completed, litter, file, unseen>>

AfterRename ==
    /\ at = "renamed"
    /\ IF ~Boundary THEN Refuse
       ELSE /\ file' = file + 1 /\ Goto("replace")
            /\ UNCHANGED <<pending, evidence, live, unseen, faults>>

AfterReplace ==
    /\ at = "replace" /\ file = Files + 1
    /\ IF Bound /\ Inputs({"new"})
       THEN Goto("complete") /\ UNCHANGED <<pending, evidence, live, file, unseen, faults>>
       ELSE Refuse

RecordCompletion ==
    /\ at = "complete"
    /\ IF ~Bound \/ ~Inputs({"new"}) THEN Refuse
       ELSE /\ completed' = "exact" /\ unseen' = FALSE /\ Append("finalize")
            /\ UNCHANGED <<pending, staged, litter, live, file>>

BeforeUnlink ==
    /\ at = "finalize"
    /\ IF ~Bound \/ ~Inputs({"new"}) THEN Refuse
       ELSE /\ unseen' = FALSE /\ Goto("unlink")
            /\ UNCHANGED <<pending, evidence, live, file, faults>>

Finalize ==
    /\ at = "unlink"
    /\ pending' = "absent" /\ Append("down")
    /\ UNCHANGED <<completed, staged, litter, live, file, unseen>>

Controller ==
    /\ \/ Begin \/ StageFile \/ BeforeIntent \/ LinkIntent \/ ObserveIntent \/ BeforeReplace
       \/ BeforeRename \/ Rename \/ AfterRename \/ AfterReplace \/ RecordCompletion
       \/ BeforeUnlink \/ Finalize
    /\ UNCHANGED here

Crash ==
    /\ at # "down" /\ Fault /\ Goto("down")
    /\ UNCHANGED <<pending, evidence, live, here, file, unseen>>

Drift ==
    /\ Fault /\ unseen' = TRUE
    /\ \/ here' = ~here /\ UNCHANGED <<pending, completed, live>>
       \/ pending' \in {"absent", "changed"} /\ UNCHANGED <<here, completed, live>>
       \/ completed' \in {"absent", "changed"} /\ UNCHANGED <<here, pending, live>>
       \/ \E f \in File, contents \in {"old", "foreign"} :
             live' = [live EXCEPT ![f] = contents] /\ UNCHANGED <<here, pending, completed>>
    /\ UNCHANGED <<staged, trace, litter, at, file>>

(* Someone returns to the recorded commit and takes foreign changes back.    *)
Restored ==
    /\ Bound
    /\ here' = TRUE
    /\ live' = [f \in File |-> IF completed = "exact" THEN "new"
                               ELSE IF live[f] = "foreign" THEN "old" ELSE live[f]]
    /\ <<here', live'>> # <<here, live>> /\ unseen' = TRUE
    /\ UNCHANGED <<pending, evidence, at, file, faults>>

Next == (Controller \/ Crash \/ Drift \/ Restored) /\ UNCHANGED idle

Spec == Init /\ [][Next]_vars
------------------------------------------------------------------------------
TypeOK ==
    /\ pending \in {"absent", "exact", "changed"} /\ completed \in {"absent", "exact", "changed"}
    /\ live \in [File -> {"old", "new", "foreign"}]
    /\ staged \in [File -> {"absent", "whole", "torn"}]
    /\ trace \in {"absent", "whole", "torn"} /\ litter \in BOOLEAN
    /\ here \in BOOLEAN /\ idle \in BOOLEAN /\ at \in Stage /\ file \in 1 .. Files + 1
    /\ unseen \in BOOLEAN /\ faults \in Nat

FileSet == INSTANCE FileSetPublication WITH fence <- pending # "absent"

(* Consumers are kept out while the authority is mixed, and nobody else's    *)
(* change is overwritten, see FileSetPublication.                            *)
ImplementsFileSet == FileSet!Spec

(* What leaves a pending publication that cannot be resumed: a staged copy   *)
(* or an event that was cut short, or the intent's temporary file.           *)
Wedged == litter \/ trace = "torn" \/ \E f \in File : staged[f] = "torn"
==============================================================================
