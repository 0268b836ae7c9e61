------------------------ MODULE CommissioningAmendment ------------------------
(***************************************************************************)
(* Amendment of the commissioned verification schedule                       *)
(* (commissioning-amendment.ts, readers in commissioning-audit.ts).          *)
(*                                                                           *)
(* The input, the scope policy, the manifest and the ledger become one new   *)
(* generation.  A pending intent with their old and new bytes is linked into *)
(* place, each file is staged and renamed, and the intent is unlinked.  Any  *)
(* change that is not of this amendment is preserved and refused.            *)
(***************************************************************************)
EXTENDS Naturals

CONSTANTS
    Files,          \* number of files of a generation, the ledger is the last
    MaxFaults       \* bound on crashes, failing calls and outside changes

VARIABLES
    pending,        \* the pending intent
    live,           \* the files: of the prior or the next generation, or foreign
    here,           \* HEAD, branch, index and all other files are as recorded
    at, file,       \* where the process is, and at which file
    unseen,         \* history: something changed since the process last looked
    faults          \* faults so far

vars == <<pending, live, here, at, file, unseen, faults>>

File == 1 .. Files
Stage == {"down", "publish", "replace", "rename", "finalize"}

Init ==
    /\ pending = "absent" /\ live = [f \in File |-> "old"] /\ here = TRUE
    /\ at = "down" /\ file = 1 /\ unseen = FALSE /\ faults = 0

Fault == faults < MaxFaults /\ faults' = faults + 1

Goto(stage) == at' = stage

(* assertPublicationState with its intent; otherwise the command throws.     *)
PublicationState == pending = "exact" /\ here /\ \A f \in File : live[f] # "foreign"

Stop == Goto("down") /\ file' = 1

Refuse == Stop /\ UNCHANGED <<pending, live, here, unseen, faults>>

(* The audit accepts the generation, and the tree is clean.                  *)
Begin ==
    /\ at = "down" /\ pending = "absent"
    /\ here /\ \A f \in File : live[f] = "old"
    /\ unseen' = FALSE /\ Goto("publish")
    /\ UNCHANGED <<pending, live, here, file, faults>>

(* A hard link of the complete staged intent; it fails where one exists.     *)
PublishIntent ==
    /\ at = "publish"
    /\ IF pending # "absent" THEN Refuse
       ELSE /\ pending' = "exact" /\ file' = 1 /\ Goto("replace")
            /\ UNCHANGED <<live, here, unseen, faults>>

(* --resume with the same descriptor.                                        *)
Resume ==
    /\ at = "down" /\ PublicationState
    /\ file' = 1 /\ Goto("replace")
    /\ UNCHANGED <<pending, live, here, unseen, faults>>

(* Mutant: the file is replaced whatever it holds.                           *)
CheckIntentOnly ==
    /\ at = "replace" /\ file \in File
    /\ IF pending # "exact" THEN Refuse
       ELSE /\ unseen' = FALSE /\ Goto("rename")
            /\ UNCHANGED <<pending, live, here, file, faults>>

(* Before each file everything is looked at, and before the rename the file  *)
(* once more.                                                                *)
Check ==
    /\ at = "replace" /\ file \in File
    /\ IF ~PublicationState THEN Refuse
       ELSE IF live[file] = "new"
       THEN file' = file + 1 /\ UNCHANGED <<pending, live, here, at, unseen, faults>>
       ELSE /\ unseen' = FALSE /\ Goto("rename")
            /\ UNCHANGED <<pending, live, here, file, faults>>

Rename ==
    /\ at = "rename"
    /\ live' = [live EXCEPT ![file] = "new"] /\ file' = file + 1 /\ Goto("replace")
    /\ UNCHANGED <<pending, here, unseen, faults>>

CheckAll ==
    /\ at = "replace" /\ file = Files + 1
    /\ IF PublicationState /\ \A f \in File : live[f] = "new"
       THEN unseen' = FALSE /\ Goto("finalize") /\ UNCHANGED <<pending, live, here, file, faults>>
       ELSE Refuse

Finalize ==
    /\ at = "finalize"
    /\ pending' = "absent" /\ Stop
    /\ UNCHANGED <<live, here, unseen, faults>>

Controller ==
    Begin \/ PublishIntent \/ Resume \/ Check \/ Rename \/ CheckAll \/ Finalize

Crash == at # "down" /\ Fault /\ Stop /\ UNCHANGED <<pending, live, here, unseen>>

Drift ==
    /\ Fault /\ unseen' = TRUE
    /\ \/ here' = ~here /\ UNCHANGED <<pending, live>>
       \/ pending' \in {"absent", "changed"} /\ UNCHANGED <<live, here>>
       \/ \E f \in File, contents \in {"old", "foreign"} :
             live' = [live EXCEPT ![f] = contents] /\ UNCHANGED <<pending, here>>
    /\ UNCHANGED <<at, file>>

(* Someone returns to the recorded commit and takes foreign changes back.    *)
Restored ==
    /\ pending = "exact"
    /\ here' = TRUE /\ live' = [f \in File |-> IF live[f] = "foreign" THEN "old" ELSE live[f]]
    /\ <<here', live'>> # <<here, live>> /\ unseen' = TRUE
    /\ UNCHANGED <<pending, at, file, faults>>

Next == Controller \/ Crash \/ Drift \/ Restored

Spec == Init /\ [][Next]_vars
------------------------------------------------------------------------------
TypeOK ==
    /\ pending \in {"absent", "exact", "changed"}
    /\ live \in [File -> {"old", "new", "foreign"}]
    /\ here \in BOOLEAN /\ at \in Stage /\ file \in 1 .. Files + 1
    /\ unseen \in BOOLEAN /\ faults \in Nat

FileSet == INSTANCE FileSetPublication WITH fence <- pending # "absent"

(* Consumers are kept out while the generation is mixed, and nobody else's   *)
(* change is overwritten, see FileSetPublication.                            *)
ImplementsFileSet == FileSet!Spec
==============================================================================
