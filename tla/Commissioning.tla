----------------------------- MODULE Commissioning -----------------------------
(***************************************************************************)
(* Commissioning of a repository (commissioning.ts): one verification        *)
(* manifest is staged under a fixed temporary name, linked into place, and   *)
(* judged by the doctor.                                                     *)
(*                                                                           *)
(* The command takes no lease, so several invocations may run at once, each  *)
(* with an input of its own.  They meet in two paths: the temporary, which   *)
(* is opened exclusively but removed by whoever ends, and the manifest,      *)
(* which is never overwritten and rolled back by whoever linked it.          *)
(***************************************************************************)
EXTENDS Naturals

CONSTANTS
    Invocations,    \* number of times the command is run
    MaxFaults       \* bound on crashes, failing calls and outside changes

VARIABLES
    temporary,      \* the inode under the temporary name, 0 if none
    manifest,       \* the inode under the name of the manifest, 0 if none
    bytes,          \* how much of an inode was written
    input,          \* the input an invocation was given
    place,          \* where an invocation is
    identity,       \* the inode it expects to have published
    tidy,           \* HEAD and the rest of the tree are as committed
    meddled,        \* history: outsiders changed a published manifest ("seen"), also
                    \* behind somebody's last look at it ("unseen")
    faults          \* faults so far

local == <<bytes, input, place, identity>>
vars == <<temporary, manifest, local, tidy, meddled, faults>>

(* An invocation writes at most one inode, which has its name.               *)
Invocation == 1 .. Invocations
Foreign == Invocations + 1
Inode == 0 .. Foreign

Ended == {"idle", "passed", "failed", "died"}
Place == Ended \cup {"inspected", "staging", "writing", "staged", "validated", "identified",
                     "linking", "linked", "unlinked", "rollback", "remove",
                     "cleaning", "passing"}

Init ==
    /\ temporary = 0 /\ manifest = 0
    /\ bytes = [i \in Invocation |-> "none"]
    /\ input \in {f \in [Invocation -> {"one", "other"}] : f[1] = "one"}
    /\ place = [i \in Invocation |-> "idle"] /\ identity = [i \in Invocation |-> 0]
    /\ tidy = TRUE /\ meddled = "no" /\ faults = 0

Fault == faults < MaxFaults /\ faults' = faults + 1

Goto(i, next) == place' = [place EXCEPT ![i] = next]

(* A look at the repository, after which the invocation goes on or ends.     *)
Look(i, next) ==
    /\ Goto(i, next)
    /\ UNCHANGED <<temporary, manifest, bytes, input, identity, tidy, meddled, faults>>

(* The bytes of an inode are those the invocation derived from its input.    *)
Exact(i, inode) ==
    inode \in Invocation /\ bytes[inode] = "whole" /\ input[inode] = input[i]

------------------------------------------------------------------------------
(* inspectPreCommissioning: not commissioned, and nothing else in the tree.  *)
Inspect(i) ==
    /\ place[i] = "idle"
    /\ Look(i, IF manifest = 0 /\ temporary = 0 /\ tidy THEN "inspected" ELSE "failed")

(* A temporary found here is not touched.                                    *)
CheckTemporary(i) ==
    /\ place[i] = "inspected"
    /\ Look(i, IF temporary = 0 THEN "staging" ELSE "failed")

(* defaultWriteStagedFile opens exclusively; from here on every end passes   *)
(* through the removal of the temporary.                                     *)
OpenStaged(i) ==
    /\ place[i] = "staging"
    /\ IF temporary # 0 THEN Look(i, "cleaning")
       ELSE /\ temporary' = i /\ bytes' = [bytes EXCEPT ![i] = "part"] /\ Goto(i, "writing")
            /\ UNCHANGED <<manifest, input, identity, tidy, meddled, faults>>

WriteStaged(i) ==
    /\ place[i] = "writing"
    /\ \/ bytes' = [bytes EXCEPT ![i] = "whole"] /\ Goto(i, "staged") /\ UNCHANGED faults
       \/ Fault /\ Goto(i, "cleaning") /\ UNCHANGED bytes
    /\ UNCHANGED <<temporary, manifest, input, identity, tidy, meddled>>

(* The staged file is read again, whoever wrote it.                          *)
Validate(i) ==
    /\ place[i] = "staged"
    /\ Look(i, IF Exact(i, temporary) THEN "validated" ELSE "cleaning")

(* HEAD is the one inspected, and the temporary is all there is in the tree.  *)
Recheck(i) ==
    /\ place[i] = "validated"
    /\ Look(i, IF tidy /\ temporary # 0 /\ manifest = 0 THEN "identified" ELSE "cleaning")

(* What is about to be linked is remembered by its inode.                    *)
Identify(i) ==
    /\ place[i] = "identified"
    /\ IF temporary = 0 \/ manifest # 0 THEN Look(i, "cleaning")
       ELSE /\ identity' = [identity EXCEPT ![i] = temporary] /\ Goto(i, "linking")
            /\ UNCHANGED <<temporary, manifest, bytes, input, tidy, meddled, faults>>

(* link refuses an existing manifest.                                        *)
Link(i) ==
    /\ place[i] = "linking"
    /\ IF temporary = 0 \/ manifest # 0 THEN Look(i, "cleaning")
       ELSE /\ manifest' = temporary /\ Goto(i, "linked")
            /\ UNCHANGED <<temporary, bytes, input, identity, tidy, meddled, faults>>

(* The link is compared with what was to be linked.                          *)
UnlinkStaged(i) ==
    /\ place[i] = "linked"
    /\ IF manifest # identity[i] \/ temporary = 0 THEN Look(i, "rollback")
       ELSE /\ temporary' = 0 /\ Goto(i, "unlinked")
            /\ UNCHANGED <<manifest, bytes, input, identity, tidy, meddled, faults>>

(* The doctor validates what is published, and finds the exact bytes.        *)
Doctor(i) ==
    /\ place[i] = "unlinked"
    /\ \/ Look(i, IF Exact(i, manifest) THEN "passing" ELSE "rollback")
       \/ /\ Fault /\ Goto(i, "rollback")
          /\ UNCHANGED <<temporary, manifest, bytes, input, identity, tidy, meddled>>

------------------------------------------------------------------------------
(* Mutant: whatever is there is rolled back.                                 *)
CheckNothing(i) == place[i] = "rollback" /\ Look(i, "remove")

(* rollbackPublishedManifest: only what was linked, and only with the bytes  *)
(* that were expected.                                                       *)
CheckRollback(i) ==
    /\ place[i] = "rollback"
    /\ Look(i, IF manifest = identity[i] /\ Exact(i, manifest) THEN "remove" ELSE "cleaning")

Rollback(i) ==
    /\ place[i] = "remove"
    /\ manifest' = 0 /\ Goto(i, "cleaning")
    /\ UNCHANGED <<temporary, bytes, input, identity, tidy, meddled, faults>>

(* removeOwnedPath: the name is removed, whoever staged it.                  *)
Clean(i) ==
    /\ place[i] \in {"cleaning", "passing"}
    /\ temporary' = 0
    /\ Goto(i, IF place[i] = "passing" THEN "passed" ELSE "failed")
    /\ UNCHANGED <<manifest, bytes, input, identity, tidy, meddled, faults>>

Step(i) ==
    \/ Inspect(i) \/ CheckTemporary(i) \/ OpenStaged(i) \/ WriteStaged(i) \/ Validate(i)
    \/ Recheck(i) \/ Identify(i) \/ Link(i) \/ UnlinkStaged(i) \/ Doctor(i)
    \/ CheckRollback(i) \/ Rollback(i) \/ Clean(i)

Controller == \E i \in Invocation : Step(i)

------------------------------------------------------------------------------
Crash ==
    /\ Fault
    /\ \E i \in Invocation : place[i] \notin Ended /\ Goto(i, "died")
    /\ UNCHANGED <<temporary, manifest, bytes, input, identity, tidy, meddled>>

At(places) == \E i \in Invocation : place[i] \in places

(* Someone edits or commits, takes the temporary away, or puts a manifest of *)
(* their own into place or takes it away.                                    *)
Drift ==
    /\ Fault
    /\ \/ tidy' = ~tidy /\ UNCHANGED <<temporary, manifest, meddled>>
       \/ temporary' = 0 /\ UNCHANGED <<manifest, tidy, meddled>>
       \/ /\ manifest' \in {0, Foreign} \ {manifest}
          /\ meddled' = IF meddled = "unseen" \/ At({"remove", "passing", "passed"})
                        THEN "unseen"
                        ELSE IF At({"linked", "unlinked", "rollback"}) THEN "seen" ELSE meddled
          /\ UNCHANGED <<temporary, tidy>>
    /\ UNCHANGED local

Next == Controller \/ Crash \/ Drift

Spec == Init /\ [][Next]_vars
------------------------------------------------------------------------------
TypeOK ==
    /\ temporary \in 0 .. Invocations /\ manifest \in Inode
    /\ bytes \in [Invocation -> {"none", "part", "whole"}]
    /\ input \in [Invocation -> {"one", "other"}]
    /\ place \in [Invocation -> Place] /\ identity \in [Invocation -> 0 .. Invocations]
    /\ tidy \in BOOLEAN /\ meddled \in {"no", "seen", "unseen"} /\ faults \in Nat

Passed == {i \in Invocation : place[i] = "passed"}

(* One invocation at most reports PASS, its exact bytes are then the         *)
(* manifest, and no other invocation takes them away - unless outsiders      *)
(* changed what was published.  A manifest of theirs is neither overwritten  *)
(* nor rolled back, unless they put it behind the last look.                 *)
CommissionedOnce ==
    /\ [](meddled = "no" => \A i, j \in Passed : i = j)
    /\ [][meddled' = "no" =>
              /\ \A i \in Passed' \ Passed : Exact(i, manifest)
              /\ manifest' \notin {manifest, Foreign} => Passed' = {}]_vars
    /\ [][manifest = Foreign /\ place' # place /\ meddled # "unseen"
              => manifest' = Foreign]_vars
================================================================================
