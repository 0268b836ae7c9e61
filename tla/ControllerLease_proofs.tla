------------------------ MODULE ControllerLease_proofs ------------------------
(***************************************************************************)
(* Proofs about ControllerLease, for every fleet of commands, every number   *)
(* of machines and every pattern of deaths and pid reuse.                    *)
(***************************************************************************)
EXTENDS ControllerLease, TLAPS

(* Stages at which the command has read the ref at least once, and stages    *)
(* at which its owner blob exists.                                           *)
Judged  == {"readmission", "swap"}
Written == {"observe", "probe", "readmission", "swap"} \cup Holding
Guarded == {"owner"} \cup Written

(* A live holder is the owner the ref names.                                 *)
HolderOwnsRef == \A c \in alive : pc[c] \in Holding => lease = c

(* An owner the ref names, or that was read from it, has swapped itself in.  *)
OwnersSwapped ==
    /\ lease # None => pc[lease] \in Holding
    /\ \A c \in Command : seen[c] # None => pc[seen[c]] \in Holding \cup {"ended"}

(* The owner a command is about to replace is dead and was on its machine.   *)
JudgedDead ==
    \A c \in alive : pc[c] \in Judged /\ seen[c] # None =>
        seen[c] \notin alive /\ Machine[seen[c]] = Machine[c]

(* Owner blobs record the start time up to the steps of the clock.           *)
StartRecorded ==
    /\ \A c \in Command : pc[c] \in Written =>
          /\ recordedStart[c] >= StartTime[c]
          /\ recordedStart[c] <= StartTime[c] + MaxSkew
    /\ \A c \in Command : seen[c] # None =>
          /\ recordedStart[seen[c]] >= StartTime[seen[c]]
          /\ recordedStart[seen[c]] <= StartTime[seen[c]] + MaxSkew

(* A pid names one live process of a machine.                                *)
PidsUnique ==
    \A c, d \in alive : Machine[c] = Machine[d] /\ Pid[c] = Pid[d] => c = d

(* A fenced command saw the authority settled, and it still is.              *)
FencedSettled == \A c \in alive : pc[c] = "fenced" => ~migrationPending

(* A live legacy controller's file is what it wrote; a command past the      *)
(* guard left the guard behind.                                              *)
GuardStands ==
    /\ legacyAlive => legacyFile = "legacy"
    /\ \A c \in Command : pc[c] \in Guarded => legacyFile = "guard"

(* A command inside a round of the loop has a round left to lose.            *)
RoundsLeft ==
    \A c \in Command : pc[c] \in {"probe"} \cup Judged => attempt[c] < MaxAttempts

IInv ==
    /\ TypeOK /\ HolderOwnsRef /\ OwnersSwapped /\ JudgedDead
    /\ StartRecorded /\ PidsUnique /\ FencedSettled /\ GuardStands
    /\ RoundsLeft

USE DEF Acquiring, Holding, Stage, Judged, Written, Guarded

(* The initial states satisfy the inductive invariant.                       *)
LEMMA InitInv == ASSUME Init PROVE IInv
<1> USE LeaseAssumption
    DEF LeaseAssumption, NoneAssumption, TimeAssumption, Init
<1>1. TypeOK
  <2>1. 0 \in 0..MaxAttempts /\ 0 \in 0..MaxSkew
    OBVIOUS
  <2>2. alive \in SUBSET Command /\ pc \in [Command -> Stage]
    OBVIOUS
  <2>3. seen \in [Command -> Command \cup {None}]
    OBVIOUS
  <2>4. attempt \in [Command -> 0..MaxAttempts] /\ recordedStart \in [Command -> Int]
    BY <2>1
  <2> QED BY <2>1, <2>2, <2>3, <2>4 DEF TypeOK
<1>2. /\ HolderOwnsRef /\ OwnersSwapped /\ JudgedDead /\ PidsUnique
      /\ FencedSettled /\ GuardStands /\ RoundsLeft
  BY DEF HolderOwnsRef, OwnersSwapped, JudgedDead, PidsUnique, FencedSettled,
     GuardStands, RoundsLeft
<1>3. StartRecorded
  BY DEF StartRecorded
<1> QED BY <1>1, <1>2, <1>3 DEF IInv

(* A command that judges an owner dead is right: a live owner still has its  *)
(* pid, and the clock cannot have moved further than the tolerance.          *)
LEMMA ProbeIsSound ==
    ASSUME IInv, NEW c \in Command, At(c, "probe"), NEW o \in Command, seen[c] = o,
           SameHost(c, o), ~LooksAlive(c, o)
    PROVE  o \notin alive /\ Machine[o] = Machine[c]
<1>1. Machine[o] = Machine[c]
  BY LeaseAssumption DEF LeaseAssumption, HostAssumption
<1>2. ASSUME o \in alive PROVE FALSE
  <2>1. o \in PidUsers(c, o)
    BY <1>1, <1>2 DEF PidUsers
  <2>2. Pid[o] # Pid[c]
    BY <1>1, <1>2, LeaseAssumption
    DEF LeaseAssumption, NoneAssumption, IInv, PidsUnique, OwnersSwapped, At
  <2>3. StartTime[o] + skew \in ObservedStarts(c, o)
    BY <2>1, <2>2 DEF ObservedStarts
  <2>4. /\ recordedStart[o] \in Int /\ StartTime[o] \in Int /\ skew \in 0..MaxSkew
        /\ MaxSkew \in Nat /\ Tolerance \in Nat /\ MaxSkew <= Tolerance
        /\ recordedStart[o] >= StartTime[o]
        /\ recordedStart[o] <= StartTime[o] + MaxSkew
    BY LeaseAssumption DEF LeaseAssumption, NoneAssumption, TimeAssumption, IInv, TypeOK, StartRecorded
  <2>5. Distance(StartTime[o] + skew, recordedStart[o]) <= Tolerance
    BY <2>4 DEF Distance
  <2> QED BY <2>1, <2>3, <2>5 DEF LooksAlive
<1> QED BY <1>1, <1>2

(* Every step preserves the inductive invariant.                             *)
LEMMA NextInv == ASSUME IInv, [Next]_vars PROVE IInv'
<1> USE LeaseAssumption
    DEF LeaseAssumption, NoneAssumption, TimeAssumption, IInv, At, Goto, Refuse,
        fileVars, fenceVars
<1>0. CASE UNCHANGED vars
  BY <1>0 DEF vars, TypeOK, HolderOwnsRef, OwnersSwapped, JudgedDead,
     StartRecorded, PidsUnique, FencedSettled, GuardStands, RoundsLeft
<1>1. ASSUME NEW c \in Command, Start(c) PROVE IInv'
  BY <1>1 DEF Start, TypeOK, HolderOwnsRef, OwnersSwapped, JudgedDead,
     StartRecorded, PidsUnique, FencedSettled, GuardStands, RoundsLeft
<1>2. ASSUME NEW c \in Command, CheckAdmission(c) PROVE IInv'
  BY <1>2 DEF CheckAdmission, TypeOK, HolderOwnsRef, OwnersSwapped, JudgedDead,
     StartRecorded, PidsUnique, FencedSettled, GuardStands, RoundsLeft
<1>3. ASSUME NEW c \in Command, CheckAmendment(c) PROVE IInv'
  BY <1>3 DEF CheckAmendment, TypeOK, HolderOwnsRef, OwnersSwapped, JudgedDead,
     StartRecorded, PidsUnique, FencedSettled, GuardStands, RoundsLeft
<1>4. ASSUME NEW c \in Command, EnsureLegacyGuard(c) PROVE IInv'
  BY <1>4 DEF EnsureLegacyGuard, TypeOK, HolderOwnsRef, OwnersSwapped, JudgedDead,
     StartRecorded, PidsUnique, FencedSettled, GuardStands, RoundsLeft
<1>5. ASSUME NEW c \in Command, WriteOwner(c) PROVE IInv'
  BY <1>5 DEF WriteOwner, TypeOK, HolderOwnsRef, OwnersSwapped, JudgedDead,
     StartRecorded, PidsUnique, FencedSettled, GuardStands, RoundsLeft
<1>6. ASSUME NEW c \in Command, Observe(c) PROVE IInv'
  BY <1>6 DEF Observe, TypeOK, HolderOwnsRef, OwnersSwapped, JudgedDead,
     StartRecorded, PidsUnique, FencedSettled, GuardStands, RoundsLeft
<1>7. ASSUME NEW c \in Command, Probe(c) PROVE IInv'
  BY <1>7, ProbeIsSound DEF Probe, TypeOK, HolderOwnsRef, OwnersSwapped, JudgedDead,
     StartRecorded, PidsUnique, FencedSettled, GuardStands, RoundsLeft
<1>8. ASSUME NEW c \in Command, Readmit(c) PROVE IInv'
  BY <1>8 DEF Readmit, TypeOK, HolderOwnsRef, OwnersSwapped, JudgedDead,
     StartRecorded, PidsUnique, FencedSettled, GuardStands, RoundsLeft
<1>9. ASSUME NEW c \in Command, Swap(c) PROVE IInv'
  BY <1>9 DEF Swap, CompareAndSwap, TypeOK, HolderOwnsRef, OwnersSwapped, JudgedDead,
     StartRecorded, PidsUnique, FencedSettled, GuardStands, RoundsLeft
<1>10. ASSUME NEW c \in Command, FenceSave(c) PROVE IInv'
  BY <1>10 DEF FenceSave, TypeOK, HolderOwnsRef, OwnersSwapped, JudgedDead,
     StartRecorded, PidsUnique, FencedSettled, GuardStands, RoundsLeft
<1>11. ASSUME NEW c \in Command, PublishSave(c) PROVE IInv'
  BY <1>11 DEF PublishSave, TypeOK, HolderOwnsRef, OwnersSwapped, JudgedDead,
     StartRecorded, PidsUnique, FencedSettled, GuardStands, RoundsLeft
<1>12. ASSUME NEW c \in Command, AmendmentIntent(c) PROVE IInv'
  BY <1>12 DEF AmendmentIntent, TypeOK, HolderOwnsRef, OwnersSwapped, JudgedDead,
     StartRecorded, PidsUnique, FencedSettled, GuardStands, RoundsLeft
<1>13. ASSUME NEW c \in Command, AmendmentFinal(c) PROVE IInv'
  BY <1>13 DEF AmendmentFinal, TypeOK, HolderOwnsRef, OwnersSwapped, JudgedDead,
     StartRecorded, PidsUnique, FencedSettled, GuardStands, RoundsLeft
<1>14. ASSUME NEW c \in Command, MigrationIntent(c) PROVE IInv'
  BY <1>14 DEF MigrationIntent, Held, TypeOK, HolderOwnsRef, OwnersSwapped, JudgedDead,
     StartRecorded, PidsUnique, FencedSettled, GuardStands, RoundsLeft
<1>15. ASSUME NEW c \in Command, MigrationFinal(c) PROVE IInv'
  BY <1>15 DEF MigrationFinal, Held, TypeOK, HolderOwnsRef, OwnersSwapped, JudgedDead,
     StartRecorded, PidsUnique, FencedSettled, GuardStands, RoundsLeft
<1>16. ASSUME NEW c \in Command, Release(c) PROVE IInv'
  BY <1>16 DEF Release, TypeOK, HolderOwnsRef, OwnersSwapped, JudgedDead,
     StartRecorded, PidsUnique, FencedSettled, GuardStands, RoundsLeft
<1>17. ASSUME NEW c \in Command, Die(c) PROVE IInv'
  BY <1>17 DEF Die, TypeOK, HolderOwnsRef, OwnersSwapped, JudgedDead,
     StartRecorded, PidsUnique, FencedSettled, GuardStands, RoundsLeft
<1>18. CASE StepClock
  BY <1>18 DEF StepClock, TypeOK, HolderOwnsRef, OwnersSwapped, JudgedDead,
     StartRecorded, PidsUnique, FencedSettled, GuardStands, RoundsLeft
<1>19. CASE LegacyStart
  BY <1>19 DEF LegacyStart, TypeOK, HolderOwnsRef, OwnersSwapped, JudgedDead,
     StartRecorded, PidsUnique, FencedSettled, GuardStands, RoundsLeft
<1>20. CASE LegacyStop
  BY <1>20 DEF LegacyStop, TypeOK, HolderOwnsRef, OwnersSwapped, JudgedDead,
     StartRecorded, PidsUnique, FencedSettled, GuardStands, RoundsLeft
<1>21. CASE OperatorRemovesLegacyFile
  BY <1>21 DEF OperatorRemovesLegacyFile, TypeOK, HolderOwnsRef, OwnersSwapped, JudgedDead,
     StartRecorded, PidsUnique, FencedSettled, GuardStands, RoundsLeft
<1>22. CASE OperatorDeletesDeadOwner
  BY <1>22 DEF OperatorDeletesDeadOwner, TypeOK, HolderOwnsRef, OwnersSwapped, JudgedDead,
     StartRecorded, PidsUnique, FencedSettled, GuardStands, RoundsLeft
<1> QED
  BY <1>0, <1>1, <1>2, <1>3, <1>4, <1>5, <1>6, <1>7, <1>8, <1>9, <1>10, <1>11, <1>12, <1>13, <1>14, <1>15, <1>16, <1>17, <1>18, <1>19, <1>20, <1>21, <1>22
  DEF Next, Acquire, Work, Environment

(* The inductive invariant holds in every reachable state of the lease.      *)
THEOREM Invariance == Spec => []IInv
<1>1. Init => IInv
  BY InitInv
<1>2. IInv /\ [Next]_vars => IInv'
  BY NextInv
<1> QED BY <1>1, <1>2, PTL DEF Spec

(* Every reachable state of the lease protocol is well typed.                *)
THEOREM TypeCorrectness == Spec => []TypeOK
<1>1. IInv => TypeOK
  BY DEF IInv
<1> QED BY <1>1, Invariance, PTL

(* Two live commands never both hold the mutation right, whatever dies or is *)
(* restarted under a reused pid while they race through acquire.             *)
THEOREM MutualExclusionHolds == Spec => []MutualExclusion
<1>1. IInv => MutualExclusion
  BY DEF IInv, HolderOwnsRef, MutualExclusion, LiveHolders
<1> QED BY <1>1, Invariance, PTL

(* A legacy file-protocol controller never runs beside a live holder.        *)
THEOREM LegacyExclusionHolds == Spec => []LegacyExclusion
<1>1. IInv => LegacyExclusion
  BY DEF IInv, TypeOK, GuardStands, LegacyExclusion, LiveHolders
<1> QED BY <1>1, Invariance, PTL

(* An owner is taken out of the ref by itself, or dead and by its own machine. *)
THEOREM OwnerRemovalIsSafeHolds == Spec => OwnerRemovalIsSafe
<1> DEFINE Safe == \A d \in Command : lease = d /\ lease' # d =>
            \/ pc'[d] = "ended"
            \/ d \notin alive /\ (lease' # None => Machine[lease'] = Machine[d])
<1>1. IInv /\ [Next]_vars => [Safe]_vars
  <2> SUFFICES ASSUME IInv, Next, NEW d \in Command, lease = d, lease' # d
               PROVE  \/ pc'[d] = "ended"
                      \/ d \notin alive /\ (lease' # None => Machine[lease'] = Machine[d])
    OBVIOUS
  <2> USE LeaseAssumption DEF LeaseAssumption, NoneAssumption, IInv, TypeOK
  <2>1. \/ \E c \in Command : Swap(c) \/ Release(c)
        \/ OperatorDeletesDeadOwner
    BY DEF Next, Acquire, Work, Environment, Start, CheckAdmission, CheckAmendment,
       EnsureLegacyGuard, WriteOwner, Observe, Probe, Readmit,
       FenceSave, PublishSave, AmendmentIntent, AmendmentFinal, MigrationIntent,
       MigrationFinal, Die, StepClock, LegacyStart, LegacyStop,
       OperatorRemovesLegacyFile
  <2>2. ASSUME NEW c \in Command, Swap(c)
        PROVE  d \notin alive /\ Machine[lease'] = Machine[d]
    BY <2>2 DEF Swap, CompareAndSwap, At, JudgedDead
  <2>3. ASSUME NEW c \in Command, Release(c) PROVE pc'[d] = "ended"
    BY <2>3 DEF Release, At, Goto
  <2>4. OperatorDeletesDeadOwner => d \notin alive /\ lease' = None
    BY DEF OperatorDeletesDeadOwner
  <2> QED BY <2>1, <2>2, <2>3, <2>4
<1> QED BY <1>1, Invariance, PTL DEF Spec, OwnerRemovalIsSafe

(* No state is published between a migration's intent and its completion:    *)
(* the lease covers the gap between the fence and the swap of the state ref. *)
THEOREM NoSaveDuringMigrationHolds == Spec => NoSaveDuringMigration
<1> DEFINE Settled == \A c \in Command : PublishSave(c) => ~migrationPending
<1>1. IInv => Settled
  BY DEF IInv, FencedSettled, PublishSave, At
<1> QED BY <1>1, Invariance, PTL DEF Spec, NoSaveDuringMigration

(* A unique live holder is what the refinement mapping picks.                *)
LEMMA HolderIs ==
    /\ LiveHolders = {} => liveHolder = None
    /\ \A c \in Command : LiveHolders = {c} => liveHolder = c
BY DEF liveHolder

(* Every step is a step of the abstract lease or a stutter: the live holder  *)
(* is kept, entered by a swap on a free lease, or left by release or death.  *)
LEMMA HolderNext ==
    ASSUME IInv, IInv', [Next]_vars PROVE [Abstract!Next]_liveHolder
<1> USE LeaseAssumption DEF LeaseAssumption, NoneAssumption
<1>1. ASSUME LiveHolders' = LiveHolders PROVE liveHolder' = liveHolder
  BY <1>1 DEF liveHolder
<1>2. ASSUME NEW c \in Command, Swap(c), lease' # lease PROVE Abstract!Enter(c)
  <2>1. LiveHolders = {}
    BY <1>2 DEF Swap, CompareAndSwap, At, IInv, TypeOK, HolderOwnsRef, JudgedDead, LiveHolders
  <2>2. LiveHolders' = {c}
    BY <1>2, <2>1 DEF Swap, CompareAndSwap, At, Goto, IInv, TypeOK, LiveHolders
  <2>3. liveHolder = None
    BY <2>1 DEF liveHolder
  <2>4. liveHolder' = c
    BY <2>2 DEF liveHolder
  <2> QED BY <2>3, <2>4 DEF Abstract!Enter
<1>3. ASSUME NEW c \in LiveHolders, LiveHolders' = {} PROVE Abstract!Leave(c)
  <2>1. LiveHolders = {c} /\ c \in Command
    BY DEF IInv, TypeOK, HolderOwnsRef, LiveHolders
  <2>2. liveHolder = c
    BY <2>1 DEF liveHolder
  <2>3. liveHolder' = None
    BY <1>3 DEF liveHolder
  <2> QED BY <2>2, <2>3 DEF Abstract!Leave
<1>4. ASSUME NEW c \in Command, Release(c) \/ Die(c)
      PROVE  LiveHolders' = LiveHolders \/ (c \in LiveHolders /\ LiveHolders' = {})
  BY <1>4 DEF Release, Die, At, Goto, IInv, TypeOK, HolderOwnsRef, LiveHolders
<1>5. \/ LiveHolders' = LiveHolders
      \/ \E c \in Command : Release(c) \/ Die(c)
      \/ \E c \in Command : Swap(c) /\ lease' # lease
  <2> USE DEF IInv, TypeOK, LiveHolders, At, Goto, Refuse, fileVars, fenceVars
  <2>1. CASE UNCHANGED vars
    BY <2>1 DEF vars
  <2>2. ASSUME NEW c \in Command, Acquire(c) PROVE LiveHolders' = LiveHolders \/ (Swap(c) /\ lease' # lease)
    BY <2>2 DEF Acquire, CheckAdmission, CheckAmendment, EnsureLegacyGuard, WriteOwner,
       Observe, Probe, Readmit, Swap, CompareAndSwap, OwnersSwapped, JudgedDead
  <2>3. ASSUME NEW c \in Command, Start(c) \/ Work(c) PROVE LiveHolders' = LiveHolders
    BY <2>3 DEF Start, Work, FenceSave, PublishSave, AmendmentIntent, AmendmentFinal,
       MigrationIntent, MigrationFinal
  <2>4. CASE Environment
    BY <2>4 DEF Environment, StepClock, LegacyStart, LegacyStop,
       OperatorRemovesLegacyFile, OperatorDeletesDeadOwner
  <2> QED BY <2>1, <2>2, <2>3, <2>4 DEF Next
<1>6. LiveHolders \subseteq Command
  BY DEF IInv, TypeOK, LiveHolders
<1> QED BY <1>1, <1>2, <1>3, <1>4, <1>5, <1>6 DEF Abstract!Next

(* The lease implements the abstract exclusive controller.                   *)
THEOREM Refinement == Spec => ImplementsExclusiveController
<1>1. Init => Abstract!Init
  BY DEF Init, Abstract!Init, liveHolder, LiveHolders
<1>2. IInv /\ IInv' /\ [Next]_vars => [Abstract!Next]_liveHolder
  BY HolderNext
<1> QED BY <1>1, <1>2, Invariance, PTL
  DEF Spec, ImplementsExclusiveController, Abstract!Spec

==============================================================================
