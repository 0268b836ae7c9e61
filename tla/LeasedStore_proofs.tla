-------------------------- MODULE LeasedStore_proofs --------------------------
(***************************************************************************)
(* Proofs about LeasedStore: the lease and the store, each proved by itself, *)
(* put together.  What StateStore takes for one step is one step because of  *)
(* the lease, and the store's clients come one after the other.              *)
(***************************************************************************)
EXTENDS LeasedStore, StateStore_proofs

L == INSTANCE ControllerLease_proofs WITH Command <- Client, pc <- stage

Holding == {"holding", "fenced"}

(* Only a live holder of the lease has its store open.                       *)
OpenHeld == \A c \in Client : pc[c] # "closed" => c \in alive /\ stage[c] \in Holding

(* The fence that a live holder found down is down.                          *)
FenceDown == \A c \in alive : stage[c] = "fenced" => ~fenced

(* What is about to be published extends the current generation.             *)
ParentCurrent ==
    \A c \in Client : pc[c] = "saving" /\ candidate[c].parent # 0 => candidate[c].parent = Ref

Served == OpenHeld /\ ~overlapped /\ FenceDown /\ ParentCurrent

(* The two invariants, that of the mirror, and what ties them together.      *)
LeasedInv == IInv /\ MirrorInv /\ L!IInv /\ Served

(* What the composition assumes of the clients' hosts and clocks is what the *)
(* lease assumes of its commands.                                            *)
LEMMA LeaseAssumed == L!LeaseAssumption
  BY LeasedAssumption
  DEF Lease!LeaseAssumption, Lease!NoneAssumption, Lease!KindAssumption, Lease!TimeAssumption,
      Lease!HostAssumption, Lease!SameHost, L!LeaseAssumption, L!NoneAssumption,
      L!KindAssumption, L!TimeAssumption, L!HostAssumption, L!SameHost

(* Both instances of the lease are the same protocol.                        *)
LEMMA SameActions ==
    ASSUME NEW c \in Client
    PROVE  /\ L!Start(c) <=> Lease!Start(c)
           /\ L!Acquire(c) <=> Lease!Acquire(c)
           /\ L!Work(c) <=> Lease!Work(c)
           /\ L!Release(c) <=> Lease!Release(c)
           /\ L!Die(c) <=> Lease!Die(c)
<1> USE DEF L!At, L!Goto, L!Refuse, L!Admitted, L!Held, L!fileVars, L!fenceVars,
        Lease!At, Lease!Goto, Lease!Refuse, Lease!Admitted, Lease!Held, Lease!fileVars,
        Lease!fenceVars
<1>1. /\ L!Start(c) <=> Lease!Start(c)
      /\ L!Release(c) <=> Lease!Release(c)
      /\ L!Die(c) <=> Lease!Die(c)
  BY DEF L!Start, L!Release, L!Die, Lease!Start, Lease!Release, Lease!Die
<1>2. L!Acquire(c) <=> Lease!Acquire(c)
  <2>1. /\ L!CheckAdmission(c) <=> Lease!CheckAdmission(c)
        /\ L!CheckAmendment(c) <=> Lease!CheckAmendment(c)
        /\ L!EnsureLegacyGuard(c) <=> Lease!EnsureLegacyGuard(c)
        /\ L!WriteOwner(c) <=> Lease!WriteOwner(c)
        /\ L!Observe(c) <=> Lease!Observe(c)
        /\ L!Readmit(c) <=> Lease!Readmit(c)
        /\ L!Swap(c) <=> Lease!Swap(c)
    BY DEF L!CheckAdmission, L!CheckAmendment, L!EnsureLegacyGuard, L!WriteOwner, L!Observe,
       L!Readmit, L!Swap, L!CompareAndSwap, Lease!CheckAdmission, Lease!CheckAmendment,
       Lease!EnsureLegacyGuard, Lease!WriteOwner, Lease!Observe, Lease!Readmit, Lease!Swap,
       Lease!CompareAndSwap
  <2>2. /\ L!PidUsers(c, seen[c]) = Lease!PidUsers(c, seen[c])
        /\ L!LooksAlive(c, seen[c]) <=> Lease!LooksAlive(c, seen[c])
        /\ L!SameHost(c, seen[c]) <=> Lease!SameHost(c, seen[c])
    BY DEF L!PidUsers, L!LooksAlive, L!ObservedStarts, L!Distance, L!SameHost, Lease!PidUsers,
       Lease!LooksAlive, Lease!ObservedStarts, Lease!Distance, Lease!SameHost
  <2>3. L!Probe(c) <=> Lease!Probe(c)
    BY <2>2 DEF L!Probe, Lease!Probe
  <2> QED BY <2>1, <2>3 DEF L!Acquire, Lease!Acquire
<1>3. L!Work(c) <=> Lease!Work(c)
  BY DEF L!Work, L!FenceSave, L!PublishSave, L!AmendmentIntent, L!AmendmentFinal,
     L!MigrationIntent, L!MigrationFinal, Lease!Work, Lease!FenceSave, Lease!PublishSave,
     Lease!AmendmentIntent, Lease!AmendmentFinal, Lease!MigrationIntent, Lease!MigrationFinal
<1> QED BY <1>1, <1>2, <1>3

LEMMA SameLease ==
    /\ L!Init <=> Lease!Init
    /\ [L!Next]_(L!vars) <=> [Lease!Next]_(Lease!vars)
<1>1. L!Init <=> Lease!Init
  BY DEF L!Init, Lease!Init
<1>2. L!Environment <=> Lease!Environment
  BY DEF L!Environment, L!StepClock, L!LegacyStart, L!LegacyStop, L!OperatorRemovesLegacyFile,
     L!OperatorDeletesDeadOwner, L!fileVars, L!fenceVars, Lease!Environment, Lease!StepClock,
     Lease!LegacyStart, Lease!LegacyStop, Lease!OperatorRemovesLegacyFile,
     Lease!OperatorDeletesDeadOwner, Lease!fileVars, Lease!fenceVars
<1>3. L!Next <=> Lease!Next
  BY <1>2, SameActions DEF L!Next, Lease!Next
<1> QED BY <1>1, <1>3 DEF L!vars, Lease!vars

(* Every step of the composition is a step of the lease, or leaves it alone. *)
LEMMA LeaseStep == ASSUME [LeasedNext]_<<vars, leaseVars>> PROVE [L!Next]_(L!vars)
<1>1. [Lease!Next]_(Lease!vars)
  BY DEF LeasedNext, Call, Refused, Pass, Write, Release, Die, RaiseFence, Apart, Outside,
     leaseVars, Lease!Next, Lease!Work, Lease!vars
<1> QED BY <1>1, SameLease

(* A live holder has the lease, and its store, for itself.                   *)
LEMMA HolderAlone ==
    ASSUME L!IInv, OpenHeld, NEW c \in alive, stage[c] \in Holding, NEW d \in Client, d # c
    PROVE  pc[d] = "closed" /\ ~(d \in alive /\ stage[d] \in Holding)
<1>1. ~(d \in alive /\ stage[d] \in Holding)
  BY DEF L!IInv, L!HolderOwnsRef, L!Holding, Holding
<1> QED BY <1>1 DEF OpenHeld

(* A store call is an action of the store by a live holder of the lease; the *)
(* fence is down when it writes.                                             *)
LEMMA ClientStep ==
    ASSUME TypeOK, L!IInv, Served, NEW c \in Client, Call(c) \/ Refused(c) \/ Write(c)
    PROVE  /\ Act(c) /\ fenced' = fenced /\ c \in alive /\ stage[c] \in Holding
           /\ alive' = alive /\ stage' = [stage EXCEPT ![c] = "holding"]
<1>1. stage \in [Client -> L!Stage]
  BY DEF L!IInv, L!TypeOK
<1>2. CASE Call(c)
  <2>1. Act(c) /\ fenced' = fenced
    BY <1>2 DEF Call, Act, Open, Load, AdoptCurrent, FindNoRef, ImportLegacy, FindNothing,
       InitializeFresh, BeginSave, FailMirror
  <2>2. c \in alive /\ stage[c] = "holding" /\ alive' = alive /\ stage' = stage
    BY <1>2 DEF Call, Working, Lease!At, leaseVars
  <2> QED BY <1>1, <2>1, <2>2 DEF Holding
<1>3. CASE Refused(c)
  <2>1. Act(c) /\ fenced' = fenced
    BY <1>3 DEF Refused, Act, RefuseFenced, RefuseFounding, PublishSave, SwapSave
  <2>2. c \in alive /\ stage[c] = "holding" /\ alive' = alive /\ stage' = stage
    BY <1>3 DEF Refused, Working, Lease!At, leaseVars
  <2> QED BY <1>1, <2>1, <2>2 DEF Holding
<1>4. CASE Write(c)
  <2>1. /\ c \in alive /\ stage[c] = "fenced" /\ alive' = alive
        /\ stage' = [stage EXCEPT ![c] = "holding"]
    BY <1>4 DEF Write, Lease!PublishSave, Lease!At, Lease!Goto
  <2>2. fenced = FALSE
    BY <2>1 DEF Served, FenceDown, TypeOK
  <2>3. Act(c)
    BY <1>4, <2>2 DEF Write, Act, PublishInitial, PublishSave, WriteMirror
  <2>4. fenced' = fenced
    BY <1>4 DEF Write, SwapInitial, RefuseFounding, SwapSave, RenameMirror, FailMirror
  <2> QED BY <2>1, <2>3, <2>4 DEF Holding
<1> QED BY <1>2, <1>3, <1>4

(* A command that ends or dies leaves no store behind.                       *)
LEMMA CloseStep ==
    ASSUME NEW c \in Client, CloseStore(c), TypeOK
    PROVE  /\ [Act(c)]_vars /\ pc' = [pc EXCEPT ![c] = "closed"]
           /\ UNCHANGED <<log, fenced, overlapped>>
           /\ \A d \in Client : d # c => candidate'[d] = candidate[d]
BY DEF CloseStore, Crash, Goto, Act, vars, TypeOK

(* Every step of the composition is a step of the store, or leaves it alone. *)
LEMMA StoreStep ==
    ASSUME IInv, L!IInv, Served, [LeasedNext]_<<vars, leaseVars>>
    PROVE  [Next]_vars
<1>1. ASSUME NEW c \in Client, Call(c) \/ Refused(c) \/ Write(c) PROVE Next
  BY <1>1, ClientStep DEF IInv, Act, Next
<1>2. ASSUME NEW c \in Client, Release(c) \/ Die(c) PROVE [Next]_vars
  <2>1. [Act(c)]_vars
    BY <1>2, CloseStep DEF Release, Die, IInv
  <2> QED BY <2>1 DEF Act, Next
<1>3. ASSUME NEW c \in Client, Pass(c) \/ RaiseFence(c) \/ Apart(c) PROVE [Next]_vars
  BY <1>3 DEF Pass, RaiseFence, Apart, Next
<1>4. CASE Outside
  BY <1>4 DEF Outside, Next
<1> QED BY <1>1, <1>2, <1>3, <1>4 DEF LeasedNext

(* The mirror's invariant, kept by every step of the store.                  *)
LEMMA MirrorInvNext ==
    ASSUME IInv, IInv', MirrorInv, [Next]_vars PROVE MirrorInv'
BY AloneKept, FindsNoneKept, ImportShownKept, MirrorPublishedKept, MirrorCurrentKept
DEF MirrorInv

(* A command that comes to hold the lease has no store yet; what else the    *)
(* lease does on its own moves no holder and passes no fence.                *)
LEMMA ApartStep ==
    ASSUME L!IInv, NEW c \in Client, Apart(c)
    PROVE  /\ UNCHANGED vars /\ alive \subseteq alive'
           /\ \A d \in Client : d \in alive /\ stage[d] \in Holding => stage'[d] = stage[d]
           /\ \A d \in alive' : stage'[d] = "fenced" => d \in alive /\ stage[d] = "fenced"
<1>1. UNCHANGED vars /\ stage \in [Client -> L!Stage] /\ alive \subseteq Client
  BY DEF Apart, L!IInv, L!TypeOK
<1>2. CASE Lease!Start(c)
  BY <1>1, <1>2 DEF Lease!Start, Lease!Goto, Holding
<1>3. CASE Lease!Acquire(c)
  <2>1. /\ alive' = alive /\ c \in alive /\ stage[c] \notin Holding
        /\ \E x : x # "fenced" /\ stage' = [stage EXCEPT ![c] = x]
    BY <1>3 DEF Lease!Acquire, Lease!CheckAdmission, Lease!CheckAmendment,
       Lease!EnsureLegacyGuard, Lease!WriteOwner, Lease!Observe, Lease!Probe, Lease!Readmit,
       Lease!Swap, Lease!At, Lease!Goto, Lease!Refuse, Holding
  <2> QED BY <1>1, <2>1
<1>4. CASE Lease!MigrationFinal(c) \/ Lease!AmendmentIntent(c) \/ Lease!AmendmentFinal(c)
  BY <1>1, <1>4 DEF Lease!MigrationFinal, Lease!AmendmentIntent, Lease!AmendmentFinal
<1> QED BY <1>1, <1>2, <1>3, <1>4 DEF Apart

(* A store that is about to publish was put there by this step, or was there. *)
LEMMA SavingStep ==
    ASSUME IInv, NEW c \in Client, Act(c), pc'[c] = "saving", candidate'[c].parent # 0
    PROVE  log' = log /\ candidate'[c].parent = Ref
<1>1. CASE BeginSave(c)
  <2>1. PICK next \in Proposals(c) :
            IF CheckedBy(c, next)
            THEN candidate' = [candidate EXCEPT ![c] =
                     [state |-> [next EXCEPT !.rev = @ + 1],
                      parent |-> loaded[c], imported |-> FALSE]]
            ELSE Throw(c)
    BY <1>1 DEF BeginSave
  <2>2. CheckedBy(c, next)
    <3>1. ~Throw(c)
      BY DEF Throw, Goto, IInv, TypeOK
    <3> QED BY <2>1, <3>1
  <2> QED BY <1>1, <2>1, <2>2 DEF BeginSave, CheckedBy, IInv, TypeOK
<1>2. CASE ImportLegacy(c) \/ InitializeFresh(c)
  BY <1>2 DEF ImportLegacy, InitializeFresh, Founding, IInv, TypeOK
<1>3. ASSUME ~BeginSave(c), ~ImportLegacy(c), ~InitializeFresh(c) PROVE pc'[c] # "saving"
  BY <1>3 DEF Act, Open, Load, AdoptCurrent, FindNoRef, FindNothing, PublishInitial, SwapInitial,
     WriteMirror, RenameMirror, FailMirror, PublishSave, SwapSave, Crash, RefuseFenced,
     RefuseFounding, Throw, Goto, IInv, TypeOK
<1> QED BY <1>1, <1>2, <1>3

(* The ties between lease and store are kept by every step.                  *)
LEMMA ServedNext ==
    ASSUME IInv, L!IInv, Served, [LeasedNext]_<<vars, leaseVars>>
    PROVE  Served'
<1>0. pc \in [Client -> Stages] /\ stage \in [Client -> L!Stage] /\ alive \subseteq Client
  BY DEF IInv, TypeOK, L!IInv, L!TypeOK
<1>1. ASSUME NEW c \in Client, Call(c) \/ Refused(c) \/ Write(c) PROVE Served'
  <2>1. /\ Act(c) /\ fenced' = fenced /\ c \in alive /\ stage[c] \in Holding
        /\ alive' = alive /\ stage' = [stage EXCEPT ![c] = "holding"]
    BY <1>1, ClientStep DEF IInv
  <2>2. /\ \A d \in Client \ {c} : pc'[d] = pc[d] /\ candidate'[d] = candidate[d]
        /\ Open(c) \/ overlapped' = overlapped
    BY <2>1, OthersStill DEF IInv
  <2>3. \A d \in Client \ {c} : pc[d] = "closed"
    BY <2>1, HolderAlone DEF Served
  <2>4. OpenHeld'
    BY <1>0, <2>1, <2>2, <2>3 DEF OpenHeld, Holding
  <2>5. ~overlapped'
    BY <2>2, <2>3 DEF Open, Served
  <2>6. FenceDown'
    BY <1>0, <2>1 DEF FenceDown, Served
  <2>7. ParentCurrent'
    <3>1. SUFFICES ASSUME NEW d \in Client, pc'[d] = "saving", candidate'[d].parent # 0
                   PROVE  candidate'[d].parent = Ref'
      BY DEF ParentCurrent
    <3>2. d = c
      BY <2>2, <2>3, <3>1
    <3> QED BY <2>1, <3>1, <3>2, SavingStep DEF Ref
  <2> QED BY <2>4, <2>5, <2>6, <2>7 DEF Served
<1>2. ASSUME NEW c \in Client, Release(c) \/ Die(c) PROVE Served'
  <2>1. /\ pc' = [pc EXCEPT ![c] = "closed"] /\ UNCHANGED <<log, fenced, overlapped>>
        /\ \A d \in Client : d # c => candidate'[d] = candidate[d]
    BY <1>2, CloseStep DEF Release, Die, IInv
  <2>2. /\ alive' \subseteq alive /\ alive \ {c} \subseteq alive'
        /\ stage' \in {stage, [stage EXCEPT ![c] = "ended"]}
    BY <1>2 DEF Release, Die, Lease!Release, Lease!Die, Lease!Goto
  <2>3. OpenHeld'
    BY <1>0, <2>1, <2>2 DEF OpenHeld, Served, Holding
  <2>4. FenceDown'
    BY <1>0, <2>1, <2>2 DEF FenceDown, Served
  <2>5. ParentCurrent'
    BY <1>0, <2>1 DEF ParentCurrent, Served, Ref
  <2> QED BY <2>1, <2>3, <2>4, <2>5 DEF Served
<1>3. ASSUME NEW c \in Client, Pass(c) PROVE Served'
  <2>1. /\ UNCHANGED vars /\ ~fenced /\ c \in alive /\ alive' = alive
        /\ stage' = [stage EXCEPT ![c] = "fenced"]
    BY <1>3 DEF Pass, Lease!FenceSave, Lease!At, Lease!Goto
  <2> QED
    BY <1>0, <2>1 DEF vars, Served, OpenHeld, FenceDown, ParentCurrent, Ref, Holding
<1>4. ASSUME NEW c \in Client, RaiseFence(c) PROVE Served'
  <2>1. /\ c \in alive /\ stage[c] = "holding" /\ alive' = alive /\ stage' = stage
        /\ UNCHANGED <<log, pc, candidate, overlapped>>
    BY <1>4 DEF RaiseFence, FenceAuthority, clientVars, vars, Lease!MigrationIntent, Lease!At
  <2>2. \A d \in alive : stage[d] # "fenced"
    BY <1>0, <2>1, HolderAlone DEF Served, Holding
  <2> QED
    BY <2>1, <2>2 DEF Served, OpenHeld, FenceDown, ParentCurrent, Ref
<1>5. ASSUME NEW c \in Client, Apart(c) PROVE Served'
  BY <1>0, <1>5, ApartStep
  DEF vars, Served, OpenHeld, FenceDown, ParentCurrent, Ref, Holding
<1>6. CASE Outside \/ UNCHANGED <<vars, leaseVars>>
  <2>1. /\ alive' = alive /\ stage' = stage
        /\ UNCHANGED <<log, fenced, overlapped, pc, candidate>>
    BY <1>6 DEF Outside, DamageMirror, clientVars, vars, leaseVars, Lease!Environment,
       Lease!StepClock, Lease!LegacyStart, Lease!LegacyStop, Lease!OperatorRemovesLegacyFile,
       Lease!OperatorDeletesDeadOwner
  <2> QED BY <2>1 DEF Served, OpenHeld, FenceDown, ParentCurrent, Ref
<1> QED BY <1>1, <1>2, <1>3, <1>4, <1>5, <1>6 DEF LeasedNext

(* Lease and store keep their own invariants, and what ties them.            *)
THEOREM LeasedInvariance == LeasedSpec => []LeasedInv
<1>1. LeasedInit => LeasedInv
  <2> SUFFICES ASSUME LeasedInit PROVE LeasedInv
    OBVIOUS
  <2>1. IInv
    BY InitInv DEF LeasedInit
  <2>5. L!IInv
    BY L!InitInv, LeaseAssumed, SameLease DEF LeasedInit
  <2>2. MirrorInv
    BY DEF LeasedInit, Init, MirrorInv, Alone, FindsNone, Opening, ImportShown,
       MirrorPublished, MirrorCurrent, Ref
  <2>3. Served
    BY DEF LeasedInit, Init, Lease!Init, Served, OpenHeld, FenceDown, ParentCurrent
  <2> QED BY <2>1, <2>2, <2>3, <2>5 DEF LeasedInv
<1>2. LeasedInv /\ [LeasedNext]_<<vars, leaseVars>> => LeasedInv'
  <2> SUFFICES ASSUME LeasedInv, [LeasedNext]_<<vars, leaseVars>> PROVE LeasedInv'
    OBVIOUS
  <2>1. [Next]_vars /\ [L!Next]_(L!vars)
    BY StoreStep, LeaseStep DEF LeasedInv
  <2>2. IInv'
    BY <2>1, NextInv DEF LeasedInv
  <2>5. L!IInv'
    BY <2>1, L!NextInv, LeaseAssumed DEF LeasedInv
  <2>3. MirrorInv'
    BY <2>1, <2>2, MirrorInvNext DEF LeasedInv
  <2>4. Served'
    BY ServedNext DEF LeasedInv
  <2> QED BY <2>2, <2>3, <2>4, <2>5 DEF LeasedInv
<1> QED BY <1>1, <1>2, PTL DEF LeasedSpec

(* Under the lease a holder is alone with the store, what it publishes       *)
(* extends the current generation, the fence it passed is down while it      *)
(* writes, and the mirror shows it what it works from.                       *)
THEOREM LeaseProtectsHolds == LeasedSpec => []LeaseProtects
<1>1. LeasedInv => LeaseProtects
  <2> SUFFICES ASSUME LeasedInv, NEW c \in Lease!LiveHolders
               PROVE  /\ \A d \in Client \ {c} : pc[d] = "closed"
                      /\ pc[c] = "saving" => candidate[c].parent = Ref
                      /\ stage[c] = "fenced" => ~fenced
                      /\ pc[c] = "idle" /\ source[c] = "canonical" /\ held[c] = log[Ref].state =>
                            mirror = log[Ref].state
    BY DEF LeaseProtects
  <2>1. c \in alive /\ stage[c] \in Holding /\ c \in Client
    BY DEF Lease!LiveHolders, Lease!Holding, Holding, LeasedInv, L!IInv, L!TypeOK
  <2>2. \A d \in Client \ {c} : pc[d] = "closed"
    BY <2>1, HolderAlone DEF LeasedInv, Served
  <2>3. pc[c] = "saving" => candidate[c].parent = Ref
    <3>1. pc[c] = "saving" /\ candidate[c].parent = 0 => Ref = 0
      BY <2>1 DEF LeasedInv, Served, MirrorInv, FindsNone, Opening
    <3>2. pc[c] = "saving" /\ candidate[c].parent # 0 => candidate[c].parent = Ref
      BY <2>1 DEF LeasedInv, Served, ParentCurrent
    <3> QED BY <3>1, <3>2
  <2>4. stage[c] = "fenced" => ~fenced
    BY <2>1 DEF LeasedInv, Served, FenceDown
  <2>5. source[c] = "canonical" /\ held[c] = log[Ref].state => mirror = log[Ref].state
    <3>1. source[c] = "canonical" => Ref # 0
      BY <2>1, LogTyped DEF LeasedInv, IInv, ArmedLoaded
    <3> QED BY <2>1, <3>1 DEF LeasedInv, Served, MirrorInv, MirrorCurrent
  <2> QED BY <2>2, <2>3, <2>4, <2>5
<1> QED BY <1>1, LeasedInvariance, PTL

(* The composition implements the store that takes the fence and the write   *)
(* for one step: what is proved of that store holds under the lease.         *)
THEOREM StoreServed == LeasedSpec => Spec
<1>1. LeasedInv /\ [LeasedNext]_<<vars, leaseVars>> => [Next]_vars
  BY StoreStep DEF LeasedInv
<1> QED BY <1>1, LeasedInvariance, PTL DEF LeasedSpec, LeasedInit, Spec

(* And it implements the lease: what is proved of the lease holds for the    *)
(* commands that use a store.                                                *)
THEOREM LeaseServed == LeasedSpec => Lease!Spec
<1>1. [LeasedNext]_<<vars, leaseVars>> => [Lease!Next]_(Lease!vars)
  BY LeaseStep, SameLease
<1> QED BY <1>1, PTL DEF LeasedSpec, LeasedInit, Lease!Spec

(* Under the lease no two stores are ever open at once, the mirror shows the *)
(* current state to whoever was handed it, and the history is never extended *)
(* while a source-authority migration is pending.                            *)
THEOREM OneAfterTheOther ==
    LeasedSpec => /\ []~overlapped
                  /\ [][log' # log => ~migrationPending /\ ~fenced]_<<vars, leaseVars>>
<1>1. LeasedInv => ~overlapped
  BY DEF LeasedInv, Served
<1>2. LeasedInv /\ [LeasedNext]_<<vars, leaseVars>> =>
          [log' # log => ~migrationPending /\ ~fenced]_<<vars, leaseVars>>
  <2> SUFFICES ASSUME LeasedInv, LeasedNext, log' # log PROVE ~migrationPending /\ ~fenced
    OBVIOUS
  <2>1. PICK c \in Client : Write(c)
    <3>1. ASSUME NEW c \in Client, Call(c) \/ Refused(c) PROVE log' = log
      BY <3>1 DEF Call, Refused, Open, Load, AdoptCurrent, FindNoRef, ImportLegacy, FindNothing,
         InitializeFresh, BeginSave, FailMirror, RefuseFenced, RefuseFounding, PublishSave, SwapSave
    <3>2. ASSUME NEW c \in Client, Release(c) \/ Die(c) \/ Pass(c) \/ RaiseFence(c) \/ Apart(c)
          PROVE  log' = log
      BY <3>2 DEF Release, Die, CloseStore, Crash, Pass, RaiseFence, FenceAuthority, Apart, vars
    <3>3. Outside => log' = log
      BY DEF Outside, DamageMirror, vars
    <3> QED BY <3>1, <3>2, <3>3 DEF LeasedNext
  <2>2. c \in alive /\ stage[c] = "fenced"
    BY <2>1 DEF Write, Lease!PublishSave, Lease!At
  <2> QED BY <2>2 DEF LeasedInv, L!IInv, L!FencedSettled, Served, FenceDown
<1> QED BY <1>1, <1>2, LeasedInvariance, PTL DEF LeasedSpec

==============================================================================
