----------------------------- MODULE LeasedStore -----------------------------
(***************************************************************************)
(* The state store as the commands use it: under the mutation lease          *)
(* (openLeased in orchestrator.ts, run in reconciliation.ts, retention-apply *)
(* in cli.ts).  A command opens its store after it has acquired the lease    *)
(* and is done with it before it releases; what a reconciliation has read    *)
(* before, it loads again (Open is that load).                               *)
(*                                                                           *)
(* The store evaluates the authority fence and then writes, in two steps; a  *)
(* source-authority migration raises the fence while it holds the lease.     *)
(* StateStore takes the fence and the write for one step, and clients that   *)
(* overlap for possible.  Callers that only read (status, doctor) need no    *)
(* lease and write nothing; StateStore has them.                             *)
(***************************************************************************)
EXTENDS StateStore

CONSTANTS None, Kind, Machine, HostName, HostInstance, Pid, StartTime,
          Tolerance, MaxSkew, MaxAttempts       \* see ControllerLease

VARIABLES lease, legacyFile, legacyAlive, alive, stage, seen, attempt, recordedStart,
          skew, migrationPending, amendmentPending

leaseVars == <<lease, legacyFile, legacyAlive, alive, stage, seen, attempt,
               recordedStart, skew, migrationPending, amendmentPending>>

Lease == INSTANCE ControllerLease WITH Command <- Client, pc <- stage

ASSUME LeasedAssumption == Lease!LeaseAssumption

------------------------------------------------------------------------------
LeasedInit == Init /\ Lease!Init

Working(c) == Lease!At(c, "holding") /\ Kind[c] = "ordinary"

(* A step of a store call that writes nothing others see.                    *)
Call(c) ==
    /\ Working(c)
    /\ \/ Open(c) \/ Load(c) \/ AdoptCurrent(c) \/ FindNoRef(c) \/ ImportLegacy(c)
       \/ FindNothing(c) \/ InitializeFresh(c) \/ BeginSave(c) \/ FailMirror(c)
    /\ UNCHANGED leaseVars

(* assertSupportedStateAuthority finds the fence raised, and throws ...      *)
Refused(c) ==
    /\ Working(c) /\ fenced
    /\ RefuseFenced(c) \/ RefuseFounding(c) \/ PublishSave(c)
    /\ UNCHANGED leaseVars

(* ... or down ...                                                           *)
Pass(c) ==
    /\ Lease!FenceSave(c) /\ ~fenced /\ pc[c] \in {"saving", "mirroring"}
    /\ UNCHANGED vars

(* ... and then the ref is swapped, or the mirror renamed into place.        *)
Write(c) ==
    /\ Lease!PublishSave(c)
    /\ \/ SwapInitial(c) \/ RefuseFounding(c) \/ SwapSave(c, FALSE)
       \/ RenameMirror(c) \/ FailMirror(c)

(* The process has no store any more.                                        *)
CloseStore(c) == IF pc[c] = "closed" THEN UNCHANGED vars ELSE Crash(c)

(* Mutant: the lease is released while the store is still in use.            *)
ReleaseEarly(c) == Lease!Release(c) /\ UNCHANGED vars

(* release, in the finally clause of the command: no store call is under way.*)
Release(c) == Lease!Release(c) /\ pc[c] \in {"closed", "idle"} /\ CloseStore(c)

Die(c) == Lease!Die(c) /\ CloseStore(c)

(* A migration: from its intent on legacy controller state is refused.       *)
RaiseFence(c) ==
    /\ Lease!MigrationIntent(c)
    /\ IF fenced THEN UNCHANGED vars ELSE FenceAuthority

(* What the store has no part in.                                            *)
Apart(c) ==
    /\ \/ Lease!Start(c) \/ Lease!Acquire(c) \/ Lease!MigrationFinal(c)
       \/ Lease!AmendmentIntent(c) \/ Lease!AmendmentFinal(c)
    /\ UNCHANGED vars

Outside ==
    \/ Lease!Environment /\ UNCHANGED vars
    \/ DamageMirror /\ UNCHANGED leaseVars

LeasedNext ==
    \/ \E c \in Client :
          \/ Call(c) \/ Refused(c) \/ Pass(c) \/ Write(c)
          \/ Release(c) \/ Die(c) \/ RaiseFence(c) \/ Apart(c)
    \/ Outside

LeasedSpec == LeasedInit /\ [][LeasedNext]_<<vars, leaseVars>>

------------------------------------------------------------------------------
(* A live holder of the lease is alone with the store: no other process has  *)
(* it open, what it is about to publish extends the current generation, so   *)
(* that no swap of it is ever lost, the fence it found down is still down    *)
(* when it writes, and the mirror shows it the state it works from.          *)
LeaseProtects ==
    \A c \in Lease!LiveHolders :
        /\ \A d \in Client \ {c} : pc[d] = "closed"
        /\ pc[c] = "saving" => candidate[c].parent = Ref
        /\ stage[c] = "fenced" => ~fenced
        /\ pc[c] = "idle" /\ source[c] = "canonical" /\ held[c] = log[Ref].state =>
              mirror = log[Ref].state
==============================================================================
