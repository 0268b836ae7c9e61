--------------------------- MODULE ControllerLease ---------------------------
(***************************************************************************)
(* The repository-private mutation lease (controller-lease.ts).              *)
(*                                                                           *)
(* The lease is the Git ref refs/milestone-loop/controller-lease.  It names  *)
(* an owner blob that records host, pid and process start time.  A command   *)
(* acquires it by compare-and-swap against the object it last inspected,     *)
(* takes over only an owner it has judged dead on its own machine, and       *)
(* deletes only its own object.  A legacy file guard keeps pre-ref           *)
(* controllers out.  Two publication fences (a pending source-authority      *)
(* migration, a pending manifest amendment) refuse ordinary commands.        *)
(*                                                                           *)
(* Every owner blob carries a fresh token, so an owner object is identified  *)
(* with the command that wrote it.  A command is one process.                *)
(***************************************************************************)
EXTENDS Integers

CONSTANTS
    Command,        \* command invocations and unrelated processes
    None,           \* absent ref / unknown host instance
    Kind,           \* Command -> "ordinary" | "amend" | "migrate" | "bystander"
    Machine,        \* Command -> the physical machine it runs on
    HostName,       \* Command -> hostname()
    HostInstance,   \* Command -> machineInstanceId(), or None when unreadable
    Pid,            \* Command -> process.pid
    StartTime,      \* Command -> true start time of the process
    Tolerance,      \* PROCESS_START_TOLERANCE_MS
    MaxSkew,        \* bound on how far the wall clock is ever stepped
    MaxAttempts     \* rounds of the acquisition loop (8 in the code)

NoneAssumption == None \notin Command

KindAssumption ==
    Kind \in [Command -> {"ordinary", "amend", "migrate", "bystander"}]

TimeAssumption ==
    /\ StartTime \in [Command -> Int]
    /\ Tolerance \in Nat
    /\ MaxSkew \in Nat
    /\ MaxAttempts \in Nat \ {0}
    /\ MaxSkew <= Tolerance \* clock steps stay inside the start tolerance

(* Two commands are on the same host as far as the code can tell.            *)
SameHost(c, o) ==
    IF HostInstance[o] # None /\ HostInstance[c] # None
    THEN HostInstance[o] = HostInstance[c]
    ELSE HostName[o] = HostName[c]

(* Host identities do not collide across machines.                           *)
HostAssumption ==
    \A c, o \in Command : SameHost(c, o) => Machine[c] = Machine[o]

ASSUME LeaseAssumption ==
    NoneAssumption /\ KindAssumption /\ TimeAssumption /\ HostAssumption

VARIABLES
    lease,              \* the owner object the ref names, or None
    legacyFile,         \* content of controller.lease on disk
    legacyAlive,        \* a pre-ref controller is running
    alive,              \* the processes that are running
    pc,                 \* where each command is
    seen,               \* the object each command last read from the ref
    attempt,            \* rounds of the acquisition loop already lost
    recordedStart,      \* processStartedAt as written in the owner blob
    skew,               \* present offset of the wall clock
    migrationPending,   \* a source-authority publication is incomplete
    amendmentPending    \* a manifest amendment publication is incomplete

vars == <<lease, legacyFile, legacyAlive, alive, pc, seen, attempt,
          recordedStart, skew, migrationPending, amendmentPending>>

refVars   == <<lease>>
fileVars  == <<legacyFile, legacyAlive>>
fenceVars == <<migrationPending, amendmentPending>>

Acquiring == {"admission", "amendment", "guard", "owner", "observe", "probe",
              "readmission", "swap"}
Holding   == {"holding", "fenced"}
Stage     == {"ready", "refused", "ended"} \cup Acquiring \cup Holding

LiveHolders == {c \in alive : pc[c] \in Holding}

------------------------------------------------------------------------------
Init ==
    /\ lease = None
    /\ legacyFile = "absent"
    /\ legacyAlive = FALSE
    /\ alive = {}
    /\ pc = [c \in Command |-> "ready"]
    /\ seen = [c \in Command |-> None]
    /\ attempt = [c \in Command |-> 0]
    /\ recordedStart = [c \in Command |-> 0]
    /\ skew = 0
    /\ migrationPending = FALSE
    /\ amendmentPending = FALSE

Goto(c, stage) == pc' = [pc EXCEPT ![c] = stage]

(* Steps of a running command that is at the given stage.                    *)
At(c, stage) == c \in alive /\ pc[c] = stage

Refuse(c) ==
    /\ Goto(c, "refused")
    /\ UNCHANGED <<seen, attempt, recordedStart>>

(* The authority half of admission: ordinary commands and amendments need a  *)
(* settled publication; a migration is admitted by its own request.          *)
Admitted(c) == Kind[c] = "migrate" \/ ~migrationPending

------------------------------------------------------------------------------
(* A process starts; the system reuses a pid only after its process is gone. *)
Start(c) ==
    /\ pc[c] = "ready"
    /\ c \notin alive
    /\ \A d \in Command : Machine[d] = Machine[c] /\ Pid[d] = Pid[c] =>
          d \notin alive /\ (pc[d] # "ready" => StartTime[d] <= StartTime[c])
    /\ alive' = alive \cup {c}
    /\ Goto(c, IF Kind[c] = "bystander" THEN "ended" ELSE "admission")
    /\ UNCHANGED <<lease, fileVars, seen, attempt, recordedStart, skew, fenceVars>>

(* First call of assertAdmission, before anything is written.                *)
CheckAdmission(c) ==
    /\ At(c, "admission")
    /\ \/ /\ Admitted(c)
          /\ Goto(c, IF Kind[c] = "ordinary" THEN "amendment" ELSE "guard")
          /\ UNCHANGED <<seen, attempt, recordedStart>>
       \/ ~Admitted(c) /\ Refuse(c)
    /\ UNCHANGED <<lease, fileVars, alive, skew, fenceVars>>

(* assertNoPendingAmendment: only ordinary commands, and only here.          *)
CheckAmendment(c) ==
    /\ At(c, "amendment")
    /\ \/ /\ ~migrationPending /\ ~amendmentPending
          /\ Goto(c, "guard")
          /\ UNCHANGED <<seen, attempt, recordedStart>>
       \/ (migrationPending \/ amendmentPending) /\ Refuse(c)
    /\ UNCHANGED <<lease, fileVars, alive, skew, fenceVars>>

(* Mutant: the guard file is written over whatever is there.                 *)
EnsureLegacyGuardByForce(c) ==
    /\ At(c, "guard")
    /\ legacyFile' = "guard"
    /\ Goto(c, "owner")
    /\ UNCHANGED <<lease, legacyAlive, alive, seen, attempt, recordedStart, skew, fenceVars>>

(* ensureLegacyGuard: exclusive create, or the existing file is the guard.   *)
EnsureLegacyGuard(c) ==
    /\ At(c, "guard")
    /\ \/ /\ legacyFile \in {"absent", "guard"}
          /\ legacyFile' = "guard"
          /\ Goto(c, "owner")
          /\ UNCHANGED <<seen, attempt, recordedStart>>
       \/ legacyFile = "legacy" /\ Refuse(c) /\ UNCHANGED legacyFile
    /\ UNCHANGED <<lease, legacyAlive, alive, skew, fenceVars>>

(* The owner blob is written once; its start time is now minus uptime.       *)
WriteOwner(c) ==
    /\ At(c, "owner")
    /\ recordedStart' = [recordedStart EXCEPT ![c] = StartTime[c] + skew]
    /\ Goto(c, "observe")
    /\ UNCHANGED <<lease, fileVars, alive, seen, attempt, skew, fenceVars>>

(* Mutant: the acquisition loop does not count its rounds.                   *)
ObserveForEver(c) ==
    /\ At(c, "observe")
    /\ \/ /\ legacyFile = "guard"
          /\ seen' = [seen EXCEPT ![c] = lease]
          /\ Goto(c, "probe")
          /\ UNCHANGED <<attempt, recordedStart>>
       \/ legacyFile # "guard" /\ Refuse(c)
    /\ UNCHANGED <<lease, fileVars, alive, skew, fenceVars>>

(* Top of the loop: the guard must still be there, then the ref is read.     *)
Observe(c) ==
    /\ At(c, "observe")
    /\ \/ /\ legacyFile = "guard" /\ attempt[c] < MaxAttempts
          /\ seen' = [seen EXCEPT ![c] = lease]
          /\ Goto(c, "probe")
          /\ UNCHANGED <<attempt, recordedStart>>
       \/ (legacyFile # "guard" \/ attempt[c] >= MaxAttempts) /\ Refuse(c)
    /\ UNCHANGED <<lease, fileVars, alive, skew, fenceVars>>

Distance(a, b) == IF a < b THEN b - a ELSE a - b

(* What `ps` can report of a pid on this machine: nothing, or a start time.  *)
PidUsers(c, o) ==
    {x \in alive : Machine[x] = Machine[c] /\ Pid[x] = Pid[o]}

ObservedStarts(c, o) ==
    IF Pid[o] = Pid[c] THEN {recordedStart[c]}
    ELSE {StartTime[x] + skew : x \in PidUsers(c, o)}

(* Mutant: the start times must be equal, without tolerance.                 *)
LooksAliveExactly(c, o) ==
    \E t \in ObservedStarts(c, o) : PidUsers(c, o) # {} /\ t = recordedStart[o]

(* The owner's pid exists and its start time is the recorded one.            *)
LooksAlive(c, o) ==
    \E t \in ObservedStarts(c, o) :
        PidUsers(c, o) # {} /\ Distance(t, recordedStart[o]) <= Tolerance

(* Mutant: an owner of another machine is judged by the local process table. *)
ProbeAnyHost(c) ==
    /\ At(c, "probe")
    /\ \/ /\ seen[c] # None => ~LooksAlive(c, seen[c])
          /\ Goto(c, "readmission")
          /\ UNCHANGED <<seen, attempt, recordedStart>>
       \/ seen[c] # None /\ LooksAlive(c, seen[c]) /\ Refuse(c)
    /\ UNCHANGED <<lease, fileVars, alive, skew, fenceVars>>

(* The observed owner is judged.  A process observation that is unavailable  *)
(* counts as alive, so a pid in use may always lead to a refusal.            *)
Probe(c) ==
    /\ At(c, "probe")
    /\ \/ /\ seen[c] = None
          /\ Goto(c, "readmission")
          /\ UNCHANGED <<seen, attempt, recordedStart>>
       \/ /\ seen[c] # None
          /\ SameHost(c, seen[c]) /\ ~LooksAlive(c, seen[c])
          /\ Goto(c, "readmission")
          /\ UNCHANGED <<seen, attempt, recordedStart>>
       \/ /\ seen[c] # None
          /\ \/ ~SameHost(c, seen[c])
             \/ LooksAlive(c, seen[c])
             \/ PidUsers(c, seen[c]) # {} /\ Pid[seen[c]] # Pid[c]
          /\ Refuse(c)
    /\ UNCHANGED <<lease, fileVars, alive, skew, fenceVars>>

(* assertAdmission again, immediately before the swap.                       *)
Readmit(c) ==
    /\ At(c, "readmission")
    /\ \/ /\ Admitted(c)
          /\ Goto(c, "swap")
          /\ UNCHANGED <<seen, attempt, recordedStart>>
       \/ ~Admitted(c) /\ Refuse(c)
    /\ UNCHANGED <<lease, fileVars, alive, skew, fenceVars>>

(* Mutant: update-ref without the expected old value.                        *)
BlindSwap(expected, new) == lease' = new

(* git update-ref with the inspected object as the expected old value.       *)
CompareAndSwap(expected, new) ==
    /\ lease = expected
    /\ lease' = new

Swap(c) ==
    /\ At(c, "swap")
    /\ \/ /\ CompareAndSwap(seen[c], c)
          /\ Goto(c, "holding")
          /\ UNCHANGED attempt
       \/ /\ lease # seen[c]
          /\ attempt' = [attempt EXCEPT ![c] = @ + 1]
          /\ Goto(c, "observe")
          /\ UNCHANGED lease
    /\ UNCHANGED <<fileVars, alive, seen, recordedStart, skew, fenceVars>>

------------------------------------------------------------------------------
(* Mutant: save relies on the admission checks of the lease.                 *)
FenceSaveUnchecked(c) ==
    /\ At(c, "holding") /\ Kind[c] = "ordinary"
    /\ Goto(c, "fenced")
    /\ UNCHANGED <<lease, fileVars, alive, seen, attempt, recordedStart, skew, fenceVars>>

(* What the holder does.  An ordinary command publishes state: the authority *)
(* fence is evaluated, then the state ref is swapped (state-store.ts save).   *)
FenceSave(c) ==
    /\ At(c, "holding") /\ Kind[c] = "ordinary"
    /\ ~migrationPending
    /\ Goto(c, "fenced")
    /\ UNCHANGED <<lease, fileVars, alive, seen, attempt, recordedStart, skew, fenceVars>>

PublishSave(c) ==
    /\ At(c, "fenced")
    /\ Goto(c, "holding")
    /\ UNCHANGED <<lease, fileVars, alive, seen, attempt, recordedStart, skew, fenceVars>>

(* commission-amend publishes its pending intent, then removes it.           *)
AmendmentIntent(c) ==
    /\ At(c, "holding") /\ Kind[c] = "amend" /\ ~migrationPending
    /\ ~amendmentPending
    /\ amendmentPending' = TRUE
    /\ UNCHANGED <<lease, fileVars, alive, pc, seen, attempt, recordedStart, skew, migrationPending>>

AmendmentFinal(c) ==
    /\ At(c, "holding") /\ Kind[c] = "amend"
    /\ amendmentPending
    /\ amendmentPending' = FALSE
    /\ UNCHANGED <<lease, fileVars, alive, pc, seen, attempt, recordedStart, skew, migrationPending>>

(* lease.assertHeld, evaluated at every boundary of an authority migration.  *)
Held(c) == legacyFile = "guard" /\ lease = c

MigrationIntent(c) ==
    /\ At(c, "holding") /\ Kind[c] = "migrate" /\ Held(c)
    /\ ~amendmentPending /\ ~migrationPending
    /\ migrationPending' = TRUE
    /\ UNCHANGED <<lease, fileVars, alive, pc, seen, attempt, recordedStart, skew, amendmentPending>>

MigrationFinal(c) ==
    /\ At(c, "holding") /\ Kind[c] = "migrate" /\ Held(c)
    /\ ~amendmentPending /\ migrationPending
    /\ migrationPending' = FALSE
    /\ UNCHANGED <<lease, fileVars, alive, pc, seen, attempt, recordedStart, skew, amendmentPending>>

(* release: delete the ref only while it names the own object.  A command    *)
(* also releases when its work failed half-way.                              *)
Release(c) ==
    /\ At(c, "holding")
    /\ lease' = IF lease = c THEN None ELSE lease
    /\ Goto(c, "ended")
    /\ UNCHANGED <<fileVars, alive, seen, attempt, recordedStart, skew, fenceVars>>

------------------------------------------------------------------------------
(* The environment: processes die anywhere, the clock is stepped, legacy     *)
(* controllers come and go, an operator clears what is provably dead.        *)
Die(c) ==
    /\ c \in alive
    /\ alive' = alive \ {c}
    /\ UNCHANGED <<lease, fileVars, pc, seen, attempt, recordedStart, skew, fenceVars>>

StepClock ==
    /\ skew' \in 0..MaxSkew
    /\ UNCHANGED <<lease, fileVars, alive, pc, seen, attempt, recordedStart, fenceVars>>

LegacyStart ==
    /\ legacyFile = "absent"
    /\ legacyFile' = "legacy"
    /\ legacyAlive' = TRUE
    /\ UNCHANGED <<lease, alive, pc, seen, attempt, recordedStart, skew, fenceVars>>

LegacyStop ==
    /\ legacyAlive
    /\ legacyAlive' = FALSE
    /\ legacyFile' \in {"absent", "legacy"}    \* it may crash and leave the file
    /\ UNCHANGED <<lease, alive, pc, seen, attempt, recordedStart, skew, fenceVars>>

OperatorRemovesLegacyFile ==
    /\ legacyFile = "legacy" /\ ~legacyAlive
    /\ legacyFile' = "absent"
    /\ UNCHANGED <<lease, legacyAlive, alive, pc, seen, attempt, recordedStart, skew, fenceVars>>

OperatorDeletesDeadOwner ==
    /\ lease # None /\ lease \notin alive
    /\ lease' = None
    /\ UNCHANGED <<fileVars, alive, pc, seen, attempt, recordedStart, skew, fenceVars>>

Acquire(c) ==
    \/ CheckAdmission(c) \/ CheckAmendment(c) \/ EnsureLegacyGuard(c)
    \/ WriteOwner(c) \/ Observe(c) \/ Probe(c) \/ Readmit(c) \/ Swap(c)

Work(c) ==
    \/ FenceSave(c) \/ PublishSave(c)
    \/ AmendmentIntent(c) \/ AmendmentFinal(c)
    \/ MigrationIntent(c) \/ MigrationFinal(c)

Environment ==
    \/ StepClock \/ LegacyStart \/ LegacyStop
    \/ OperatorRemovesLegacyFile \/ OperatorDeletesDeadOwner

Next ==
    \/ \E c \in Command :
          Start(c) \/ Acquire(c) \/ Work(c) \/ Release(c) \/ Die(c)
    \/ Environment

Spec == Init /\ [][Next]_vars

------------------------------------------------------------------------------
TypeOK ==
    /\ lease \in Command \cup {None}
    /\ legacyFile \in {"absent", "legacy", "guard"}
    /\ legacyAlive \in BOOLEAN
    /\ alive \in SUBSET Command
    /\ pc \in [Command -> Stage]
    /\ seen \in [Command -> Command \cup {None}]
    /\ attempt \in [Command -> 0..MaxAttempts]
    /\ recordedStart \in [Command -> Int]
    /\ skew \in 0..MaxSkew
    /\ migrationPending \in BOOLEAN
    /\ amendmentPending \in BOOLEAN

(* At most one live command is past its swap and not yet released, whatever  *)
(* dies, is restarted under a reused pid, or races it through the loop.      *)
MutualExclusion == \A c, d \in LiveHolders : c = d

(* An owner leaves the ref by its own release, or when its process is dead    *)
(* and then only in favour of a command of its machine: a losing recoverer    *)
(* never disturbs a newer winner, and no lease of another machine is stolen.  *)
OwnerRemovalIsSafe ==
    [][ \A d \in Command : lease = d /\ lease' # d =>
            \/ pc'[d] = "ended"
            \/ d \notin alive /\ (lease' # None => Machine[lease'] = Machine[d]) ]_vars

(* State is never published while a source-authority migration is pending:   *)
(* the fence and the ref swap are two steps, and only holding the lease       *)
(* keeps a migration from publishing its intent in between.                  *)
NoSaveDuringMigration ==
    [][ \A c \in Command : PublishSave(c) => ~migrationPending ]_vars

(* A controller of the file protocol and a holder of the ref lease never run *)
(* at the same time.                                                         *)
LegacyExclusion == legacyAlive => LiveHolders = {}

(* An ordinary command never mutates while an amendment is pending           *)
(* ("Consumers reject a pending generation", CONTRACT.md).                   *)
NoSaveDuringAmendment ==
    [][ \A c \in Command : PublishSave(c) => ~amendmentPending ]_vars

(* A live holder's mutation right is a step of the abstract lease.           *)
liveHolder == IF LiveHolders = {} THEN None
              ELSE CHOOSE c \in Command : c \in LiveHolders

Abstract == INSTANCE ExclusiveController WITH holder <- liveHolder

ImplementsExclusiveController == Abstract!Spec
==============================================================================
