-------------------------- MODULE ProcessSupervision --------------------------
(***************************************************************************)
(* Supervision of a child process (process-supervisor.ts) and the status     *)
(* runCommand makes of it (command-runner.ts), on POSIX.                     *)
(*                                                                           *)
(* The root leads a process group of its own.  It may leave members behind,  *)
(* in the group or out of it, that hold its output pipes open.  The          *)
(* supervisor terminates at a timeout or at the output limit, escalates      *)
(* after a grace period, and must settle whatever the processes do and       *)
(* whichever kill fails.  Exits, output, closed pipes and timers reach it as *)
(* callbacks in any order, but in time: Tick waits for what is due.          *)
(***************************************************************************)
EXTENDS Naturals

CONSTANTS
    MaxFaults,  \* bound on failing kills and writes and on crashes
    Timeout,    \* timeoutMs
    Grace       \* killGraceMs

VARIABLES
    phase,      \* of the supervisor
    now,        \* the clock
    timer,      \* deadline of each timer, Off if it is not set
    alive,      \* processes that run
    open,       \* processes that hold the output pipes
    doomed,     \* processes that SIGKILL was delivered to
    root,       \* how the root really ended: "running", "zero", "nonzero", "signal"
    exitCode,   \* what the supervisor observed of it
    timedOut, outputLimitExceeded, spawnError,
    status,     \* CommandExecutionSummary.status
    signalled,  \* history: the supervisor tried to terminate the group
    spared,     \* history: a kill was refused
    faults

flags == <<timedOut, outputLimitExceeded, spawnError>>
processVars == <<alive, open, doomed, root>>
vars == <<phase, now, timer, processVars, exitCode, flags, status, signalled, spared, faults>>

Group   == {"root", "member"}
Process == Group \cup {"stray"}     \* a stray has left the group
Timer   == {"timeout", "grace", "abandon", "drain"}
Off     == 0

Fault == faults < MaxFaults /\ faults' = faults + 1

------------------------------------------------------------------------------
Init ==
    /\ phase = "idle" /\ now = 1 /\ timer = [t \in Timer |-> Off]
    /\ alive = {} /\ open = {} /\ doomed = {} /\ root = "running" /\ exitCode = "none"
    /\ timedOut = FALSE /\ outputLimitExceeded = FALSE /\ spawnError = FALSE
    /\ status = "none" /\ signalled = FALSE /\ spared = FALSE
    /\ faults = 0

(* What a new call of superviseCommand starts from.                          *)
Renew ==
    /\ phase' = "idle" /\ now' = 1 /\ timer' = [t \in Timer |-> Off]
    /\ alive' = {} /\ open' = {} /\ doomed' = {} /\ root' = "running" /\ exitCode' = "none"
    /\ timedOut' = FALSE /\ outputLimitExceeded' = FALSE /\ spawnError' = FALSE
    /\ status' = "none" /\ signalled' = FALSE /\ spared' = FALSE

Set(t, after) == timer' = [timer EXCEPT ![t] = now + after]

Due(t) == timer[t] # Off /\ now >= timer[t]

(* settle: once, and with every timer cleared.                               *)
Settle == phase' = "settled" /\ timer' = [t \in Timer |-> Off]

(* process.kill(-pid, "SIGKILL").                                            *)
Doom == doomed' = doomed \cup (alive \cap Group) /\ UNCHANGED <<spared, faults>>

(* killPosixGroup: when the group cannot be signalled the root alone is      *)
(* killed; when that is refused too, child.kill emits "error", whose handler *)
(* takes it for a failed spawn and sets the backstop.  A process that gets   *)
(* SIGTERM may end or not.                                                   *)
KillGroup(fatal) ==
    \/ UNCHANGED spawnError /\ IF fatal THEN Doom ELSE UNCHANGED <<doomed, spared, faults>>
    \/ /\ Fault /\ spared' = TRUE
       /\ \/ doomed' = doomed \cup (alive \cap {"root"}) /\ UNCHANGED spawnError
          \/ UNCHANGED doomed /\ spawnError' = TRUE

------------------------------------------------------------------------------
(* superviseCommand: a spawn fails at once, by an "error" event, or not.     *)
Spawn ==
    /\ phase = "idle"
    /\ \/ /\ phase' = "running" /\ Set("timeout", Timeout)
          /\ alive' = {"root"} /\ open' = {"root"}
          /\ UNCHANGED <<root, spawnError, faults>>
       \/ /\ Fault /\ phase' = "running" /\ spawnError' = TRUE /\ root' = "nonzero"
          /\ timer' = [timer EXCEPT !["timeout"] = now + Timeout, !["abandon"] = now + Grace]
          /\ UNCHANGED <<alive, open>>
       \/ /\ Fault /\ Settle /\ spawnError' = TRUE /\ root' = "nonzero"
          /\ UNCHANGED <<alive, open>>
    /\ UNCHANGED <<now, doomed, exitCode, timedOut, outputLimitExceeded, status, signalled,
                   spared>>

(* The timer fires in the running phase: SIGTERM to the group, and SIGKILL   *)
(* after the grace.  The abandon slot doubles as the backstop of an "error". *)
InitiateTermination ==
    /\ phase' = "terminating" /\ signalled' = TRUE
    /\ KillGroup(FALSE)
    /\ timer' = [timer EXCEPT
           !["timeout"] = IF Due("timeout") THEN Off ELSE @,
           !["grace"]   = now + Grace,
           !["abandon"] = IF spawnError' /\ @ = Off THEN now + Grace ELSE @]

TimeoutFires ==
    /\ phase = "running" /\ Due("timeout")
    /\ timedOut' = TRUE
    /\ InitiateTermination
    /\ UNCHANGED <<now, alive, open, root, exitCode, outputLimitExceeded, status>>

(* A timer that was left set finds another phase and does nothing.           *)
TimeoutLapses ==
    /\ phase \notin {"idle", "running"} /\ Due("timeout")
    /\ timer' = [timer EXCEPT !["timeout"] = Off]
    /\ UNCHANGED <<phase, now, processVars, exitCode, flags, status, signalled, spared, faults>>

(* escalate.  An abandon timer of the same duration that was set before      *)
(* fires first.                                                              *)
GraceFires ==
    /\ phase = "terminating" /\ Due("grace") /\ ~Due("abandon")
    /\ KillGroup(TRUE)
    /\ timer' = [timer EXCEPT !["grace"] = Off, !["abandon"] = now + Grace]
    /\ UNCHANGED <<phase, now, alive, open, root, exitCode, timedOut, outputLimitExceeded,
                   status, signalled>>

(* "abandon-timer" and "spawn-error-backstop": whatever still runs is left.  *)
AbandonFires ==
    /\ Due("abandon") /\ phase # "settled"
    /\ Settle
    /\ UNCHANGED <<now, processVars, exitCode, flags, status, signalled, spared, faults>>

(* sweepStragglers: SIGKILL to what is left of the group.                    *)
Sweep == Doom \/ (Fault /\ spared' = TRUE /\ UNCHANGED doomed)

(* Mutant: what holds the pipes after the root's exit is not swept.          *)
DrainFiresUnswept ==
    /\ phase = "draining" /\ Due("drain")
    /\ Settle
    /\ UNCHANGED <<now, processVars, exitCode, flags, status, signalled, spared, faults>>

DrainFires ==
    /\ phase = "draining" /\ Due("drain")
    /\ Settle /\ Sweep
    /\ UNCHANGED <<now, alive, open, root, exitCode, flags, status, signalled>>

(* onData: the first overflow terminates a running root, cuts a drain off,   *)
(* and is only recorded while a termination is under way.                    *)
Overflow ==
    /\ phase \notin {"idle", "settled"} /\ open # {} /\ ~outputLimitExceeded
    /\ outputLimitExceeded' = TRUE
    /\ CASE phase = "running"  -> InitiateTermination
         [] phase = "draining" ->
              Settle /\ Sweep /\ UNCHANGED <<spawnError, signalled>>
         [] OTHER ->
              UNCHANGED <<phase, timer, doomed, spawnError, signalled, spared, faults>>
    /\ UNCHANGED <<now, alive, open, root, exitCode, timedOut, status>>

(* "exit": all other timers are cleared, and open pipes get one more grace.  *)
ObserveExit ==
    /\ phase \in {"running", "terminating"}
    /\ root # "running" /\ exitCode = "none" /\ open # {}
    /\ exitCode' = root /\ phase' = "draining"
    /\ timer' = [t \in Timer |-> IF t = "drain" THEN now + Grace ELSE Off]
    /\ UNCHANGED <<now, processVars, flags, status, signalled, spared, faults>>

(* "close": the root is gone and the pipes are closed.                       *)
ObserveClose ==
    /\ phase \notin {"idle", "settled"} /\ root # "running" /\ open = {}
    /\ exitCode' = root /\ Settle
    /\ UNCHANGED <<now, processVars, flags, status, signalled, spared, faults>>

Verdict ==
    IF spawnError THEN "ERROR"
    ELSE IF timedOut THEN "TIMEOUT"
    ELSE IF outputLimitExceeded THEN "ERROR"
    ELSE IF exitCode = "zero" THEN "PASS" ELSE "FAIL"

(* runCommand: the logs are written, then the status is what was observed;   *)
(* logs that cannot be written make it an error.                             *)
Report ==
    /\ phase = "settled" /\ status = "none"
    /\ \/ status' = Verdict /\ UNCHANGED faults
       \/ Fault /\ status' = "ERROR"
    /\ UNCHANGED <<phase, now, timer, processVars, exitCode, flags, signalled, spared>>

------------------------------------------------------------------------------
ProcessesOnly ==
    UNCHANGED <<phase, now, timer, exitCode, flags, status, signalled, spared, faults>>

(* The root starts something that keeps its pipes, or closes them; one       *)
(* process at a time.                                                        *)
Fork(p) ==
    /\ alive = {"root"} /\ doomed = {}
    /\ alive' = alive \cup {p} /\ open' \in {open, open \cup {p}}
    /\ UNCHANGED <<doomed, root>>
    /\ ProcessesOnly

(* A process ends, by itself or by a signal, or only closes its output.      *)
End(p) ==
    /\ p \in alive
    /\ alive' = alive \ {p} /\ open' = open \ {p} /\ doomed' = doomed \ {p}
    /\ root' \in IF p # "root" THEN {root}
                 ELSE IF p \in doomed THEN {"signal"}
                 ELSE {"zero", "nonzero"} \cup (IF signalled THEN {"signal"} ELSE {})
    /\ ProcessesOnly

CloseOutput(p) ==
    /\ p \in alive /\ p \in open /\ open' = open \ {p}
    /\ UNCHANGED <<alive, doomed, root>>
    /\ ProcessesOnly

Tick ==
    /\ phase \notin {"idle", "settled"} /\ \A t \in Timer : ~Due(t)
    /\ now' = now + 1
    /\ UNCHANGED <<phase, timer, processVars, exitCode, flags, status, signalled, spared, faults>>

(* The controller dies.  Its child leads a group of its own and goes on,     *)
(* beyond the model; a later controller starts another.                      *)
Crash == phase # "idle" /\ Fault /\ Renew

Supervisor ==
    \/ Spawn \/ TimeoutFires \/ TimeoutLapses \/ GraceFires \/ AbandonFires \/ DrainFires
    \/ Overflow \/ ObserveExit \/ ObserveClose \/ Report \/ Tick

Program ==
    \/ \E p \in Process \ {"root"} : Fork(p)
    \/ \E p \in Process : End(p) \/ CloseOutput(p)

Next == Supervisor \/ Program \/ Crash

Spec == Init /\ [][Next]_vars

------------------------------------------------------------------------------
TypeOK ==
    /\ phase \in {"idle", "running", "terminating", "draining", "settled"}
    /\ now \in Nat /\ timer \in [Timer -> Nat]
    /\ alive \subseteq Process /\ open \subseteq alive /\ doomed \subseteq alive
    /\ root \in {"running", "zero", "nonzero", "signal"}
    /\ exitCode \in {"none", "zero", "nonzero", "signal"}
    /\ flags \in BOOLEAN \X BOOLEAN \X BOOLEAN
    /\ status \in {"none", "PASS", "FAIL", "TIMEOUT", "ERROR"}
    /\ signalled \in BOOLEAN /\ spared \in BOOLEAN /\ faults \in Nat

(* The command settles in time, whatever its processes do and whichever kill *)
(* fails; and then nothing of its group that still holds the output is left  *)
(* unkilled, unless a kill was refused.  The bound has three graces, not the *)
(* two of the code's comment: an exit seen just before the abandonment       *)
(* starts a drain.                                                           *)
SettlesInTime ==
    /\ now <= 1 + Timeout + 3 * Grace
    /\ phase = "settled" /\ ~spared => open \cap Group \subseteq doomed

(* A pass is the root's own: it exited zero before the supervisor signalled  *)
(* anything, within its time and its output limit.                           *)
PassIsTrue ==
    status = "PASS" => root = "zero" /\ ~signalled /\ ~timedOut /\ ~outputLimitExceeded
==============================================================================
