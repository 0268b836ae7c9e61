----------------------------- MODULE Verification -----------------------------
(***************************************************************************)
(* Verification of a candidate (verifyMilestone in verifier.ts, verify in    *)
(* orchestrator.ts, the execution provider in execution-provider.ts): a      *)
(* focused command whose receipt it owns, then the authoritative pnpm verify *)
(* whose result tree is parsed independently.                                *)
(*                                                                           *)
(* The commands run one after the other, each in a container of its own that *)
(* clones whatever HEAD the workspace has by then, or - in the diagnostic    *)
(* mode - in the workspace itself.  The identity of the candidate is taken   *)
(* once before and once after them.                                          *)
(***************************************************************************)
EXTENDS ContainerExecution

VARIABLES
    provider,   \* of execution: "container", "local", or "unavailable"
    durable,    \* the milestone in the published state
    pc,         \* where verify is
    roots,      \* the protected files are the recorded ones
    start,      \* startIdentity: the commit inspected first
    tested,     \* the commit each command ran on
    results,    \* the commands' statuses, after their receipts were judged
    verdict,    \* status or failureKind of the summary
    raced       \* history: someone changed the workspace while verify ran

verdictVars == <<provider, durable, pc, roots, start, tested, results, verdict, raced>>
allVars == <<verdictVars, vars>>

Focused == 1
Authoritative == 2
Commands == {Focused, Authoritative}

------------------------------------------------------------------------------
NoCommand == [c \in Commands |-> "none"]

(* What preparation left: a clean candidate and the recorded trust roots.    *)
Unverified ==
    /\ Init
    /\ provider = "none" /\ command = Focused /\ start = "none" /\ verdict = "none"
    /\ tested = NoCommand /\ results = NoCommand
    /\ candidate = "result" /\ clean = TRUE /\ roots = TRUE

VerifyInit == Unverified /\ durable = "verifying" /\ pc = "begin" /\ faults = 0 /\ raced = FALSE

Conclude(v) == verdict' = v /\ pc' = "persist"

(* An error nobody handles: run's handler escalates the milestone.           *)
Throw == pc' = "done" /\ durable' = "escalated"

Judging == UNCHANGED <<roots, tested, raced, executorVars, candidate, clean, faults>>

(* The provider is what the configuration asks for and the machine has.  The *)
(* workspace must be clean, have a commit of the milestone, and be within    *)
(* the diff policy: what someone else left there may not.                    *)
Begin ==
    /\ pc = "begin"
    /\ provider' \in {"container", "local", "unavailable"}
    /\ start' = candidate
    /\ IF ~clean THEN Conclude("product")
       ELSE \/ candidate = "other" /\ \E v \in {"product", "policy"} : Conclude(v)
            \/ pc' = "execute" /\ UNCHANGED verdict
    /\ UNCHANGED <<durable, command, results>> /\ Judging

(* executionProvider.execute: in a container ...                             *)
Execute ==
    /\ pc = "execute" /\ provider = "container"
    /\ stage' = "image" /\ pc' = "executing"
    /\ UNCHANGED <<cloned, owed, daemonVars, outcomeVars, fileVars, failure, status, outerVars,
                   faults, provider, durable, roots, start, tested, results, verdict, raced>>

ContainerStep == pc = "executing" /\ Next /\ UNCHANGED verdictVars

Received(s) == results' = [results EXCEPT ![command] = s] /\ pc' = "receipt"

Returned ==
    /\ pc = "executing" /\ stage = "returned"
    /\ stage' = "idle" /\ Renew /\ tested' = [tested EXCEPT ![command] = cloned]
    /\ IF status = "threw" THEN Throw /\ UNCHANGED results
       ELSE Received(status) /\ UNCHANGED durable
    /\ UNCHANGED <<fileVars, outerVars, faults, provider, roots, start, verdict, raced>>

(* ... in the workspace, which the command may change, or nowhere.           *)
ExecuteLocally ==
    /\ pc = "execute" /\ provider # "container"
    /\ IF provider = "local"
       THEN /\ \E s \in {"PASS", "FAIL", "TIMEOUT", "ERROR"} : Received(s)
            /\ tested' = [tested EXCEPT ![command] = candidate]
            /\ candidate' \in {candidate, "other"} /\ clean' \in {clean, FALSE}
       ELSE Received("ERROR") /\ UNCHANGED <<tested, candidate, clean>>
    /\ UNCHANGED <<executorVars, command, faults, provider, durable, roots, start, verdict, raced>>

(* Mutant: the result tree is accepted for whatever commit it names.         *)
JudgedByTree(s) ==
    IF command = Focused
    THEN IF s = "PASS" THEN {"PASS", "ERROR"} ELSE {s, "ERROR"}
    ELSE IF s = "PASS" THEN {"PASS", "NOT_READY", "UNPARSED"}
    ELSE IF s = "FAIL" THEN {"FAIL", "NOT_READY", "UNPARSED"} ELSE {s}

(* A focused pass needs the command's own receipt, and a receipt that does   *)
(* not validate is an error for any status.  The authoritative result tree   *)
(* is parsed after exit 0 or 2, and must name the commit inspected first; a  *)
(* readiness that does not regress is accepted.  "UNPARSED" is an ERROR, and *)
(* a parseError besides.                                                     *)
Judged(s) ==
    IF command = Focused
    THEN IF s = "PASS" THEN {"PASS", "ERROR"} ELSE {s, "ERROR"}
    ELSE IF s \in {"PASS", "FAIL"}
         THEN {"UNPARSED"} \cup (IF s = "FAIL" THEN {"FAIL"} ELSE {})
                           \cup (IF tested[command] # start THEN {}
                                 ELSE IF s = "PASS" THEN {"PASS", "NOT_READY"}
                                 ELSE {"NOT_READY"})
         ELSE {s}

(* The protected files are checked again after the authoritative command.    *)
JudgeReceipt ==
    /\ pc = "receipt"
    /\ \E s \in Judged(results[command]) :
         results' = [results EXCEPT ![command] = s]
    /\ \/ command = Focused /\ command' = Authoritative /\ pc' = "execute" /\ UNCHANGED durable
       \/ command = Authoritative /\ roots /\ pc' = "finish" /\ UNCHANGED <<command, durable>>
       \/ command = Authoritative /\ ~roots /\ Throw /\ UNCHANGED command
    /\ UNCHANGED <<provider, start, verdict>> /\ Judging

CommandFailure == IF results[Focused] # "PASS" THEN results[Focused] ELSE results[Authoritative]

Infrastructure ==
    \/ provider # "container" \/ results[Authoritative] = "UNPARSED"
    \/ CommandFailure \in {"ERROR", "TIMEOUT"}

(* The verdict: every command, the provider, and the candidate, which must   *)
(* be the one that was inspected first.                                      *)
Finish ==
    /\ pc = "finish"
    /\ LET passed == results[Focused] = "PASS" /\ results[Authoritative] \in {"PASS", "NOT_READY"}
           changed == ~clean \/ candidate # start
       IN IF ~roots THEN Throw /\ UNCHANGED verdict
          ELSE /\ Conclude(IF passed /\ ~changed /\ provider = "container" THEN "PASS"
                           ELSE IF Infrastructure THEN "infrastructure"
                           ELSE IF changed THEN "policy" ELSE "product")
               /\ UNCHANGED durable
    /\ UNCHANGED <<provider, start, command, results>> /\ Judging

(* verify publishes what follows from the summary.                           *)
Persist ==
    /\ pc = "persist" /\ pc' = "done"
    /\ durable' = CASE verdict = "PASS"   -> "reviewing"
                    [] verdict = "policy" -> "escalated"
                    [] OTHER              -> "retrying"
    /\ UNCHANGED <<provider, start, command, results, verdict>> /\ Judging

------------------------------------------------------------------------------
(* The process dies; a later one verifies again from the start, in the same  *)
(* attempt's directories, and with new names.                                *)
Crash ==
    /\ pc # "done" /\ Fault
    /\ pc' = "begin" /\ stage' = "idle" /\ Renew /\ provider' = "none"
    /\ command' = Focused /\ start' = "none" /\ verdict' = "none"
    /\ tested' = NoCommand /\ results' = NoCommand
    /\ UNCHANGED <<fileVars, candidate, clean, durable, roots, raced>>

(* Someone else commits to the workspace, goes back, edits it, or changes a  *)
(* protected file.                                                           *)
Drift ==
    /\ pc # "done" /\ Fault /\ raced' = (raced \/ pc # "begin")
    /\ \/ candidate' \in {"result", "other"} \ {candidate} /\ UNCHANGED <<clean, roots>>
       \/ clean' = ~clean /\ UNCHANGED <<candidate, roots>>
       \/ roots' = ~roots /\ UNCHANGED <<candidate, clean>>
    /\ UNCHANGED <<executorVars, command, provider, durable, pc, start, tested, results, verdict>>

Verifier ==
    \/ Begin \/ Execute \/ ContainerStep \/ Returned \/ ExecuteLocally \/ JudgeReceipt \/ Finish
    \/ Persist

VerifyNext == Verifier \/ Crash \/ Drift

VerifySpec == VerifyInit /\ [][VerifyNext]_allVars

------------------------------------------------------------------------------
VerifyTypeOK ==
    /\ TypeOK /\ command \in Commands
    /\ provider \in {"none", "container", "local", "unavailable"}
    /\ durable \in {"verifying", "reviewing", "retrying", "escalated"}
    /\ pc \in {"begin", "execute", "executing", "receipt", "finish", "persist", "done"}
    /\ roots \in BOOLEAN /\ clean \in BOOLEAN /\ raced \in BOOLEAN
    /\ results \in [Commands -> {"none", "PASS", "FAIL", "NOT_READY", "TIMEOUT", "ERROR", "UNPARSED"}]
    /\ verdict \in {"none", "PASS", "product", "policy", "infrastructure"}

PassesTrue ==
    verdict' = "PASS" /\ verdict # "PASS" =>
        /\ provider = "container" /\ roots /\ clean
        /\ candidate = start /\ tested[Authoritative] = start
        /\ ~raced => tested[Focused] = start

(* A candidate passes only if it is, clean and with its trust roots intact,  *)
(* the commit that was inspected first and that the authoritative command    *)
(* ran on in a container, whatever happened meanwhile; the focused command   *)
(* ran on it, too, unless someone moved the workspace away and back.         *)
VerdictIsTrue == [][PassesTrue]_allVars
==============================================================================
