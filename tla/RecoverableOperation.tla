------------------------- MODULE RecoverableOperation -------------------------
(***************************************************************************)
(* What an operation with a durable intent promises.  Its effect is brought  *)
(* about only after the published state says that it was started, it is      *)
(* recorded as done only when it is there, and a settled operation is never  *)
(* taken up again.  A process may die or fail at any moment, and outsiders   *)
(* may undo the effect, or bring it about; only a process they interfered    *)
(* with may record what is no longer so.                                     *)
(***************************************************************************)
EXTENDS Naturals

VARIABLES
    status,     \* what is published of the operation
    effect,     \* its effect is in place
    faults,     \* crashes, failures and changes by others so far
    raced       \* others acted while the present process ran

Settled == {"completed", "blocked"}

Init == status = "none" /\ effect = FALSE /\ faults = 0 /\ raced = FALSE

(* A status is published; the call may fail after that, all the same.        *)
Publish(from, to) ==
    /\ status \in from /\ status' = to
    /\ faults' \in {faults, faults + 1}
    /\ UNCHANGED raced

(* The intent is about what is there now.                                    *)
Intend == Publish({"none"}, "intended") /\ effect' \in BOOLEAN

Start == Publish({"intended"}, "started") /\ UNCHANGED effect

Apply ==
    /\ status = "started" /\ effect' = TRUE
    /\ UNCHANGED <<status, faults, raced>>

Record == (effect \/ raced) /\ Publish({"started"}, "done") /\ UNCHANGED effect

Complete == (effect \/ raced) /\ Publish({"done"}, "completed") /\ UNCHANGED effect

Block == Publish({"intended", "started", "done"}, "blocked") /\ UNCHANGED effect

(* A later process takes the operation up.                                   *)
Resume ==
    /\ status \notin Settled /\ raced' = FALSE
    /\ UNCHANGED <<status, effect, faults>>

(* Crashes, failures and outsiders: every change they make is a fault.       *)
Disturb ==
    /\ raced' \in {raced, TRUE}
    /\ \/ faults' = faults + 1 /\ effect' \in BOOLEAN
       \/ UNCHANGED <<faults, effect>>
    /\ UNCHANGED status

Next == Intend \/ Start \/ Apply \/ Record \/ Complete \/ Block \/ Resume \/ Disturb

Spec == Init /\ [][Next]_<<status, effect, faults, raced>>
==============================================================================
