-------------------------- MODULE OptimisticHistory --------------------------
(***************************************************************************)
(* What the controller state store promises its callers: one append-only     *)
(* history of states, extended only by a caller that was handed the latest   *)
(* state of that history, so no published state is ever lost, rewritten or   *)
(* forked.  A caller may miss the acknowledgement of its own extension.      *)
(***************************************************************************)
EXTENDS Naturals, Sequences

CONSTANTS Client, NoState

VARIABLES
    history,    \* the states published so far, oldest first
    view        \* Client -> the state it was last handed, or NoState

Init ==
    /\ history = << >>
    /\ view = [c \in Client |-> NoState]

Latest == history[Len(history)]

(* A client is handed some published state, or forgets what it held.         *)
Observe(c) ==
    /\ \/ \E i \in 1..Len(history) : view' = [view EXCEPT ![c] = history[i]]
       \/ view' = [view EXCEPT ![c] = NoState]
    /\ UNCHANGED history

Grows == /\ Len(history') = Len(history) + 1
         /\ \A i \in 1..Len(history) : history'[i] = history[i]

(* The first state of a history comes from nobody's view; its publisher may  *)
(* be handed it at once.                                                     *)
Found(c) ==
    /\ history = << >> /\ Grows
    /\ \/ UNCHANGED view
       \/ view' = [view EXCEPT ![c] = history'[1]]

(* A client extends the state it holds, if that is the latest one.  It need  *)
(* not learn that it succeeded.                                              *)
Extend(c) ==
    /\ history # << >> /\ view[c] = Latest
    /\ Grows
    /\ UNCHANGED view

Next == \E c \in Client : Observe(c) \/ Found(c) \/ Extend(c)

Spec == Init /\ [][Next]_<<history, view>>
==============================================================================
