------------------------- MODULE ExclusiveController -------------------------
(***************************************************************************)
(* What the controller mutation lease promises its callers: at every moment  *)
(* at most one live command may mutate the repository's loop state, and the  *)
(* right to mutate is never handed from one live command to another without *)
(* first becoming free.  A command leaves by releasing or by dying.          *)
(***************************************************************************)
CONSTANTS
    Command,    \* invocations of mutating commands (one process each)
    None        \* no command

VARIABLE holder \* the command that may mutate, or None

Init == holder = None

Enter(c) == holder = None /\ holder' = c

Leave(c) == holder = c /\ holder' = None

Next == \E c \in Command : Enter(c) \/ Leave(c)

Spec == Init /\ [][Next]_holder
==============================================================================
