-------------------------- MODULE FileSetPublication --------------------------
(***************************************************************************)
(* What publishing a set of files one by one promises: a fence keeps         *)
(* consumers out while the set is mixed, and nobody else's change is         *)
(* overwritten, except in the instant between a look and the rename.         *)
(***************************************************************************)
EXTENDS Naturals

CONSTANT Files          \* number of files in the set

VARIABLES
    fence,      \* an intent is pending, consumers refuse
    live,       \* the files: "old", "new" or "foreign"
    unseen      \* outsiders acted since the publisher last looked

vars == <<fence, live, unseen>>

Contents == {"old", "new", "foreign"}

Init == fence = FALSE /\ live = [file \in 1 .. Files |-> "old"] /\ unseen = FALSE

Look == unseen' = FALSE /\ UNCHANGED <<fence, live>>

Raise ==
    /\ ~fence /\ fence'
    /\ unseen \/ \A file \in 1 .. Files : live[file] = "old"
    /\ UNCHANGED <<live, unseen>>

Replace(file) ==
    /\ unseen \/ (fence /\ live[file] # "foreign")
    /\ live' = [live EXCEPT ![file] = "new"]
    /\ UNCHANGED <<fence, unseen>>

Lower ==
    /\ fence /\ ~fence'
    /\ unseen \/ \A file \in 1 .. Files : live[file] = "new"
    /\ UNCHANGED <<live, unseen>>

(* People and other programs do as they please.                              *)
Outside ==
    /\ unseen'
    /\ fence' \in BOOLEAN /\ live' \in [1 .. Files -> Contents]

Next == Look \/ Raise \/ Lower \/ Outside \/ \E file \in 1 .. Files : Replace(file)

Spec == Init /\ [][Next]_vars
===============================================================================
