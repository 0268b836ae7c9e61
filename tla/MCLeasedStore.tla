---------------------------- MODULE MCLeasedStore ----------------------------
(***************************************************************************)
(* One run for the store, two questions: two processes that share it without *)
(* a lease, and fleets of commands that take turns by it.                    *)
(***************************************************************************)
EXTENDS LeasedStore

CONSTANTS o1, o2, m1, a1

VARIABLE leased     \* which of the two a behaviour is about

FleetKind == [c \in Client |->
    IF c = m1 THEN "migrate" ELSE IF c = a1 THEN "amend" ELSE "ordinary"]
FleetMachine == [c \in Client |-> "A"]
FleetPid == [c \in Client |-> IF c \in {o1, o2} THEN 1 ELSE 2]
FleetStartTime == [c \in Client |-> IF c = o2 THEN 3 ELSE 0]

Fleet == {{o1, o2}, {o1, m1}, {o1, a1}}

MCInit == LeasedInit /\ leased \in BOOLEAN

MCNext ==
    \/ leased /\ LeasedNext /\ UNCHANGED leased
    \/ ~leased /\ Next /\ UNCHANGED <<leaseVars, leased>>

MCSpec == MCInit /\ [][MCNext]_<<vars, leaseVars, leased>>

(* Two commands at a time; under the lease the states themselves are plain.  *)
Instance ==
    IF leased
    THEN /\ \E F \in Fleet : \A c \in Client \ F : stage[c] = "ready"
         /\ \A g \in 1..Ref : log[g].state.body = LegacyBody /\ log[g].state.op = NoOp
         /\ \A c \in Client : pc[c] = "saving" =>
               candidate[c].state.body = LegacyBody /\ candidate[c].state.op = NoOp
    ELSE \A c \in {m1, a1} : pc[c] = "closed"
==============================================================================
