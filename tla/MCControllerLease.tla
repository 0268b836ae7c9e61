-------------------------- MODULE MCControllerLease --------------------------
(***************************************************************************)
(* Small fleets of commands for ControllerLease.  Start times are in units   *)
(* of the tolerance: two processes more than one unit apart are told apart.  *)
(***************************************************************************)
EXTENDS ControllerLease

CONSTANTS o1, o2, m1, far, b1, a1

(* Two ordinary commands racing a migration on one machine, a command of     *)
(* another machine that shares the hostname, and an unrelated process.  The  *)
(* later ordinary command and the unrelated process may reuse the pid of the *)
(* first.                                                                     *)
FleetKind == [c \in Command |->
    IF c = m1 THEN "migrate" ELSE IF c = a1 THEN "amend"
    ELSE IF c = b1 THEN "bystander" ELSE "ordinary"]
FleetMachine == [c \in Command |-> IF c = far THEN "B" ELSE "A"]
FleetHostName == [c \in Command |-> "host"]
FleetPid == [c \in Command |-> IF c \in {m1, a1} THEN 2 ELSE 1]
FleetStartTime == [c \in Command |->
    IF c = o2 THEN 3 ELSE IF c = b1 THEN 6 ELSE 0]

(* One run, three questions: the race of o1 with a successor and a migration  *)
(* on one machine; o1 with an amendment and another machine; o1 with another  *)
(* machine and an unrelated process.  A behaviour starts one fleet only.      *)
Fleet == {{o1, o2, m1}, {o1, a1, far}, {o1, far, b1}}

OneFleet == \E F \in Fleet : \A c \in Command \ F : pc[c] = "ready"
==============================================================================
