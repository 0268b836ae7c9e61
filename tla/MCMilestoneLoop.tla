--------------------------- MODULE MCMilestoneLoop ---------------------------
EXTENDS MilestoneLoop

CONSTANTS m1, m2, m3

(* The first milestone is an exception that the second consumes.             *)
ExceptionConsumer == [m \in Milestones |-> IF m = m1 THEN m2 ELSE None]
=============================================================================
