----------------------- MODULE OperatorCommands_proofs -----------------------
(***************************************************************************)
(* Safety of the operator's commands, for any number of invocations,         *)
(* deletions, commits and files, any number of faults and any interference.  *)
(* The inductive invariant has a part for each command, which says what its  *)
(* process and its published record know of each other and of the world, and *)
(* one for what the commands know of each other.                             *)
(***************************************************************************)
EXTENDS OperatorCommands, TLAPS

TypeOK ==
    /\ Commission!TypeOK /\ commissioned \in BOOLEAN
    /\ Retention!TypeOK /\ Reconcile!TypeOK /\ Amend!TypeOK /\ Publish!TypeOK

------------------------------------------------------------------------------
(* Deletion of evidence.                                                     *)
Deleting == {"deleting", "target", "remove", "deleted", "finish"}
Resulting == {"result", "written"}

(* How much is done at a published phase, and the phases a stage belongs to. *)
RemovalFits ==
    /\ phase \in {"none", "intent-persisted"} => done = 0
    /\ phase = "deletion-started" => done < Deletions
    /\ phase = "result-written" => done = Deletions
    /\ removal # "down" => phase \in Retention!Active
    /\ removal = "authorise" => phase = "intent-persisted" /\ Deletions > 0
    /\ removal \in Deleting => phase = "deletion-started"
    /\ removal \in {"converge", "next"} => phase = "deletion-finished"
    /\ removal = "next" => done < Deletions
    /\ removal \in Resulting =>
          phase \in {"intent-persisted", "deletion-finished"} /\ done = Deletions
    /\ removal = "complete" => phase = "result-written"

(* What the process has seen if no outsider acted since it started.          *)
RemovalSeen ==
    ~raced =>
        /\ removal \notin {"down", "inspect", "blocking"} => Retention!WorldAsApproved
        /\ removal \in Deleting \ {"deleting"} => journal >= 4 * done + 2
        /\ removal = "complete" =>
              \A target \in Retention!Target : Retention!Inspection(target) = "missing"

RemovalInv == Retention!TypeOK /\ RemovalFits /\ RemovalSeen

(* Before the first deletion.                                                *)
LEMMA RemovalInit == ASSUME Retention!Init PROVE RemovalInv
<1> USE OperatorAssumption DEF Retention!Init, Retention!Target, Retention!Phase,
        Retention!Stage, Retention!Directory, Retention!Conflict, Retention!Active
<1>1. phase \in Retention!Phase /\ done \in 0 .. Deletions /\ removal \in Retention!Stage
  OBVIOUS
<1>2. run \in [Retention!Target -> Retention!Directory]
  OBVIOUS
<1>3. /\ journal \in 0 .. Retention!Conflict /\ result \in {"missing", "exact", "conflict"}
      /\ cited \subseteq Retention!Target /\ faults \in Nat
  OBVIOUS
<1>4. approved \in BOOLEAN /\ disturbed \in BOOLEAN /\ raced \in BOOLEAN
  OBVIOUS
<1>5. RemovalFits /\ RemovalSeen
  BY DEF RemovalFits, RemovalSeen, Deleting, Resulting
<1> QED BY <1>1, <1>2, <1>3, <1>4, <1>5 DEF RemovalInv, Retention!TypeOK

(* What is appended to the journal stays within what it may hold.            *)
LEMMA ConvergeTyped ==
    ASSUME Retention!TypeOK, NEW stage, NEW desired \in 0 .. Retention!Conflict, NEW maximum,
           NEW next \in Retention!Stage, Retention!Converge(stage, desired, maximum, next)
    PROVE  Retention!TypeOK'
<1> USE DEF Retention!Converge, Retention!Look, Retention!Goto, Retention!Fault,
        Retention!derivedVars, Retention!worldVars, Retention!faultVars
<1>1. /\ Retention!Conflict \in Nat /\ journal \in 0 .. Retention!Conflict
      /\ removal \in Retention!Stage
  BY OperatorAssumption DEF Retention!TypeOK, Retention!Conflict
<1>2. journal' \in 0 .. Retention!Conflict /\ removal' \in Retention!Stage
  BY <1>1 DEF Retention!Stage
<1>3. /\ faults' \in Nat
      /\ UNCHANGED <<phase, done, run, result, approved, cited, disturbed, raced>>
  BY DEF Retention!TypeOK
<1> QED BY <1>2, <1>3 DEF Retention!TypeOK

(* persist publishes a phase, or fails and changes nothing.                   *)
LEMMA PersistTyped ==
    ASSUME Retention!TypeOK, NEW next \in Retention!Phase, NEW count \in 0 .. Deletions,
           NEW stage \in Retention!Stage, Retention!Persist(next, count, stage)
    PROVE  Retention!TypeOK'
<1> USE DEF Retention!Persist, Retention!Goto, Retention!Fault,
        Retention!derivedVars, Retention!worldVars, Retention!faultVars
<1>1. phase' \in Retention!Phase /\ done' \in 0 .. Deletions /\ removal' \in Retention!Stage
  BY DEF Retention!TypeOK, Retention!Stage
<1>2. /\ faults' \in Nat
      /\ UNCHANGED <<run, journal, result, approved, cited, disturbed, raced>>
  BY DEF Retention!TypeOK
<1> QED BY <1>1, <1>2 DEF Retention!TypeOK

(* Every step of the deletion, and of outsiders, keeps its types.            *)
LEMMA RemovalTyped ==
    ASSUME Retention!TypeOK, RemovalFits, Retention!Controller \/ Retention!Environment
    PROVE  Retention!TypeOK'
<1> USE DEF Retention!Goto, Retention!Look, Retention!Fault,
        Retention!derivedVars, Retention!worldVars, Retention!faultVars
<1>2. CASE \/ Retention!PublishIntent \/ Retention!Authorise \/ Retention!FinishDeletion
           \/ Retention!AuthoriseNext \/ Retention!PublishResult \/ Retention!Block
  <2>1. 0 \in 0 .. Deletions /\ done \in 0 .. Deletions
    BY OperatorAssumption DEF Retention!TypeOK
  <2>2. Retention!FinishDeletion => done + 1 \in 0 .. Deletions
    BY <2>1, OperatorAssumption DEF Retention!FinishDeletion, RemovalFits, Deleting
  <2> USE DEF Retention!Phase, Retention!Active, Retention!Stage
  <2>3. CASE Retention!PublishIntent
    BY <2>1, <2>3, PersistTyped DEF Retention!PublishIntent
  <2>4. CASE Retention!Authorise \/ Retention!AuthoriseNext
    BY <2>1, <2>4, PersistTyped DEF Retention!Authorise, Retention!AuthoriseNext
  <2>5. CASE Retention!FinishDeletion
    BY <2>2, <2>5, PersistTyped DEF Retention!FinishDeletion
  <2>6. CASE Retention!PublishResult \/ Retention!Block
    BY <2>1, <2>6, PersistTyped DEF Retention!PublishResult, Retention!Block
  <2> QED BY <1>2, <2>3, <2>4, <2>5, <2>6
<1>3. CASE \/ Retention!Restart \/ Retention!Inspect \/ Retention!InspectTarget
           \/ Retention!Crash
  <2>1. removal' \in Retention!Stage
    BY <1>3 DEF Retention!Restart, Retention!Inspect, Retention!InspectTarget,
       Retention!Crash, Retention!NextStage, Retention!Stage
  <2>2. /\ faults' \in Nat
        /\ UNCHANGED <<phase, done, run, journal, result, approved, cited, disturbed>>
    BY <1>3 DEF Retention!TypeOK, Retention!Restart, Retention!Inspect,
       Retention!InspectTarget, Retention!Crash
  <2>3. raced' = raced \/ raced' = FALSE
    BY <1>3 DEF Retention!Restart, Retention!Inspect, Retention!InspectTarget, Retention!Crash
  <2> QED BY <2>1, <2>2, <2>3 DEF Retention!TypeOK
<1>4. CASE Retention!JournalDeleting \/ Retention!JournalDeleted \/ Retention!JournalExact
  <2>1. done \in 0 .. Deletions /\ 4 * done \in 0 .. Retention!Conflict
    BY OperatorAssumption DEF Retention!TypeOK, Retention!Conflict
  <2>2. removal \in Deleting => /\ 4 * done + 2 \in 0 .. Retention!Conflict
                                /\ 4 * done + 4 \in 0 .. Retention!Conflict
    BY <2>1, OperatorAssumption DEF RemovalFits, Retention!Conflict
  <2> USE DEF Retention!Stage
  <2>3. CASE Retention!JournalDeleting
    <3>1. 4 * done + 2 \in 0 .. Retention!Conflict
      BY <2>2, <2>3 DEF Retention!JournalDeleting, Retention!Converge, Deleting
    <3> QED BY <2>3, <3>1, ConvergeTyped DEF Retention!JournalDeleting
  <2>4. CASE Retention!JournalDeleted
    <3>1. 4 * done + 4 \in 0 .. Retention!Conflict
      BY <2>2, <2>4 DEF Retention!JournalDeleted, Retention!Converge, Deleting
    <3> QED BY <2>4, <3>1, ConvergeTyped DEF Retention!JournalDeleted
  <2>5. CASE Retention!JournalExact
    BY <2>1, <2>5, ConvergeTyped DEF Retention!JournalExact
  <2> QED BY <1>4, <2>3, <2>4, <2>5
<1>5. CASE Retention!Remove
  <2>1. run' \in [Retention!Target -> Retention!Directory]
    BY <1>5 DEF Retention!Remove, Retention!TypeOK, Retention!Directory
  <2>2. /\ removal' \in Retention!Stage /\ faults' \in Nat
        /\ UNCHANGED <<phase, done, journal, result, approved, cited, disturbed, raced>>
    BY <1>5 DEF Retention!Remove, Retention!TypeOK, Retention!Stage
  <2> QED BY <2>1, <2>2 DEF Retention!TypeOK
<1>6. CASE Retention!WriteResult \/ Retention!Complete
  <2>1. CASE \E next \in Retention!Phase, stage \in Retention!Stage :
                Retention!Persist(next, done, stage)
    BY <2>1, PersistTyped DEF Retention!TypeOK
  <2>2. CASE ~\E next \in Retention!Phase, stage \in Retention!Stage :
                Retention!Persist(next, done, stage)
    <3>1. /\ done \in 0 .. Deletions /\ journal \in 0 .. Retention!Conflict /\ faults \in Nat
          /\ result \in {"missing", "exact", "conflict"} /\ removal \in Retention!Stage
          /\ Retention!Complete => 4 * done \in 0 .. Retention!Conflict
      BY OperatorAssumption DEF Retention!TypeOK, Retention!Conflict
    <3>2. Retention!Complete =>
             /\ journal' \in 0 .. Retention!Conflict
             /\ result' \in {"missing", "exact", "conflict"} /\ removal' \in Retention!Stage
             /\ UNCHANGED <<phase, done, run, approved, cited, faults, disturbed, raced>>
      <4>1. "completed" \in Retention!Phase /\ "down" \in Retention!Stage
        BY DEF Retention!Phase, Retention!Stage
      <4> QED BY <2>2, <3>1, <4>1 DEF Retention!Complete, Retention!Stage
    <3>3. Retention!WriteResult =>
             /\ result' \in {"missing", "exact", "conflict"} /\ removal' \in Retention!Stage
             /\ UNCHANGED <<phase, done, run, journal, approved, cited, raced>>
      BY <3>1 DEF Retention!WriteResult, Retention!Stage
    <3>4. Retention!WriteResult => faults' = faults \/ faults' = faults + 1
      BY <3>1 DEF Retention!WriteResult
    <3>5. Retention!WriteResult => disturbed' = disturbed \/ disturbed' = TRUE
      BY <3>1 DEF Retention!WriteResult
    <3>6. /\ faults' \in Nat /\ journal' \in 0 .. Retention!Conflict
          /\ result' \in {"missing", "exact", "conflict"} /\ removal' \in Retention!Stage
          /\ UNCHANGED <<phase, done, run, approved, cited, raced>>
      BY <1>6, <3>1, <3>2, <3>3, <3>4
    <3>7. disturbed' \in BOOLEAN
      BY <1>6, <3>2, <3>5, Zenon DEF Retention!TypeOK
    <3> QED BY <3>6, <3>7 DEF Retention!TypeOK
  <2> QED BY <2>1, <2>2
<1>7. CASE Retention!Drift
  <2> USE <1>7, OperatorAssumption DEF Retention!Drift, Retention!TypeOK
  <2>1. run' \in [Retention!Target -> Retention!Directory]
    BY DEF Retention!Directory
  <2>2. cited' \subseteq Retention!Target /\ approved' \in BOOLEAN
    OBVIOUS
  <2>3. journal' \in 0 .. Retention!Conflict
    BY DEF Retention!Conflict
  <2>4. result' \in {"missing", "exact", "conflict"}
    OBVIOUS
  <2>5. /\ faults' \in Nat /\ disturbed' \in BOOLEAN /\ raced' \in BOOLEAN
        /\ UNCHANGED <<phase, done, removal>>
    OBVIOUS
  <2> QED BY <2>1, <2>2, <2>3, <2>4, <2>5
<1>8. CASE Retention!Plan
  BY <1>8 DEF Retention!Plan, Retention!TypeOK
<1> QED
  BY <1>2, <1>3, <1>4, <1>5, <1>6, <1>7, <1>8 DEF Retention!Controller, Retention!Environment

(* Stage, published phase and what is done keep fitting one another.         *)
LEMMA RemovalFitsKept ==
    ASSUME Retention!TypeOK, RemovalFits, Retention!Controller \/ Retention!Environment
    PROVE  RemovalFits'
<1> USE OperatorAssumption
    DEF RemovalFits, Retention!Active, Deleting, Resulting, Retention!Goto, Retention!Look,
        Retention!Persist, Retention!Fault, Retention!derivedVars, Retention!worldVars,
        Retention!faultVars
<1>1. /\ done \in 0 .. Deletions /\ phase \in Retention!Phase
      /\ result \in {"missing", "exact", "conflict"}
  BY DEF Retention!TypeOK
<1>2. CASE \/ Retention!PublishIntent \/ Retention!Restart \/ Retention!Authorise
           \/ Retention!AuthoriseNext \/ Retention!FinishDeletion \/ Retention!Block
           \/ Retention!InspectTarget \/ Retention!Remove
           \/ Retention!Crash \/ Retention!Drift \/ Retention!Plan
  BY <1>1, <1>2
     DEF Retention!PublishIntent, Retention!Restart, Retention!Authorise, Retention!AuthoriseNext,
         Retention!FinishDeletion, Retention!Block, Retention!InspectTarget, Retention!Remove,
         Retention!Crash, Retention!Drift, Retention!Plan, Retention!Phase
<1>3. CASE Retention!Inspect
  BY <1>1, <1>3 DEF Retention!Inspect, Retention!NextStage, Retention!Phase
<1>4. CASE \/ Retention!JournalDeleting \/ Retention!JournalDeleted \/ Retention!JournalExact
  BY <1>1, <1>4 DEF Retention!JournalDeleting, Retention!JournalDeleted, Retention!JournalExact,
     Retention!Converge, Retention!Phase
<1>5. CASE Retention!WriteResult
  <2>1. removal = "result" /\ removal' \in {"written", "blocking", "down"}
        /\ UNCHANGED <<phase, done>>
    BY <1>1, <1>5 DEF Retention!WriteResult
  <2> QED BY <2>1
<1>6. CASE Retention!PublishResult
  BY <1>1, <1>6 DEF Retention!PublishResult, Retention!Phase
<1>7. CASE Retention!Complete
  BY <1>1, <1>7 DEF Retention!Complete, Retention!Phase
<1> QED
  BY <1>2, <1>3, <1>4, <1>5, <1>6, <1>7 DEF Retention!Controller, Retention!Environment

(* The steps after which a process has yet to look, or has given up.         *)
Unseeing == {"down", "inspect", "blocking"}

AllMissing == \A target \in Retention!Target : Retention!Inspection(target) = "missing"

WorldKept == UNCHANGED <<phase, done, run, approved, cited>>

(* Deleting what was approved leaves the rest as it was approved.            *)
LEMMA WorldStable ==
    ASSUME WorldKept
    PROVE  /\ Retention!WorldAsApproved => Retention!WorldAsApproved'
           /\ AllMissing => AllMissing'
BY DEF WorldKept, Retention!WorldAsApproved, Retention!Inspection, AllMissing,
   Retention!AuthorizedMissing, Retention!Current, Retention!Target

(* What the process has seen stays true unless outsiders act.                *)
LEMMA RemovalSeenKept ==
    ASSUME Retention!TypeOK, RemovalFits, RemovalSeen,
           Retention!Controller \/ Retention!Environment
    PROVE  RemovalSeen'
<1> USE DEF Retention!Goto, Retention!Look, Retention!Fault, Unseeing, Deleting,
        Retention!derivedVars, Retention!worldVars, Retention!faultVars
<1>0. /\ done \in Nat /\ journal \in Nat /\ result \in {"missing", "exact", "conflict"}
      /\ 4 * done + 2 \in Nat /\ 4 * done + 4 \in Nat
  BY OperatorAssumption DEF Retention!TypeOK, Retention!Conflict
<1>1. CASE \/ Retention!PublishIntent \/ Retention!Restart \/ Retention!Authorise
           \/ Retention!FinishDeletion \/ Retention!AuthoriseNext \/ Retention!PublishResult
           \/ Retention!Block \/ Retention!Crash
  <2>1. removal' \in Unseeing
    BY <1>1 DEF Retention!PublishIntent, Retention!Restart, Retention!Authorise,
       Retention!FinishDeletion, Retention!AuthoriseNext, Retention!PublishResult,
       Retention!Block, Retention!Crash, Retention!Persist
  <2> QED BY <2>1 DEF RemovalSeen
<1>2. CASE Retention!Inspect
  <2>1. WorldKept
    BY <1>2 DEF Retention!Inspect, WorldKept
  <2>2. removal' \notin Unseeing =>
           /\ Retention!WorldAsApproved /\ Retention!TargetsInOrder
           /\ removal' = Retention!NextStage
    BY <1>2 DEF Retention!Inspect, Retention!Canonical
  <2>3. removal' \notin Unseeing => removal' \notin Deleting \ {"deleting"}
    BY <2>2 DEF Retention!NextStage
  <2>4. removal' = "complete" => phase = "result-written"
    BY <1>2, <2>2 DEF Retention!NextStage, Retention!Inspect, RemovalFits, Retention!Active
  <2>5. removal' = "complete" => AllMissing
    BY <2>2, <2>4, OperatorAssumption
       DEF Retention!TargetsInOrder, RemovalFits, Retention!Current, Retention!Target, AllMissing
  <2> QED BY <2>1, <2>2, <2>3, <2>5, WorldStable DEF RemovalSeen, AllMissing
<1>3. CASE \/ Retention!JournalDeleting \/ Retention!InspectTarget \/ Retention!JournalDeleted
           \/ Retention!JournalExact \/ Retention!WriteResult \/ Retention!Complete
  <2> USE <1>0 DEF Retention!JournalDeleting, Retention!InspectTarget, Retention!JournalDeleted,
          Retention!JournalExact, Retention!WriteResult, Retention!Complete, Retention!Converge,
          Retention!Persist
  <2>1. removal \notin Unseeing /\ (removal' = "complete" => removal = "complete")
    BY <1>3
  <2>2. removal' \notin Unseeing => WorldKept /\ UNCHANGED raced
    BY <1>3 DEF WorldKept
  <2>3. removal' \in Deleting \ {"deleting"} =>
           \/ removal \in Deleting \ {"deleting"} /\ journal' = journal
           \/ journal' >= 4 * done + 2
    <3>1. CASE Retention!JournalDeleting
      BY <3>1
    <3>2. CASE Retention!InspectTarget
      BY <3>2
    <3>3. CASE Retention!JournalDeleted
      BY <3>3
    <3>4. CASE Retention!JournalExact \/ Retention!WriteResult \/ Retention!Complete
      BY <3>4
    <3> QED BY <1>3, <3>1, <3>2, <3>3, <3>4
  <2> HIDE DEF Retention!JournalDeleting, Retention!InspectTarget, Retention!JournalDeleted,
          Retention!JournalExact, Retention!WriteResult, Retention!Complete, Retention!Converge,
          Retention!Persist
  <2> QED
    BY <2>1, <2>2, <2>3, WorldStable DEF RemovalSeen, WorldKept, AllMissing
<1>4. CASE Retention!Remove
  <2>1. CASE removal' = "down"
    BY <2>1 DEF RemovalSeen
  <2>2. CASE removal' # "down"
    <3>1. /\ removal = "remove" /\ removal' = "deleted" /\ phase = "deletion-started"
          /\ run' = [run EXCEPT ![Retention!Current] = "gone"]
          /\ UNCHANGED <<phase, done, journal, approved, cited, raced>>
      BY <1>4, <2>2 DEF Retention!Remove, RemovalFits
    <3>2. Retention!WorldAsApproved => Retention!WorldAsApproved'
      BY <3>1 DEF Retention!WorldAsApproved, Retention!Inspection, Retention!TypeOK,
         Retention!AuthorizedMissing, Retention!Current, Retention!Target
    <3> QED BY <3>1, <3>2 DEF RemovalSeen
  <2> QED BY <2>1, <2>2
<1>5. CASE Retention!Drift \/ Retention!Plan
  <2>1. raced' \/ removal' = "down"
    BY <1>5 DEF Retention!Drift, Retention!Plan
  <2> QED BY <2>1 DEF RemovalSeen
<1> QED BY <1>1, <1>2, <1>3, <1>4, <1>5 DEF Retention!Controller, Retention!Environment

(* Every step of the deletion, of outsiders too, keeps its part.             *)
LEMMA RemovalKept ==
    ASSUME RemovalInv, Retention!Controller \/ Retention!Environment
    PROVE  RemovalInv'
BY RemovalTyped, RemovalFitsKept, RemovalSeenKept DEF RemovalInv

(* What every step of the deletion, or of outsiders, does was authorised.    *)
LEMMA RemovalAuthorised ==
    ASSUME RemovalInv, OneOwner, Retention!Controller \/ Retention!Environment
    PROVE  Retention!Authorised
<1>1. ASSUME Retention!Remove, run' # run
      PROVE  /\ phase = "deletion-started" /\ rec.phase = "none"
             /\ \A target \in Retention!Target :
                   run'[target] # run[target] => target = Retention!Current
             /\ ~raced => /\ Retention!WorldAsApproved /\ run[Retention!Current] # "changed"
                          /\ journal >= 4 * done + 2
  <2>1. removal = "remove" /\ phase = "deletion-started"
    BY <1>1 DEF Retention!Remove, RemovalInv, RemovalFits, Deleting
  <2>2. rec.phase = "none"
    BY <2>1 DEF OneOwner, OperationPending, Retention!Active
  <2>3. \E left : run' = [run EXCEPT ![Retention!Current] = left]
    BY <1>1 DEF Retention!Remove
  <2>4. \A target \in Retention!Target :
           run'[target] # run[target] => target = Retention!Current
    BY <2>3 DEF RemovalInv, Retention!TypeOK
  <2>5. ~raced => Retention!WorldAsApproved /\ journal >= 4 * done + 2
    BY <2>1 DEF RemovalInv, RemovalSeen, Deleting
  <2>6. Retention!Current \in Retention!Target /\ Retention!Current > done
    BY <2>1, OperatorAssumption
       DEF RemovalInv, RemovalFits, Retention!TypeOK, Retention!Current, Retention!Target
  <2>7. Retention!WorldAsApproved => run[Retention!Current] # "changed"
    BY <2>6 DEF Retention!WorldAsApproved, Retention!Inspection
  <2> QED BY <2>1, <2>2, <2>4, <2>5, <2>7
<1>2. ASSUME phase' = "completed", phase # "completed", ~raced
      PROVE  /\ journal = 4 * Deletions /\ result = "exact" /\ approved
             /\ \A target \in Retention!Target : run[target] \in {"gone", "headless"}
  <2>1. Retention!Complete /\ removal = "complete"
    <3>1. CASE \/ Retention!Restart \/ Retention!Inspect \/ Retention!JournalDeleting
               \/ Retention!InspectTarget \/ Retention!Remove \/ Retention!JournalDeleted
               \/ Retention!JournalExact \/ Retention!Crash \/ Retention!Drift
               \/ Retention!Plan
      BY <1>2, <3>1 DEF Retention!Restart, Retention!Inspect, Retention!JournalDeleting,
         Retention!InspectTarget, Retention!Remove, Retention!JournalDeleted,
         Retention!JournalExact, Retention!Crash, Retention!Drift, Retention!Plan,
         Retention!Look, Retention!Converge
    <3>2. CASE \/ Retention!PublishIntent \/ Retention!Authorise \/ Retention!FinishDeletion
               \/ Retention!AuthoriseNext \/ Retention!PublishResult \/ Retention!Block
      BY <1>2, <3>2 DEF Retention!PublishIntent, Retention!Authorise,
         Retention!FinishDeletion, Retention!AuthoriseNext, Retention!PublishResult,
         Retention!Block, Retention!Persist
    <3>3. CASE Retention!WriteResult
      <4>1. result \in {"missing", "exact", "conflict"}
        BY DEF RemovalInv, Retention!TypeOK
      <4> QED BY <1>2, <3>3, <4>1 DEF Retention!WriteResult, Retention!Look
    <3>4. CASE Retention!Complete
      BY <3>4 DEF Retention!Complete
    <3> QED
      BY <3>1, <3>2, <3>3, <3>4 DEF Retention!Controller, Retention!Environment
  <2>2. done = Deletions /\ Retention!WorldAsApproved /\ AllMissing
    BY <1>2, <2>1 DEF RemovalInv, RemovalFits, RemovalSeen, AllMissing
  <2>3. /\ journal \in Nat /\ done \in Nat /\ 4 * done \in Nat
        /\ result \in {"missing", "exact", "conflict"}
    BY OperatorAssumption DEF RemovalInv, Retention!TypeOK, Retention!Conflict
  <2>4. journal = 4 * done /\ result = "exact"
    BY <1>2, <2>1, <2>3 DEF Retention!Complete, Retention!Look
  <2>5. \A target \in Retention!Target : run[target] \in {"gone", "headless"}
    BY <2>2 DEF AllMissing, Retention!Inspection
  <2> QED BY <2>2, <2>4, <2>5 DEF Retention!WorldAsApproved
<1> QED BY <1>1, <1>2 DEF Retention!Authorised

------------------------------------------------------------------------------
(* Reconciliation.                                                           *)
Early == {"down", "capture", "prepare"}

(* The phases a step belongs to.                                             *)
StepFits ==
    /\ step \in {"capture", "prepare"} => rec.phase = "none"
    /\ step \notin Early => rec.phase # "none"
    /\ step \in {"tier", "verified"} => rec.phase = "verifying"
    /\ step \in {"reviewer", "reviewed", "decide"} => rec.phase = "reviewing"
    /\ step \in {"validate", "adopt"} => rec.phase = "adopting"
    /\ step = "queue" => rec.phase = "queueing-next"
    /\ step = "reset" => rec.phase \notin Reconcile!Adopted

(* A candidate not yet adopted is ahead of the verified commit, and its      *)
(* phase says which evidence was made for it.                                *)
RecordFits ==
    /\ rec.phase # "none" => rec.candidate # 0
    /\ rec.phase \notin {"none"} \cup Reconcile!Adopted => rec.candidate > verified
    /\ rec.phase \in {"candidate-verified", "reviewing", "review-approved", "adopting"} =>
          rec.index = rec.candidate
    /\ rec.phase \in {"review-approved", "adopting"} =>
          rec.review = rec.candidate /\ rec.decision = "approve"
    /\ step \in {"prepare", "reset"} => draft > verified
    /\ step \in {"reviewed", "decide"} => verdict \in {"approve", "reject"}
    /\ step = "decide" => rec.review = rec.candidate /\ rec.decision = verdict

(* What the process has seen before it adopts, if nothing changed since.     *)
AdoptionSeen ==
    step = "adopt" /\ ~doubt => Reconcile!Unchanged(rec) /\ Reconcile!BoundaryExact

StepInv == Reconcile!TypeOK /\ StepFits /\ RecordFits /\ AdoptionSeen

(* Before the first reconciliation.                                          *)
LEMMA StepInit == ASSUME Reconcile!Init PROVE StepInv
<1> USE OperatorAssumption DEF Reconcile!Init, Reconcile!Step, Reconcile!Commit,
        Reconcile!Proposal, Reconcile!NoReport
<1>1. rec \in Reconcile!Record
  BY DEF Reconcile!Record, Reconcile!NoRecord, Reconcile!Phase, Reconcile!Adopted
<1>2. /\ verified \in 0 .. Commits /\ queued \subseteq Reconcile!Proposal
      /\ step \in Reconcile!Step /\ draft \in 0 .. Commits
      /\ verdict \in {"none", "approve", "reject"}
      /\ archive \in {"missing", "exact", "torn"} /\ range \in 0 .. Commits
      /\ index \in 0 .. Commits /\ report \in (0 .. Commits) \X {"none", "approve", "reject"}
      /\ head \in Reconcile!Commit /\ proposal \in Reconcile!Proposal /\ faults \in Nat
  OBVIOUS
<1>3. clean \in BOOLEAN /\ acceptable \in BOOLEAN /\ doubt \in BOOLEAN
  OBVIOUS
<1>4. StepFits /\ RecordFits /\ AdoptionSeen
  BY DEF StepFits, RecordFits, AdoptionSeen, Early, Reconcile!NoRecord
<1> QED
  BY <1>1, <1>2, <1>3, <1>4 DEF StepInv, Reconcile!TypeOK, OperationPending

(* What each kind of step leaves typed.                                      *)
LEMMA LookTyped ==
    ASSUME Reconcile!TypeOK, NEW next \in Reconcile!Step, Reconcile!Look(next),
           UNCHANGED <<Reconcile!outside, acceptable>>
    PROVE  Reconcile!TypeOK'
<1> USE DEF Reconcile!Look, Reconcile!Goto, Reconcile!memory, Reconcile!files, Reconcile!outside
<1>1. /\ step' \in Reconcile!Step /\ draft' \in 0 .. Commits
      /\ verdict' \in {"none", "approve", "reject"}
  BY OperatorAssumption DEF Reconcile!TypeOK
<1>2. UNCHANGED <<rec, verified, queued, archive, range, index, report, head, clean, proposal,
                  acceptable, doubt, faults>>
  OBVIOUS
<1> QED BY <1>1, <1>2 DEF Reconcile!TypeOK, OperationPending

(* A save publishes a record that is typed, or changes nothing.              *)
LEMMA SaveTyped ==
    ASSUME Reconcile!TypeOK, NEW record \in Reconcile!Record, NEW commit \in 0 .. Commits,
           NEW next \in Reconcile!Step, NEW refused \in Reconcile!Step,
           Reconcile!Save(record, commit, next, refused),
           UNCHANGED <<Reconcile!outside, acceptable>>
    PROVE  Reconcile!TypeOK'
<1> USE DEF Reconcile!Save, Reconcile!Goto, Reconcile!memory, Reconcile!files,
        Reconcile!outside, Reconcile!Fault
<1>1. /\ step' \in Reconcile!Step /\ draft' \in 0 .. Commits
      /\ verdict' \in {"none", "approve", "reject"}
  BY OperatorAssumption DEF Reconcile!TypeOK
<1>2. rec' \in Reconcile!Record /\ verified' \in 0 .. Commits /\ faults' \in Nat
  BY DEF Reconcile!TypeOK
<1>3. UNCHANGED <<queued, archive, range, index, report, head, clean, proposal,
                  acceptable, doubt>>
  OBVIOUS
<1> QED BY <1>1, <1>2, <1>3 DEF Reconcile!TypeOK, OperationPending

(* A process that ends leaves everything but its own step typed.             *)
LEMMA EndTyped ==
    ASSUME Reconcile!TypeOK, NEW milestones, milestones \subseteq Reconcile!Proposal,
           Reconcile!End(milestones), UNCHANGED <<Reconcile!outside, acceptable>>
    PROVE  Reconcile!TypeOK'
<1> USE OperatorAssumption
    DEF Reconcile!End, Reconcile!Goto, Reconcile!memory, Reconcile!files,
        Reconcile!outside, Reconcile!Fault, Reconcile!NoReport
<1>1. Reconcile!NoRecord \in Reconcile!Record
  BY DEF Reconcile!NoRecord, Reconcile!Record, Reconcile!Phase, Reconcile!Proposal
<1>2. /\ rec' \in Reconcile!Record /\ queued' \subseteq Reconcile!Proposal /\ faults' \in Nat
      /\ archive' \in {"missing", "exact", "torn"} /\ range' \in 0 .. Commits
      /\ index' \in 0 .. Commits /\ report' \in (0 .. Commits) \X {"none", "approve", "reject"}
  BY <1>1 DEF Reconcile!TypeOK
<1>3. step' \in Reconcile!Step /\ draft' \in 0 .. Commits
      /\ verdict' \in {"none", "approve", "reject"}
  BY DEF Reconcile!Step
<1>4. UNCHANGED <<verified, head, clean, proposal, acceptable, doubt>>
  OBVIOUS
<1> QED BY <1>2, <1>3, <1>4 DEF Reconcile!TypeOK, OperationPending

(* The records that are published.                                           *)
LEMMA RecordsTyped ==
    ASSUME Reconcile!TypeOK
    PROVE  /\ \A next \in Reconcile!Phase : [rec EXCEPT !.phase = next] \in Reconcile!Record
           /\ [rec EXCEPT !.phase = "candidate-verified", !.index = rec.candidate]
                 \in Reconcile!Record
           /\ [rec EXCEPT !.review = rec.candidate, !.decision = verdict] \in Reconcile!Record
           /\ \A symbolic \in BOOLEAN :
                 Reconcile!Prepared(draft, symbolic, draft, proposal) \in Reconcile!Record
           /\ Reconcile!Prepared(draft, rec.symbolic, rec.benchmark, proposal)
                 \in Reconcile!Record
<1> USE OperatorAssumption DEF Reconcile!TypeOK, Reconcile!Record
<1>1. \A next \in Reconcile!Phase : [rec EXCEPT !.phase = next] \in Reconcile!Record
  OBVIOUS
<1>2. [rec EXCEPT !.phase = "candidate-verified", !.index = rec.candidate]
         \in Reconcile!Record
  BY DEF Reconcile!Phase
<1>3. [rec EXCEPT !.review = rec.candidate, !.decision = verdict] \in Reconcile!Record
  OBVIOUS
<1>4. \A symbolic \in BOOLEAN, benchmark \in 0 .. Commits :
         Reconcile!Prepared(draft, symbolic, benchmark, proposal) \in Reconcile!Record
  BY DEF Reconcile!Phase, Reconcile!Prepared
<1>5. rec.symbolic \in BOOLEAN /\ rec.benchmark \in 0 .. Commits
  OBVIOUS
<1> QED BY <1>1, <1>2, <1>3, <1>4, <1>5

(* Every step of the reconciliation, and of outsiders, keeps its types.      *)
LEMMA StepTyped ==
    ASSUME Reconcile!TypeOK, RecordFits, UNCHANGED acceptable,
           Reconcile!Controller \/ Reconcile!Environment
    PROVE  Reconcile!TypeOK'
<1>1. CASE /\ UNCHANGED <<Reconcile!outside, acceptable>>
           /\ \/ Reconcile!Prepare \/ Reconcile!CheckVerify \/ Reconcile!PublishVerified
              \/ Reconcile!CheckReview \/ Reconcile!PublishReview \/ Reconcile!Decide
              \/ Reconcile!CheckAdopt \/ Reconcile!Adopt \/ Reconcile!StartQueueing
              \/ Reconcile!Reset
  <2>1. /\ verified \in 0 .. Commits /\ rec.candidate \in 0 .. Commits
    BY DEF Reconcile!TypeOK, Reconcile!Record
  <2> USE <1>1, <2>1, RecordsTyped, SaveTyped, LookTyped
      DEF Reconcile!Persist, Reconcile!Step, Reconcile!Phase, Reconcile!Adopted
  <2>2. CASE Reconcile!Prepare
    BY <2>2 DEF Reconcile!Prepare
  <2>3. CASE Reconcile!CheckVerify
    BY <2>3 DEF Reconcile!CheckVerify
  <2>4. CASE Reconcile!PublishVerified
    BY <2>4 DEF Reconcile!PublishVerified
  <2>5. CASE Reconcile!CheckReview
    BY <2>5 DEF Reconcile!CheckReview
  <2>6. CASE Reconcile!PublishReview
    BY <2>6 DEF Reconcile!PublishReview
  <2>7. CASE Reconcile!Decide
    BY <2>7 DEF Reconcile!Decide
  <2>8. CASE Reconcile!CheckAdopt
    BY <2>8 DEF Reconcile!CheckAdopt
  <2>9. CASE Reconcile!Adopt
    BY <2>9 DEF Reconcile!Adopt
  <2>10. CASE Reconcile!StartQueueing
    BY <2>10 DEF Reconcile!StartQueueing
  <2>11. CASE Reconcile!Reset
    BY <2>11 DEF Reconcile!Reset
  <2> QED BY <2>2, <2>3, <2>4, <2>5, <2>6, <2>7, <2>8, <2>9, <2>10, <2>11
<1>2. CASE /\ UNCHANGED <<Reconcile!outside, acceptable>>
           /\ \/ Reconcile!Resume \/ Reconcile!Complete \/ Reconcile!Fail
  <2>1. /\ queued \cup {rec.next} \subseteq Reconcile!Proposal
        /\ queued \subseteq Reconcile!Proposal
    BY DEF Reconcile!TypeOK, Reconcile!Record
  <2> QED
    BY <1>2, <2>1, LookTyped, EndTyped
    DEF Reconcile!Resume, Reconcile!Complete, Reconcile!Fail, Reconcile!Step
<1>3. CASE /\ UNCHANGED <<Reconcile!outside, acceptable>>
           /\ \/ Reconcile!Begin \/ Reconcile!Capture \/ Reconcile!RunTier \/ Reconcile!Review
              \/ Reconcile!Validate \/ Reconcile!Recapture
  <2>1. CASE \E next \in Reconcile!Step : Reconcile!Look(next)
    BY <1>3, <2>1, LookTyped
  <2>2. CASE ~\E next \in Reconcile!Step : Reconcile!Look(next)
    <3> USE <1>3, <2>2
        DEF Reconcile!Begin, Reconcile!Capture, Reconcile!RunTier, Reconcile!Review,
            Reconcile!Validate, Reconcile!Recapture, Reconcile!Step
    <3>1. UNCHANGED <<rec, verified, queued, head, clean, proposal, acceptable>>
      BY DEF Reconcile!outside
    <3>2. /\ range' \in 0 .. Commits /\ index' \in 0 .. Commits
          /\ archive' \in {"missing", "exact", "torn"}
          /\ report' \in (0 .. Commits) \X {"none", "approve", "reject"}
      BY OperatorAssumption
      DEF Reconcile!TypeOK, Reconcile!Commit, Reconcile!files, Reconcile!Record
    <3>3. /\ step' \in Reconcile!Step /\ draft' \in 0 .. Commits
          /\ verdict' \in {"none", "approve", "reject"}
      BY OperatorAssumption
      DEF Reconcile!TypeOK, Reconcile!Commit, Reconcile!Goto, Reconcile!memory
    <3>4. faults' = faults \/ faults' = faults + 1
      BY DEF Reconcile!Fault
    <3>5. doubt' \in BOOLEAN
      <4>1. CASE Reconcile!Validate
        BY <4>1
      <4>2. CASE ~Reconcile!Validate
        <5>1. doubt' = doubt
          BY <4>2
        <5> QED BY <5>1 DEF Reconcile!TypeOK
      <4> QED BY <4>1, <4>2
    <3> QED
      BY <3>1, <3>2, <3>3, <3>4, <3>5 DEF Reconcile!TypeOK, OperationPending
  <2> QED BY <2>1, <2>2
<1>4. CASE Reconcile!Crash
  <2>1. /\ step' \in Reconcile!Step /\ draft' \in 0 .. Commits
        /\ verdict' \in {"none", "approve", "reject"} /\ faults' \in Nat
    BY <1>4, OperatorAssumption
    DEF Reconcile!Crash, Reconcile!TypeOK, Reconcile!Goto, Reconcile!Step, Reconcile!Fault
  <2>2. UNCHANGED <<rec, verified, queued, archive, range, index, report, head, clean,
                    proposal, acceptable, doubt>>
    BY <1>4 DEF Reconcile!Crash, Reconcile!files, Reconcile!outside
  <2> QED BY <2>1, <2>2 DEF Reconcile!TypeOK, OperationPending
<1>5. CASE Reconcile!Drift \/ Reconcile!Restored \/ Reconcile!Committed
  <2> USE <1>5, OperatorAssumption
      DEF Reconcile!Drift, Reconcile!Restored, Reconcile!Committed, Reconcile!Fault,
          Reconcile!outside, Reconcile!files, Reconcile!memory
  <2>1. UNCHANGED <<rec, verified, queued, step, draft, verdict, acceptable>>
    OBVIOUS
  <2>2. /\ archive' \in {"missing", "exact", "torn"} /\ range' \in 0 .. Commits
        /\ index' \in 0 .. Commits /\ report' \in (0 .. Commits) \X {"none", "approve", "reject"}
    BY DEF Reconcile!TypeOK, Reconcile!NoReport
  <2>3. head' \in Reconcile!Commit /\ proposal' \in Reconcile!Proposal
    <3>1. CASE Reconcile!Drift
      BY <3>1 DEF Reconcile!TypeOK
    <3>2. CASE Reconcile!Restored
      <4>1. rec.candidate \in Reconcile!Commit
        BY <3>2 DEF RecordFits, Reconcile!TypeOK, Reconcile!Record, Reconcile!Commit
      <4> QED BY <3>2, <4>1 DEF Reconcile!TypeOK, Reconcile!Record
    <3>3. CASE Reconcile!Committed
      BY <3>3 DEF Reconcile!TypeOK, Reconcile!Commit
    <3> QED BY <3>1, <3>2, <3>3
  <2>4. faults' \in Nat
    BY DEF Reconcile!TypeOK
  <2>5. clean' \in BOOLEAN
    BY DEF Reconcile!TypeOK
  <2>6. doubt' \in BOOLEAN
    BY DEF Reconcile!TypeOK, Reconcile!Noticed
  <2> QED
    BY <2>1, <2>2, <2>3, <2>4, <2>5, <2>6 DEF Reconcile!TypeOK, OperationPending
<1> QED
  BY <1>1, <1>2, <1>3, <1>4, <1>5 DEF Reconcile!Controller, Reconcile!Environment

(* The phase of the record fits the step.                                    *)
LEMMA StepFitsKept ==
    ASSUME Reconcile!TypeOK, StepFits, Reconcile!Controller \/ Reconcile!Environment
    PROVE  StepFits'
<1> USE DEF StepFits, Early, Reconcile!Adopted, Reconcile!Save, Reconcile!Persist,
        Reconcile!Look, Reconcile!Goto, Reconcile!End, Reconcile!At
<1>1. rec \in Reconcile!Record
  BY DEF Reconcile!TypeOK
<1>2. CASE \/ Reconcile!Begin \/ Reconcile!Capture \/ Reconcile!Resume \/ Reconcile!RunTier
           \/ Reconcile!Review \/ Reconcile!Validate \/ Reconcile!Recapture
           \/ Reconcile!Crash \/ Reconcile!Drift \/ Reconcile!Restored
           \/ Reconcile!Committed \/ Reconcile!Complete \/ Reconcile!Fail
  BY <1>2 DEF Reconcile!Begin, Reconcile!Capture, Reconcile!Resume, Reconcile!RunTier,
     Reconcile!Review, Reconcile!Validate, Reconcile!Recapture, Reconcile!Crash,
     Reconcile!Drift, Reconcile!Restored, Reconcile!Committed, Reconcile!Complete,
     Reconcile!Fail, Reconcile!NoRecord, Reconcile!memory
<1>3. CASE Reconcile!Prepare \/ Reconcile!Reset
  BY <1>3 DEF Reconcile!Prepare, Reconcile!Reset, Reconcile!Prepared
<1>4. CASE Reconcile!CheckVerify \/ Reconcile!PublishVerified
  BY <1>1, <1>4 DEF Reconcile!CheckVerify, Reconcile!PublishVerified, Reconcile!Record
<1>5. CASE Reconcile!CheckReview \/ Reconcile!PublishReview \/ Reconcile!Decide
  BY <1>1, <1>5
  DEF Reconcile!CheckReview, Reconcile!PublishReview, Reconcile!Decide, Reconcile!Record
<1>6. CASE Reconcile!CheckAdopt \/ Reconcile!Adopt \/ Reconcile!StartQueueing
  BY <1>1, <1>6
  DEF Reconcile!CheckAdopt, Reconcile!Adopt, Reconcile!StartQueueing, Reconcile!Record
<1> QED
  BY <1>2, <1>3, <1>4, <1>5, <1>6 DEF Reconcile!Controller, Reconcile!Environment

(* What the published record says of its candidate stays true.               *)
LEMMA RecordFitsKept ==
    ASSUME Reconcile!TypeOK, StepFits, RecordFits, Reconcile!Controller \/ Reconcile!Environment
    PROVE  RecordFits'
<1> USE DEF StepFits, RecordFits, Early, Reconcile!Adopted, Reconcile!Save, Reconcile!Persist,
        Reconcile!Look, Reconcile!Goto, Reconcile!End, Reconcile!At, Reconcile!memory
<1>1. /\ rec \in Reconcile!Record /\ rec.candidate \in Nat /\ verified \in Nat
      /\ head \in Nat /\ draft \in Nat
  BY OperatorAssumption DEF Reconcile!TypeOK, Reconcile!Record, Reconcile!Commit
<1>2. CASE \/ Reconcile!Begin \/ Reconcile!Capture \/ Reconcile!Resume \/ Reconcile!RunTier
           \/ Reconcile!Validate \/ Reconcile!Recapture
           \/ Reconcile!Crash \/ Reconcile!Drift \/ Reconcile!Restored \/ Reconcile!Committed
  BY <1>1, <1>2 DEF Reconcile!Begin, Reconcile!Capture, Reconcile!Resume, Reconcile!RunTier,
     Reconcile!Validate, Reconcile!Recapture, Reconcile!Crash,
     Reconcile!Drift, Reconcile!Restored, Reconcile!Committed
<1>3. CASE Reconcile!Complete \/ Reconcile!Fail
  BY <1>1, <1>3 DEF Reconcile!Complete, Reconcile!Fail, Reconcile!NoRecord
<1>4. CASE Reconcile!Prepare \/ Reconcile!Reset
  BY <1>1, <1>4 DEF Reconcile!Prepare, Reconcile!Reset, Reconcile!Prepared
<1>5. CASE Reconcile!CheckVerify \/ Reconcile!PublishVerified
  BY <1>1, <1>5 DEF Reconcile!CheckVerify, Reconcile!PublishVerified, Reconcile!Record
<1>6. CASE Reconcile!CheckReview
  BY <1>1, <1>6 DEF Reconcile!CheckReview, Reconcile!Record
<1>7. CASE Reconcile!Review
  BY <1>1, <1>7 DEF Reconcile!Review
<1>8. CASE Reconcile!PublishReview
  BY <1>1, <1>8 DEF Reconcile!PublishReview, Reconcile!Record
<1>9. CASE Reconcile!Decide
  BY <1>1, <1>9 DEF Reconcile!Decide, Reconcile!Record
<1>10. CASE Reconcile!CheckAdopt \/ Reconcile!Adopt \/ Reconcile!StartQueueing
  BY <1>1, <1>10
  DEF Reconcile!CheckAdopt, Reconcile!Adopt, Reconcile!StartQueueing, Reconcile!Record
<1> QED
  BY <1>2, <1>3, <1>4, <1>5, <1>6, <1>7, <1>8, <1>9, <1>10
  DEF Reconcile!Controller, Reconcile!Environment

(* Only the last look before the adoption leads there, and who acts after it *)
(* is noticed.                                                               *)
LEMMA AdoptionSeenKept ==
    ASSUME Reconcile!TypeOK, AdoptionSeen, Reconcile!Controller \/ Reconcile!Environment
    PROVE  AdoptionSeen'
<1> USE DEF Reconcile!Look, Reconcile!Goto, Reconcile!Noticed
<1>1. CASE Reconcile!Validate /\ UNCHANGED Reconcile!outside
  <2>1. CASE step' = "adopt"
    <3>1. /\ Reconcile!BoundaryExact /\ Reconcile!Unchanged(rec)
          /\ UNCHANGED <<rec, archive, range, index, report>>
      BY <1>1, <2>1 DEF Reconcile!Validate, Reconcile!files
    <3>2. UNCHANGED <<head, clean, proposal>>
      BY <1>1 DEF Reconcile!outside
    <3> QED
      BY <3>1, <3>2 DEF AdoptionSeen, Reconcile!BoundaryExact, Reconcile!EvidenceExact,
         Reconcile!Unchanged, Reconcile!Identity
  <2>2. CASE step' # "adopt"
    BY <2>2 DEF AdoptionSeen
  <2> QED BY <2>1, <2>2
<1>2. CASE Reconcile!Drift \/ Reconcile!Restored \/ Reconcile!Committed
  BY <1>2 DEF AdoptionSeen, Reconcile!Drift, Reconcile!Restored, Reconcile!Committed
<1>3. CASE Reconcile!Crash
  BY <1>3 DEF AdoptionSeen, Reconcile!Crash
<1>4. CASE ~Reconcile!Validate /\ Reconcile!Controller
  <2>1. step' # "adopt"
    BY <1>4 DEF Reconcile!Controller, Reconcile!Begin, Reconcile!Capture, Reconcile!Prepare,
       Reconcile!Resume, Reconcile!CheckVerify, Reconcile!RunTier, Reconcile!PublishVerified,
       Reconcile!CheckReview, Reconcile!Review, Reconcile!PublishReview, Reconcile!Decide,
       Reconcile!CheckAdopt, Reconcile!Adopt, Reconcile!StartQueueing, Reconcile!Complete,
       Reconcile!Recapture, Reconcile!Reset, Reconcile!Fail, Reconcile!Persist,
       Reconcile!Save, Reconcile!End
  <2> QED BY <2>1 DEF AdoptionSeen
<1> QED
  BY <1>1, <1>2, <1>3, <1>4 DEF Reconcile!Environment, Reconcile!Controller

(* Every step of the reconciliation, of outsiders too, keeps its part.       *)
LEMMA StepKept ==
    ASSUME StepInv, UNCHANGED acceptable, Reconcile!Controller \/ Reconcile!Environment
    PROVE  StepInv'
BY StepTyped, StepFitsKept, RecordFitsKept, AdoptionSeenKept DEF StepInv

(* What every step of the reconciliation, or of outsiders, does was          *)
(* authorised.                                                               *)
LEMMA AdoptionAuthorisedKept ==
    ASSUME StepInv, Reconcile!Controller \/ Reconcile!Environment
    PROVE  Reconcile!Authorised
<1>1. rec \in Reconcile!Record
  BY DEF StepInv, Reconcile!TypeOK
<1>2. CASE ~Reconcile!Adopt
  <2>1. UNCHANGED verified
    BY <1>2 DEF Reconcile!Controller, Reconcile!Environment, Reconcile!Begin, Reconcile!Capture,
       Reconcile!Prepare,
       Reconcile!Resume, Reconcile!CheckVerify, Reconcile!RunTier, Reconcile!PublishVerified,
       Reconcile!CheckReview, Reconcile!Review, Reconcile!PublishReview, Reconcile!Decide,
       Reconcile!CheckAdopt, Reconcile!StartQueueing, Reconcile!Complete, Reconcile!Validate,
       Reconcile!Recapture, Reconcile!Reset, Reconcile!Fail, Reconcile!Persist,
       Reconcile!Save, Reconcile!End, Reconcile!Look, Reconcile!Crash, Reconcile!Drift,
       Reconcile!Restored, Reconcile!Committed
  <2>2. CASE rec.phase \in Reconcile!Adopted
    <3> SUFFICES rec'.phase \in Reconcile!Adopted \/ rec.next \in queued' \ queued
      BY <2>1 DEF Reconcile!Authorised
    <3>1. CASE Reconcile!StartQueueing
      BY <1>1, <2>2, <3>1
      DEF Reconcile!StartQueueing, Reconcile!Persist, Reconcile!Save, Reconcile!Look,
          Reconcile!Adopted, Reconcile!Record
    <3>2. CASE Reconcile!Complete
      BY <2>2, <3>2 DEF Reconcile!Complete, Reconcile!End, Reconcile!Look
    <3>3. CASE Reconcile!Begin \/ Reconcile!Capture \/ Reconcile!Prepare
      BY <2>2, <3>3 DEF Reconcile!Begin, Reconcile!Capture, Reconcile!Prepare, StepInv, StepFits,
         Reconcile!Adopted
    <3>4. CASE \/ Reconcile!CheckVerify \/ Reconcile!PublishVerified \/ Reconcile!CheckReview
               \/ Reconcile!PublishReview \/ Reconcile!Decide \/ Reconcile!CheckAdopt
               \/ Reconcile!Reset
      BY <2>2, <3>4 DEF Reconcile!CheckVerify, Reconcile!PublishVerified, Reconcile!CheckReview,
         Reconcile!PublishReview, Reconcile!Decide, Reconcile!CheckAdopt, Reconcile!Reset,
         Reconcile!At, StepInv, StepFits, Reconcile!Adopted
    <3>5. CASE \/ Reconcile!Resume \/ Reconcile!RunTier \/ Reconcile!Review
               \/ Reconcile!Validate \/ Reconcile!Recapture \/ Reconcile!Fail
               \/ Reconcile!Environment
      <4>1. rec' = rec
        BY <2>2, <3>5 DEF Reconcile!Resume, Reconcile!RunTier, Reconcile!Review, Reconcile!Validate,
           Reconcile!Recapture, Reconcile!Fail, Reconcile!Environment, Reconcile!Crash,
           Reconcile!Drift, Reconcile!Restored, Reconcile!Committed, Reconcile!Look
      <4> QED BY <2>2, <4>1
    <3> QED BY <1>2, <3>1, <3>2, <3>3, <3>4, <3>5 DEF Reconcile!Controller
  <2> QED BY <2>1, <2>2 DEF Reconcile!Authorised
<1>3. CASE Reconcile!Adopt
  <2>1. /\ rec.phase = "adopting" /\ step = "adopt"
        /\ verified' = verified \/ verified' = rec.candidate
    BY <1>3 DEF Reconcile!Adopt, Reconcile!Save, StepInv, StepFits
  <2>2. /\ rec.candidate > verified /\ rec.index = rec.candidate
        /\ rec.review = rec.candidate /\ rec.decision = "approve"
        /\ ~doubt => Reconcile!Unchanged(rec) /\ Reconcile!BoundaryExact
    BY <2>1 DEF StepInv, RecordFits, AdoptionSeen, Reconcile!Adopted
  <2> QED BY <2>1, <2>2 DEF Reconcile!Authorised, Reconcile!Adopted
<1> QED BY <1>2, <1>3

------------------------------------------------------------------------------
(* The two publications.                                                     *)

(* What the process has seen before each of its changes, if nothing changed  *)
(* since.                                                                    *)
AmendmentSeen ==
    /\ amendment = "rename" => amended \in Amend!File
    /\ ~amendDoubt =>
          /\ amendment = "publish" => \A f \in Amend!File : generation[f] = "old"
          /\ amendment = "rename" => amending = "exact" /\ generation[amended] # "foreign"
          /\ amendment = "finalize" =>
                amending = "exact" /\ \A f \in Amend!File : generation[f] = "new"

AmendmentInv == Amend!TypeOK /\ AmendmentSeen

(* Before the first amendment.                                               *)
LEMMA AmendmentInit == ASSUME Amend!Init PROVE AmendmentInv
<1> USE OperatorAssumption DEF Amend!Init, Amend!File, Amend!Stage
<1>1. Amend!TypeOK
  <2>1. base \in BOOLEAN /\ amendDoubt \in BOOLEAN
    OBVIOUS
  <2>2. /\ amending \in {"absent", "exact", "changed"} /\ faults \in Nat
        /\ generation \in [Amend!File -> {"old", "new", "foreign"}]
        /\ amendment \in Amend!Stage /\ amended \in 1 .. Generation + 1
    OBVIOUS
  <2> QED BY <2>1, <2>2 DEF Amend!TypeOK
<1>2. AmendmentSeen
  BY DEF AmendmentSeen
<1> QED BY <1>1, <1>2 DEF AmendmentInv

(* Every step of the amendment, and of outsiders, keeps its types.           *)
LEMMA AmendmentTyped ==
    ASSUME AmendmentInv, Amend!Controller \/ Amend!Crash \/ Amend!Drift \/ Amend!Restored
    PROVE  Amend!TypeOK'
<1> USE OperatorAssumption
    DEF Amend!Goto, Amend!Stop, Amend!Refuse, Amend!Fault, Amend!Stage, Amend!File
<1>1. Amend!TypeOK
  BY DEF AmendmentInv
<1>2. CASE Amend!Begin \/ Amend!PublishIntent \/ Amend!Resume \/ Amend!Finalize \/ Amend!Crash
  <2> USE <1>1, <1>2 DEF Amend!TypeOK, Amend!Begin, Amend!PublishIntent, Amend!Resume,
          Amend!Finalize, Amend!Crash
  <2>1. /\ amendment' \in Amend!Stage /\ amended' \in 1 .. Generation + 1
        /\ amending' \in {"absent", "exact", "changed"} /\ faults' \in Nat
        /\ UNCHANGED <<generation, base>>
    OBVIOUS
  <2>2. amendDoubt' \in BOOLEAN
    OBVIOUS
  <2> QED BY <2>1, <2>2
<1>3. CASE Amend!Check \/ Amend!CheckAll
  <2>1. amendment' \in Amend!Stage /\ amended' \in 1 .. Generation + 1
    BY <1>1, <1>3 DEF Amend!TypeOK, Amend!Check, Amend!CheckAll
  <2>2. amendDoubt' \in BOOLEAN /\ UNCHANGED <<amending, generation, base, faults>>
    BY <1>1, <1>3 DEF Amend!TypeOK, Amend!Check, Amend!CheckAll
  <2> QED BY <1>1, <2>1, <2>2 DEF Amend!TypeOK
<1>4. CASE Amend!Rename
  <2>1. amendment' \in Amend!Stage /\ amended' \in 1 .. Generation + 1
    BY <1>1, <1>4 DEF Amend!TypeOK, Amend!Rename, AmendmentInv, AmendmentSeen
  <2>2. generation' \in [Amend!File -> {"old", "new", "foreign"}]
    BY <1>1, <1>4 DEF Amend!TypeOK, Amend!Rename
  <2> QED BY <1>1, <1>4, <2>1, <2>2 DEF Amend!TypeOK, Amend!Rename
<1>5. CASE Amend!Drift
  <2>1. generation' \in [Amend!File -> {"old", "new", "foreign"}]
    BY <1>1, <1>5 DEF Amend!TypeOK, Amend!Drift
  <2>2. amending' \in {"absent", "exact", "changed"} /\ base' \in BOOLEAN
    BY <1>1, <1>5 DEF Amend!TypeOK, Amend!Drift
  <2>3. amendDoubt' \in BOOLEAN /\ faults' \in Nat
    BY <1>1, <1>5 DEF Amend!TypeOK, Amend!Drift
  <2> QED BY <1>1, <1>5, <2>1, <2>2, <2>3 DEF Amend!TypeOK, Amend!Drift
<1>6. CASE Amend!Restored
  <2>1. generation' \in [Amend!File -> {"old", "new", "foreign"}]
    BY <1>1, <1>6 DEF Amend!TypeOK, Amend!Restored
  <2> QED BY <1>1, <1>6, <2>1 DEF Amend!TypeOK, Amend!Restored
<1> QED BY <1>2, <1>3, <1>4, <1>5, <1>6 DEF Amend!Controller

(* Every step of the amendment, of outsiders too, keeps its part.            *)
LEMMA AmendmentKept ==
    ASSUME AmendmentInv, Amend!Controller \/ Amend!Crash \/ Amend!Drift \/ Amend!Restored
    PROVE  AmendmentInv'
<1> USE DEF AmendmentSeen, Amend!Goto, Amend!Stop, Amend!Refuse, Amend!File
<1>1. CASE Amend!Begin \/ Amend!PublishIntent \/ Amend!Resume
  BY <1>1, AmendmentTyped
  DEF AmendmentInv, Amend!Begin, Amend!PublishIntent, Amend!Resume, Amend!PublicationState
<1>2. CASE Amend!Check \/ Amend!CheckAll
  <2>1. AmendmentSeen'
    BY <1>2 DEF AmendmentInv, Amend!Check, Amend!CheckAll, Amend!PublicationState
  <2> QED BY <2>1, AmendmentTyped DEF AmendmentInv
<1>3. CASE Amend!Rename \/ Amend!Finalize \/ Amend!Crash
  BY <1>3, AmendmentTyped DEF AmendmentInv, Amend!Rename, Amend!Finalize, Amend!Crash
<1>4. CASE Amend!Drift \/ Amend!Restored
  BY <1>4, AmendmentTyped DEF AmendmentInv, Amend!Drift, Amend!Restored
<1> QED BY <1>1, <1>2, <1>3, <1>4 DEF Amend!Controller

(* Every step of the amendment is one that a publication of files may take,  *)
(* or changes nothing of it.                                                 *)
LEMMA AmendmentPublishes ==
    ASSUME AmendmentInv, Amend!Controller \/ Amend!Crash \/ Amend!Drift \/ Amend!Restored
    PROVE  [Amend!FileSet!Next]_(Amend!FileSet!vars)
<1> USE DEF AmendmentInv, AmendmentSeen, Amend!File, Amend!Goto, Amend!Stop, Amend!Refuse,
        Amend!FileSet!Next, Amend!FileSet!vars
<1>1. CASE Amend!Begin \/ Amend!Check \/ Amend!CheckAll
  BY <1>1 DEF Amend!Begin, Amend!Check, Amend!CheckAll, Amend!FileSet!Look
<1>2. CASE Amend!PublishIntent
  BY <1>2 DEF Amend!PublishIntent, Amend!FileSet!Raise
<1>3. CASE Amend!Resume \/ Amend!Crash
  BY <1>3 DEF Amend!Resume, Amend!Crash
<1>4. CASE Amend!Rename
  BY <1>4 DEF Amend!Rename, Amend!FileSet!Replace
<1>5. CASE Amend!Finalize
  BY <1>5 DEF Amend!Finalize, Amend!FileSet!Lower
<1>6. CASE Amend!Drift \/ Amend!Restored
  <2>1. amendDoubt' /\ generation' \in [1 .. Generation -> {"old", "new", "foreign"}]
    BY <1>6, AmendmentKept DEF Amend!Drift, Amend!Restored, Amend!TypeOK
  <2> QED BY <2>1 DEF Amend!FileSet!Outside, Amend!FileSet!Contents
<1> QED BY <1>1, <1>2, <1>3, <1>4, <1>5, <1>6 DEF Amend!Controller

(* A completed intent is recorded, or found, only once every file is in      *)
(* place, so what was looked at before a rename is the pending one.          *)
BeforeCompletion ==
    {"stage", "intent", "link", "observe", "replace", "traced", "rename", "renamed"}

PublicationSeen ==
    /\ publication \in BeforeCompletion => completed # "exact"
    /\ publication \in {"traced", "rename", "renamed"} => published \in Publish!File
    /\ ~publishDoubt =>
          /\ publication = "link" => \A f \in Publish!File : authority[f] = "old"
          /\ publication = "rename" => publishing = "exact" /\ authority[published] # "foreign"
          /\ publication = "unlink" => \A f \in Publish!File : authority[f] = "new"

PublicationInv == Publish!TypeOK /\ PublicationSeen

(* Before the first publication of the sources.                              *)
LEMMA PublicationInit == ASSUME Publish!Init PROVE PublicationInv
<1> USE OperatorAssumption DEF Publish!Init, Publish!File, Publish!Stage
<1>1. Publish!TypeOK
  <2>1. world \in BOOLEAN /\ publishDoubt \in BOOLEAN /\ litter \in BOOLEAN
    OBVIOUS
  <2>2. /\ publishing \in {"absent", "exact", "changed"} /\ faults \in Nat
        /\ completed \in {"absent", "exact", "changed"} /\ trace \in {"absent", "whole", "torn"}
        /\ publication \in Publish!Stage /\ published \in 1 .. Authority + 1
    OBVIOUS
  <2>3. /\ authority \in [Publish!File -> {"old", "new", "foreign"}]
        /\ staged \in [Publish!File -> {"absent", "whole", "torn"}]
    OBVIOUS
  <2> QED BY <2>1, <2>2, <2>3 DEF Publish!TypeOK
<1>2. PublicationSeen
  BY DEF PublicationSeen, BeforeCompletion
<1> QED BY <1>1, <1>2 DEF PublicationInv

(* Every step of the publication, and of outsiders, keeps its types.         *)
LEMMA PublicationTyped ==
    ASSUME PublicationInv, Publish!Controller \/ Publish!Crash \/ Publish!Drift \/ Publish!Restored
    PROVE  Publish!TypeOK'
<1> USE OperatorAssumption
    DEF Publish!Goto, Publish!Stop, Publish!Refuse, Publish!Fault, Publish!Stage, Publish!File,
        Publish!evidence, Publish!Append
<1>0. Publish!TypeOK
  BY DEF PublicationInv
<1>1. CASE /\ UNCHANGED world
           /\ \/ Publish!Begin \/ Publish!BeforeIntent \/ Publish!ObserveIntent
              \/ Publish!BeforeRename \/ Publish!AfterReplace \/ Publish!BeforeUnlink
  <2> USE <1>0, <1>1
      DEF Publish!TypeOK, Publish!Begin, Publish!BeforeIntent, Publish!ObserveIntent,
          Publish!BeforeRename, Publish!AfterReplace, Publish!BeforeUnlink
  <2>1. /\ publication' \in Publish!Stage /\ published' \in 1 .. Authority + 1
        /\ trace' \in {"absent", "whole", "torn"}
        /\ UNCHANGED <<publishing, completed, authority, staged, litter, world>>
    OBVIOUS
  <2>2. faults' \in Nat
    OBVIOUS
  <2>3. publishDoubt' \in BOOLEAN
    OBVIOUS
  <2> QED BY <2>1, <2>2, <2>3
<1>2. CASE UNCHANGED world /\ Publish!StageFile
  <2> USE <1>0, <1>2 DEF Publish!TypeOK, Publish!StageFile
  <2>1. published' \in 1 .. Authority + 1 /\ publication' \in Publish!Stage
    OBVIOUS
  <2>2. staged' \in [Publish!File -> {"absent", "whole", "torn"}]
    OBVIOUS
  <2>3. /\ faults' \in Nat
        /\ UNCHANGED <<publishing, completed, trace, litter, authority, publishDoubt, world>>
    OBVIOUS
  <2> QED BY <2>1, <2>2, <2>3
<1>3. CASE UNCHANGED world /\ (Publish!LinkIntent \/ Publish!RecordCompletion \/ Publish!Finalize)
  <2> USE <1>0, <1>3 DEF Publish!TypeOK, Publish!LinkIntent, Publish!RecordCompletion,
          Publish!Finalize
  <2>1. /\ publication' \in Publish!Stage /\ UNCHANGED <<published, authority, staged, world>>
        /\ publishing' \in {"absent", "exact", "changed"}
        /\ completed' \in {"absent", "exact", "changed"}
        /\ trace' \in {"absent", "whole", "torn"}
    OBVIOUS
  <2>2. faults' \in Nat
    OBVIOUS
  <2>3. litter' \in BOOLEAN /\ publishDoubt' \in BOOLEAN
    OBVIOUS
  <2> QED BY <2>1, <2>2, <2>3
<1>4. CASE UNCHANGED world /\ (Publish!BeforeReplace \/ Publish!AfterRename)
  <2> USE <1>0, <1>4 DEF Publish!TypeOK, Publish!BeforeReplace, Publish!AfterRename
  <2>1. published' \in 1 .. Authority + 1
    BY DEF PublicationInv, PublicationSeen
  <2>2. /\ publication' \in Publish!Stage /\ trace' \in {"absent", "whole", "torn"}
        /\ UNCHANGED <<publishing, completed, staged, litter, authority, publishDoubt, world>>
    OBVIOUS
  <2>3. faults' \in Nat
    OBVIOUS
  <2> QED BY <2>1, <2>2, <2>3
<1>5. CASE UNCHANGED world /\ Publish!Rename
  <2> USE <1>0, <1>5 DEF Publish!TypeOK, Publish!Rename
  <2>1. /\ authority' \in [Publish!File -> {"old", "new", "foreign"}]
        /\ staged' \in [Publish!File -> {"absent", "whole", "torn"}]
    OBVIOUS
  <2>2. /\ publication' \in Publish!Stage /\ trace' \in {"absent", "whole", "torn"}
        /\ UNCHANGED <<publishing, completed, litter, published, publishDoubt, world>>
        /\ faults' \in Nat
    OBVIOUS
  <2> QED BY <2>1, <2>2
<1>6. CASE Publish!Crash
  <2>1. publication' \in Publish!Stage /\ faults' \in Nat
    BY <1>0, <1>6 DEF Publish!TypeOK, Publish!Crash
  <2> QED BY <1>0, <1>6, <2>1 DEF Publish!TypeOK, Publish!Crash
<1>7. CASE Publish!Drift
  <2> USE <1>0, <1>7 DEF Publish!TypeOK, Publish!Drift
  <2>1. authority' \in [Publish!File -> {"old", "new", "foreign"}]
    OBVIOUS
  <2>2. /\ publishing' \in {"absent", "exact", "changed"}
        /\ completed' \in {"absent", "exact", "changed"}
        /\ UNCHANGED <<staged, trace, litter, publication, published>>
    OBVIOUS
  <2>3. faults' \in Nat
    OBVIOUS
  <2>4. world' \in BOOLEAN /\ publishDoubt' \in BOOLEAN
    OBVIOUS
  <2> QED BY <2>1, <2>2, <2>3, <2>4
<1>8. CASE Publish!Restored
  <2>1. authority' \in [Publish!File -> {"old", "new", "foreign"}]
    BY <1>0, <1>8 DEF Publish!TypeOK, Publish!Restored
  <2> QED BY <1>0, <1>8, <2>1 DEF Publish!TypeOK, Publish!Restored
<1> QED
  BY <1>1, <1>2, <1>3, <1>4, <1>5, <1>6, <1>7, <1>8 DEF Publish!Controller

(* Every step of the publication, of outsiders too, keeps its part.          *)
LEMMA PublicationKept ==
    ASSUME PublicationInv, Publish!Controller \/ Publish!Crash \/ Publish!Drift \/ Publish!Restored
    PROVE  PublicationInv'
<1> SUFFICES PublicationSeen'
  BY PublicationTyped DEF PublicationInv
<1> USE DEF PublicationInv, PublicationSeen, BeforeCompletion, Publish!Goto, Publish!Stop,
        Publish!Refuse, Publish!File, Publish!Append, Publish!evidence
<1>1. CASE Publish!Begin \/ Publish!StageFile
  BY <1>1 DEF Publish!Begin, Publish!StageFile
<1>2. CASE Publish!BeforeIntent \/ Publish!LinkIntent \/ Publish!ObserveIntent
  BY <1>2 DEF Publish!BeforeIntent, Publish!LinkIntent, Publish!ObserveIntent, Publish!Inputs
<1>3. CASE Publish!BeforeReplace \/ Publish!Rename \/ Publish!AfterRename
  BY <1>3 DEF Publish!BeforeReplace, Publish!Rename, Publish!AfterRename
<1>4. CASE Publish!BeforeRename
  BY <1>4 DEF Publish!BeforeRename, Publish!Boundary, Publish!Bound, Publish!Inputs
<1>5. CASE Publish!AfterReplace \/ Publish!RecordCompletion \/ Publish!BeforeUnlink
  BY <1>5 DEF Publish!AfterReplace, Publish!RecordCompletion, Publish!BeforeUnlink, Publish!Inputs
<1>6. CASE Publish!Finalize \/ Publish!Crash
  BY <1>6 DEF Publish!Finalize, Publish!Crash
<1>7. CASE Publish!Drift \/ Publish!Restored
  BY <1>7 DEF Publish!Drift, Publish!Restored
<1> QED BY <1>1, <1>2, <1>3, <1>4, <1>5, <1>6, <1>7 DEF Publish!Controller

(* Every step of the publication is one that a publication of files may      *)
(* take, or changes nothing of it.                                           *)
LEMMA AuthorityPublishes ==
    ASSUME PublicationInv, Publish!Controller \/ Publish!Crash \/ Publish!Drift \/ Publish!Restored
    PROVE  [Publish!FileSet!Next]_(Publish!FileSet!vars)
<1> USE DEF PublicationInv, PublicationSeen, BeforeCompletion, Publish!File, Publish!Goto,
        Publish!Stop, Publish!Refuse, Publish!Append, Publish!evidence,
        Publish!FileSet!Next, Publish!FileSet!vars
<1>1. CASE Publish!Begin \/ Publish!BeforeRename \/ Publish!BeforeUnlink
  BY <1>1 DEF Publish!Begin, Publish!BeforeRename, Publish!BeforeUnlink, Publish!FileSet!Look
<1>2. CASE Publish!BeforeIntent
  BY <1>2 DEF Publish!BeforeIntent, Publish!FileSet!Look
<1>3. CASE Publish!LinkIntent
  BY <1>3 DEF Publish!LinkIntent, Publish!FileSet!Raise
<1>4. CASE \/ Publish!StageFile \/ Publish!ObserveIntent \/ Publish!BeforeReplace
           \/ Publish!AfterRename \/ Publish!AfterReplace \/ Publish!Crash
  <2>1. UNCHANGED <<publishing, authority, publishDoubt>>
    BY <1>4 DEF Publish!StageFile, Publish!ObserveIntent, Publish!BeforeReplace,
       Publish!AfterRename, Publish!AfterReplace, Publish!Crash
  <2> QED BY <2>1
<1>5. CASE Publish!Rename
  BY <1>5 DEF Publish!Rename, Publish!FileSet!Replace
<1>6. CASE Publish!RecordCompletion
  BY <1>6 DEF Publish!RecordCompletion, Publish!FileSet!Look
<1>7. CASE Publish!Finalize
  BY <1>7 DEF Publish!Finalize, Publish!FileSet!Lower
<1>8. CASE Publish!Drift \/ Publish!Restored
  <2>1. publishDoubt' /\ authority' \in [1 .. Authority -> {"old", "new", "foreign"}]
    BY <1>8, PublicationTyped DEF Publish!Drift, Publish!Restored, Publish!TypeOK
  <2> QED BY <2>1 DEF Publish!FileSet!Outside, Publish!FileSet!Contents
<1> QED
  BY <1>1, <1>2, <1>3, <1>4, <1>5, <1>6, <1>7, <1>8 DEF Publish!Controller

------------------------------------------------------------------------------
(* Commissioning.                                                            *)
Late == {"linked", "unlinked", "rollback", "remove", "passing", "passed"}

(* What an invocation has written is whole for good.                         *)
Unwritten ==
    \A i \in Commission!Invocation :
        place[i] \in {"idle", "inspected", "staging"} => bytes[i] = "none"

(* Unless outsiders meddle, only one invocation has linked a manifest and    *)
(* not given it up, and what passes is exact.                                *)
OneLinked ==
    meddled = "no" =>
        \A i \in Commission!Invocation :
            /\ place[i] \in Late =>
                  manifest # 0 /\ \A j \in Commission!Invocation : place[j] \in Late => j = i
            /\ place[i] = "passing" => Commission!Exact(i, manifest)

(* A foreign manifest is not about to be removed.                            *)
RemovesOwn ==
    meddled # "unseen" =>
        \A i \in Commission!Invocation : place[i] = "remove" => manifest # Commission!Foreign

CommissionInv == Commission!TypeOK /\ Unwritten /\ OneLinked /\ RemovesOwn

(* Before the first commissioning.                                           *)
LEMMA CommissionInit == ASSUME Commission!Init PROVE CommissionInv
<1> USE OperatorAssumption DEF Commission!Init, Commission!Invocation
<1>1. Commission!TypeOK
  <2>1. /\ temporary \in 0 .. Invocations /\ manifest \in Commission!Inode
        /\ identity \in [Commission!Invocation -> 0 .. Invocations]
        /\ meddled \in {"no", "seen", "unseen"} /\ faults \in Nat
    BY DEF Commission!Inode, Commission!Foreign
  <2>2. /\ bytes \in [Commission!Invocation -> {"none", "part", "whole"}]
        /\ input \in [Commission!Invocation -> {"one", "other"}]
        /\ place \in [Commission!Invocation -> Commission!Place]
    BY DEF Commission!Place, Commission!Ended
  <2>3. tidy \in BOOLEAN
    OBVIOUS
  <2> QED BY <2>1, <2>2, <2>3 DEF Commission!TypeOK
<1> QED
  BY <1>1 DEF CommissionInv, Unwritten, OneLinked, RemovesOwn, Late

(* Every step of an invocation, and of outsiders, keeps the types.           *)
LEMMA CommissionTyped ==
    ASSUME Commission!TypeOK, Commission!Controller \/ Commission!Crash \/ Commission!Drift
    PROVE  Commission!TypeOK'
<1> USE OperatorAssumption
    DEF Commission!Goto, Commission!Look, Commission!Fault, Commission!Place, Commission!Ended
<1>1. ASSUME NEW i \in Commission!Invocation, Commission!Step(i)
      PROVE  Commission!TypeOK'
  <2>1. /\ i \in 0 .. Invocations /\ 0 \in Commission!Inode
        /\ 0 .. Invocations \subseteq Commission!Inode
    BY <1>1 DEF Commission!Invocation, Commission!Inode, Commission!Foreign
  <2> USE <1>1, <2>1
      DEF Commission!Step, Commission!Inspect, Commission!CheckTemporary, Commission!OpenStaged,
          Commission!WriteStaged, Commission!Validate, Commission!Recheck, Commission!Identify,
          Commission!Link, Commission!UnlinkStaged, Commission!Doctor, Commission!CheckRollback,
          Commission!Rollback, Commission!Clean
  <2>2. \E next \in Commission!Place : place' = [place EXCEPT ![i] = next]
    OBVIOUS
  <2>3. place' \in [Commission!Invocation -> Commission!Place]
    BY <2>2 DEF Commission!TypeOK
  <2>4. /\ temporary' \in 0 .. Invocations /\ manifest' \in Commission!Inode
        /\ identity' \in [Commission!Invocation -> 0 .. Invocations]
    BY DEF Commission!TypeOK
  <2>5. bytes' \in [Commission!Invocation -> {"none", "part", "whole"}]
    BY DEF Commission!TypeOK
  <2>6. UNCHANGED <<input, tidy, meddled>>
    OBVIOUS
  <2>7. faults' \in Nat
    BY DEF Commission!TypeOK
  <2> QED
    BY <2>3, <2>4, <2>5, <2>6, <2>7 DEF Commission!TypeOK
<1>2. CASE Commission!Crash
  BY <1>2 DEF Commission!Crash, Commission!TypeOK
<1>3. CASE Commission!Drift
  <2> USE <1>3 DEF Commission!Drift, Commission!TypeOK, Commission!local
  <2>1. /\ temporary' \in 0 .. Invocations /\ manifest' \in Commission!Inode
        /\ faults' \in Nat /\ UNCHANGED <<bytes, input, place, identity>>
    BY DEF Commission!Inode, Commission!Foreign
  <2>2. meddled' \in {"no", "seen", "unseen"}
    OBVIOUS
  <2>3. tidy' \in BOOLEAN
    OBVIOUS
  <2> QED BY <2>1, <2>2, <2>3
<1> QED BY <1>1, <1>2, <1>3 DEF Commission!Controller

(* An invocation moves alone, and what its steps mean to the others.         *)
LEMMA StepEffect ==
    ASSUME CommissionInv, NEW i \in Commission!Invocation, Commission!Step(i)
    PROVE  /\ \A j \in Commission!Invocation \ {i} :
                 place'[j] = place[j] /\ bytes'[j] = bytes[j]
           /\ UNCHANGED <<input, meddled>>
           /\ manifest' # manifest =>
                 /\ place'[i] # place[i] /\ place'[i] # "passed"
                 /\ \/ place[i] = "linking" /\ manifest = 0 /\ manifest' \in Commission!Invocation
                    \/ place[i] = "remove" /\ manifest' = 0 /\ place'[i] \notin Late
           /\ place'[i] \in Late =>
                 \/ place[i] \in Late
                 \/ place[i] = "linking" /\ manifest = 0 /\ manifest' # 0
           /\ place'[i] = "passing" => Commission!Exact(i, manifest) /\ manifest' = manifest
           /\ place'[i] = "passed" => place[i] = "passing"
           /\ place'[i] = "remove" => manifest \in Commission!Invocation /\ manifest' = manifest
           /\ bytes[i] = "whole" => bytes'[i] = "whole"
           /\ place'[i] \in {"idle", "inspected", "staging"} =>
                 place[i] \in {"idle", "inspected", "staging"} /\ bytes'[i] = bytes[i]
<1> USE OperatorAssumption
    DEF Commission!Goto, Commission!Look, Commission!Step, Commission!Inspect,
        Commission!CheckTemporary, Commission!OpenStaged, Commission!WriteStaged,
        Commission!Validate, Commission!Recheck, Commission!Identify, Commission!Link,
        Commission!UnlinkStaged, Commission!Doctor, Commission!CheckRollback,
        Commission!Rollback, Commission!Clean
<1>1. /\ place \in [Commission!Invocation -> Commission!Place]
      /\ bytes \in [Commission!Invocation -> {"none", "part", "whole"}]
      /\ place[i] = "staging" => bytes[i] = "none"
      /\ temporary # 0 => temporary \in Commission!Invocation
  BY DEF CommissionInv, Commission!TypeOK, Unwritten, Commission!Invocation
<1>2. \A j \in Commission!Invocation \ {i} : place'[j] = place[j] /\ bytes'[j] = bytes[j]
  BY <1>1
<1>3. UNCHANGED <<input, meddled>>
  OBVIOUS
<1>4. manifest' # manifest =>
         /\ place'[i] # place[i] /\ place'[i] # "passed"
         /\ \/ place[i] = "linking" /\ manifest = 0 /\ manifest' \in Commission!Invocation
            \/ place[i] = "remove" /\ manifest' = 0 /\ place'[i] \notin Late
  BY <1>1 DEF Late
<1>5. place'[i] \in Late => \/ place[i] \in Late
                            \/ place[i] = "linking" /\ manifest = 0 /\ manifest' # 0
  BY <1>1 DEF Late
<1>6. /\ place'[i] = "passing" => Commission!Exact(i, manifest) /\ manifest' = manifest
      /\ place'[i] = "passed" => place[i] = "passing"
  BY <1>1
<1>7. place'[i] = "remove" => manifest \in Commission!Invocation /\ manifest' = manifest
  BY <1>1 DEF Commission!Exact
<1>8. bytes[i] = "whole" => bytes'[i] = "whole"
  BY <1>1
<1>9. place'[i] \in {"idle", "inspected", "staging"} =>
         place[i] \in {"idle", "inspected", "staging"} /\ bytes'[i] = bytes[i]
  BY <1>1
<1> HIDE DEF Commission!Step
<1> QED BY <1>2, <1>3, <1>4, <1>5, <1>6, <1>7, <1>8, <1>9

(* Bytes that an invocation found exact stay so.                             *)
LEMMA ExactStable ==
    ASSUME UNCHANGED <<input, manifest>>, NEW i,
           \A j \in Commission!Invocation : bytes[j] = "whole" => bytes'[j] = "whole",
           Commission!Exact(i, manifest)
    PROVE  Commission!Exact(i, manifest)'
BY DEF Commission!Exact

(* Every step of an invocation, of outsiders too, keeps its part.            *)
LEMMA CommissionKept ==
    ASSUME CommissionInv, Commission!Controller \/ Commission!Crash \/ Commission!Drift
    PROVE  CommissionInv'
<1>1. Commission!TypeOK'
  BY CommissionTyped DEF CommissionInv
<1>2. /\ place \in [Commission!Invocation -> Commission!Place]
      /\ Commission!Foreign \notin Commission!Invocation /\ Commission!Foreign # 0
  BY OperatorAssumption
  DEF CommissionInv, Commission!TypeOK, Commission!Foreign, Commission!Invocation
<1>3. ASSUME NEW i \in Commission!Invocation, Commission!Step(i)
      PROVE  Unwritten' /\ OneLinked' /\ RemovesOwn'
  <2> USE <1>3, StepEffect
  <2>1. Unwritten'
    BY DEF CommissionInv, Unwritten
  <2>2. ASSUME meddled' = "no", NEW k \in Commission!Invocation, place'[k] \in Late
        PROVE  /\ manifest' # 0
               /\ \A j \in Commission!Invocation : place'[j] \in Late => j = k
               /\ k # i => manifest' = manifest
    <3>1. \A j \in Commission!Invocation :
             place[j] \in Late =>
                manifest # 0 /\ \A l \in Commission!Invocation : place[l] \in Late => l = j
      BY <2>2 DEF CommissionInv, OneLinked
    <3>2. CASE k = i
      BY <2>2, <3>1, <3>2
    <3>3. CASE k # i
      <4>1. place[k] \in Late /\ place[i] \notin Late
        BY <2>2, <3>1, <3>3
      <4>2. manifest' = manifest
        BY <3>1, <4>1 DEF Late
      <4> QED BY <2>2, <3>1, <4>1, <4>2
    <3> QED BY <3>2, <3>3
  <2>3. ASSUME meddled' = "no", NEW k \in Commission!Invocation, place'[k] = "passing"
        PROVE  Commission!Exact(k, manifest)'
    <3>1. \A j \in Commission!Invocation : bytes[j] = "whole" => bytes'[j] = "whole"
      OBVIOUS
    <3>2. CASE k = i
      BY <2>3, <3>1, <3>2, ExactStable
    <3>3. CASE k # i
      <4>1. Commission!Exact(k, manifest)
        BY <2>3, <3>3 DEF CommissionInv, OneLinked
      <4>2. manifest' = manifest
        BY <2>2, <2>3, <3>3 DEF Late
      <4> QED BY <3>1, <4>1, <4>2, ExactStable
    <3> QED BY <3>2, <3>3
  <2>4. OneLinked'
    BY <2>2, <2>3 DEF OneLinked
  <2>5. RemovesOwn'
    BY <1>2 DEF CommissionInv, RemovesOwn
  <2> QED BY <2>1, <2>4, <2>5
<1>4. ASSUME Commission!Crash
      PROVE  Unwritten' /\ OneLinked' /\ RemovesOwn'
  <2>1. PICK i \in Commission!Invocation : place' = [place EXCEPT ![i] = "died"]
    BY <1>4 DEF Commission!Crash, Commission!Goto
  <2>2. \A j \in Commission!Invocation :
           place'[j] = place[j] \/ place'[j] = "died"
    BY <1>2, <2>1
  <2>3. UNCHANGED <<manifest, bytes, input, meddled>>
    BY <1>4 DEF Commission!Crash
  <2>4. Unwritten' /\ RemovesOwn'
    BY <2>2, <2>3 DEF CommissionInv, Unwritten, RemovesOwn
  <2>5. OneLinked'
    <3>1. ASSUME meddled' = "no", NEW j \in Commission!Invocation, place'[j] = "passing"
          PROVE  Commission!Exact(j, manifest)'
      BY <2>2, <2>3, <3>1, ExactStable DEF CommissionInv, OneLinked
    <3> QED BY <2>2, <2>3, <3>1 DEF CommissionInv, OneLinked, Late
  <2> QED BY <2>4, <2>5
<1>5. ASSUME Commission!Drift
      PROVE  Unwritten' /\ OneLinked' /\ RemovesOwn'
  <2>1. UNCHANGED <<bytes, input, place>>
    BY <1>5 DEF Commission!Drift, Commission!local
  <2>2. CASE manifest' = manifest /\ meddled' = meddled
    <3>1. \A j : Commission!Exact(j, manifest) => Commission!Exact(j, manifest)'
      BY <2>1, <2>2 DEF Commission!Exact
    <3> QED BY <2>1, <2>2, <3>1 DEF CommissionInv, Unwritten, OneLinked, RemovesOwn
  <2>3. CASE ~(manifest' = manifest /\ meddled' = meddled)
    <3>1. /\ meddled' = "no" => \A i \in Commission!Invocation : place[i] \notin Late
          /\ meddled' # "unseen" => \A i \in Commission!Invocation : place[i] # "remove"
      BY <1>5, <2>3 DEF Commission!Drift, Commission!At, Late
    <3> QED BY <2>1, <3>1 DEF CommissionInv, Unwritten, OneLinked, RemovesOwn, Late
  <2> QED BY <2>2, <2>3
<1> QED
  BY <1>1, <1>3, <1>4, <1>5 DEF CommissionInv, Commission!Controller

(* At most one has passed, unless outsiders changed what was published.      *)
LEMMA OncePassed ==
    ASSUME CommissionInv
    PROVE  meddled = "no" => \A i, j \in Commission!Passed : i = j
BY DEF CommissionInv, OneLinked, Commission!Passed, Late

(* What every step of an invocation, or of outsiders, does to the manifest.  *)
PassesExactly ==
    meddled' = "no" =>
        /\ \A i \in Commission!Passed' \ Commission!Passed : Commission!Exact(i, manifest)
        /\ manifest' \notin {manifest, Commission!Foreign} => Commission!Passed' = {}

ForeignKept ==
    manifest = Commission!Foreign /\ place' # place /\ meddled # "unseen"
        => manifest' = Commission!Foreign

(* Who passes has its exact bytes in the manifest, which only outsiders can  *)
(* change then, and a foreign manifest stays.                                *)
LEMMA CommissionAuthorised ==
    ASSUME CommissionInv, Commission!Controller \/ Commission!Crash \/ Commission!Drift
    PROVE  PassesExactly /\ ForeignKept
<1>1. /\ place \in [Commission!Invocation -> Commission!Place]
      /\ Commission!Foreign # 0
  BY OperatorAssumption
  DEF CommissionInv, Commission!TypeOK, Commission!Foreign, Commission!Invocation
<1>2. ASSUME NEW i \in Commission!Invocation, Commission!Step(i)
      PROVE  PassesExactly /\ ForeignKept
  <2> USE <1>2, StepEffect
  <2>1. ASSUME meddled' = "no", NEW k \in Commission!Passed' \ Commission!Passed
        PROVE  Commission!Exact(k, manifest)
    BY <2>1 DEF Commission!Passed, CommissionInv, OneLinked
  <2>2. ASSUME meddled' = "no", manifest' \notin {manifest, Commission!Foreign}
        PROVE  Commission!Passed' = {}
    <3>1. \A k \in Commission!Invocation : place[k] # "passed"
      BY <2>2 DEF CommissionInv, OneLinked, Late
    <3> QED BY <2>2, <3>1 DEF Commission!Passed
  <2>3. ForeignKept
    BY <1>1 DEF ForeignKept, CommissionInv, RemovesOwn
  <2> QED BY <2>1, <2>2, <2>3 DEF PassesExactly
<1>3. CASE Commission!Crash
  <2>1. Commission!Passed' \subseteq Commission!Passed /\ manifest' = manifest
    BY <1>1, <1>3 DEF Commission!Crash, Commission!Passed, Commission!Goto
  <2> QED BY <2>1 DEF PassesExactly, ForeignKept
<1>4. CASE Commission!Drift
  <2>1. place' = place /\ Commission!Passed' = Commission!Passed
    BY <1>4 DEF Commission!Drift, Commission!local, Commission!Passed
  <2>2. manifest' # manifest /\ meddled' = "no" => Commission!Passed = {}
    BY <1>4 DEF Commission!Drift, Commission!At, Commission!Passed
  <2> QED BY <2>1, <2>2 DEF PassesExactly, ForeignKept
<1> QED BY <1>2, <1>3, <1>4 DEF Commission!Controller

------------------------------------------------------------------------------
(* All commands together: only one runs.                                     *)
OneRuns ==
    /\ removal # "down" => step = "down" /\ amendment = "down" /\ publication = "down"
    /\ step # "down" => amendment = "down" /\ publication = "down"
    /\ amendment # "down" => publication = "down"

(* A publication that is about to be published has found nothing pending,    *)
(* and one that is pending admits no deletion and no reconciliation.         *)
PublicationAlone ==
    /\ publication = "link" => ~OperationPending /\ rec.phase = "none"
    /\ publishing = "exact" => removal = "down" /\ step = "down"

OwnerInv == OneRuns /\ PublicationAlone /\ OneOwner

IInv ==
    /\ CommissionInv /\ commissioned \in BOOLEAN
    /\ RemovalInv /\ StepInv /\ AmendmentInv /\ PublicationInv /\ OwnerInv

(* The initial state satisfies the inductive invariant.                      *)
LEMMA InitInv == Init => IInv
<1> SUFFICES ASSUME Init PROVE IInv
  OBVIOUS
<1>1. OwnerInv
  BY DEF Init, OwnerInv, OneRuns, PublicationAlone, OneOwner, OperationPending, Retention!Active,
     Retention!Init, Reconcile!Init, Amend!Init, Publish!Init, Reconcile!NoRecord
<1>2. commissioned \in BOOLEAN
  BY DEF Init
<1> QED
  BY <1>1, <1>2, CommissionInit, RemovalInit, StepInit, AmendmentInit, PublicationInit
  DEF Init, IInv

(* A command that has the lease runs alone, and started only if admitted.    *)
LEMMA LeasedAlone ==
    /\ \A admitted : Leased("removal", admitted) =>
          /\ step = "down" /\ amendment = "down" /\ publication = "down"
          /\ removal = "down" => admitted
    /\ \A admitted : Leased("step", admitted) =>
          /\ removal = "down" /\ amendment = "down" /\ publication = "down"
          /\ step = "down" => admitted
    /\ \A admitted : Leased("amendment", admitted) =>
          removal = "down" /\ step = "down" /\ publication = "down"
    /\ \A admitted : Leased("publication", admitted) =>
          removal = "down" /\ step = "down" /\ amendment = "down"
BY DEF Leased, Running, Name

(* A deletion becomes pending only if no reconciliation is active.           *)
LEMMA DeletionRaised ==
    ASSUME RemovalInv, ~OperationPending, OperationPending', Retention!Controller
    PROVE  rec.phase = "none"
<1>1. removal = "down" /\ phase \notin Retention!Active \cup {"blocked"}
  BY DEF RemovalInv, RemovalFits, OperationPending
<1>2. Retention!PublishIntent
  BY <1>1 DEF Retention!Controller, Retention!Restart, Retention!Inspect,
     Retention!Authorise, Retention!JournalDeleting, Retention!InspectTarget, Retention!Remove,
     Retention!JournalDeleted, Retention!FinishDeletion, Retention!JournalExact,
     Retention!AuthoriseNext, Retention!WriteResult, Retention!PublishResult,
     Retention!Complete, Retention!Block, Retention!Converge
<1> QED BY <1>2 DEF Retention!PublishIntent

(* A reconciliation becomes active only if no operation is pending.          *)
LEMMA ReconciliationRaised ==
    ASSUME StepInv, rec.phase = "none", rec'.phase # "none", Reconcile!Controller
    PROVE  ~OperationPending
<1>1. step \in Early
  BY DEF StepInv, StepFits
<1>2. Reconcile!Begin \/ Reconcile!Capture \/ Reconcile!Prepare
  BY <1>1 DEF Early, Reconcile!Controller, Reconcile!Resume, Reconcile!CheckVerify,
     Reconcile!RunTier, Reconcile!PublishVerified, Reconcile!CheckReview, Reconcile!Review,
     Reconcile!PublishReview, Reconcile!Decide, Reconcile!CheckAdopt, Reconcile!Validate,
     Reconcile!Adopt, Reconcile!StartQueueing, Reconcile!Complete, Reconcile!Recapture,
     Reconcile!Reset, Reconcile!Fail, Reconcile!At
<1> QED
  BY <1>2 DEF Reconcile!Begin, Reconcile!Capture, Reconcile!Prepare, Reconcile!Look

(* A publication is published from the step before, which finds nothing      *)
(* pending.                                                                  *)
LEMMA PublicationRaised ==
    ASSUME Publish!Controller
    PROVE  /\ publishing' = "exact" => publishing = "exact" \/ publication = "link"
           /\ publication' = "link" => ~OperationPending /\ rec.phase = "none"
<1> USE DEF Publish!Goto, Publish!Stop, Publish!Refuse, Publish!Append
<1>1. CASE Publish!LinkIntent \/ Publish!BeforeIntent
  BY <1>1 DEF Publish!LinkIntent, Publish!BeforeIntent, Publish!Inputs
<1>2. CASE ~(Publish!LinkIntent \/ Publish!BeforeIntent)
  BY <1>2
  DEF Publish!Controller, Publish!Begin, Publish!StageFile, Publish!ObserveIntent,
      Publish!BeforeReplace, Publish!BeforeRename, Publish!Rename, Publish!AfterRename,
      Publish!AfterReplace, Publish!RecordCompletion, Publish!BeforeUnlink, Publish!Finalize
<1> QED BY <1>1, <1>2

(* No two commands come to own the state.                                    *)
LEMMA OwnerKept == IInv /\ [Next]_vars => OwnerInv'
<1> SUFFICES ASSUME IInv, [Next]_vars PROVE OwnerInv'
  OBVIOUS
<1> USE DEF IInv, OwnerInv, OneRuns, PublicationAlone, OneOwner
<1>1. CASE RetentionRuns
  <2>1. /\ step = "down" /\ amendment = "down" /\ publication = "down"
        /\ removal = "down" => publishing = "absent"
    BY <1>1, LeasedAlone DEF RetentionRuns, Ordinary, LegacyAuthority
  <2>2. UNCHANGED <<rec, step, amendment, publishing, publication>>
    BY <1>1 DEF RetentionRuns, reconcileVars, amendVars, publishVars
  <2>3. OperationPending' => OperationPending \/ rec.phase = "none"
    BY <1>1, DeletionRaised DEF RetentionRuns
  <2>4. publishing # "exact"
    BY <2>1
  <2> QED BY <2>1, <2>2, <2>3, <2>4
<1>2. CASE ReconciliationRuns
  <2>1. /\ removal = "down" /\ amendment = "down" /\ publication = "down"
        /\ step = "down" => publishing = "absent"
    BY <1>2, LeasedAlone DEF ReconciliationRuns, Ordinary, LegacyAuthority
  <2>2. UNCHANGED <<phase, removal, amendment, publishing, publication>>
    BY <1>2 DEF ReconciliationRuns, retentionVars, amendVars, publishVars
  <2>3. rec'.phase # "none" => rec.phase # "none" \/ ~OperationPending
    BY <1>2, ReconciliationRaised DEF ReconciliationRuns
  <2>4. publishing # "exact" /\ OperationPending' = OperationPending
    BY <2>1, <2>2 DEF OperationPending
  <2> QED BY <2>1, <2>2, <2>3, <2>4
<1>3. CASE AmendmentRuns
  <2>1. removal = "down" /\ step = "down" /\ publication = "down"
    BY <1>3, LeasedAlone DEF AmendmentRuns
  <2>2. UNCHANGED <<phase, rec, removal, step, publishing, publication>>
    BY <1>3 DEF AmendmentRuns, TreeChangedBy, retentionRest, reconcileRest, publishVars
  <2> QED BY <2>1, <2>2 DEF OperationPending
<1>4. CASE PublicationRuns
  <2>1. removal = "down" /\ step = "down" /\ amendment = "down"
    BY <1>4, LeasedAlone DEF PublicationRuns
  <2>2. UNCHANGED <<phase, rec, removal, step, amendment>>
    BY <1>4 DEF PublicationRuns, TreeChangedBy, retentionRest, reconcileRest, amendVars
  <2>3. /\ publishing' = "exact" => publishing = "exact" \/ publication = "link"
        /\ publication' = "link" => ~OperationPending /\ rec.phase = "none"
    BY <1>4, PublicationRaised DEF PublicationRuns
  <2>4. OperationPending' = OperationPending
    BY <2>2 DEF OperationPending
  <2> QED BY <2>1, <2>2, <2>3, <2>4
<1>5. CASE RetentionDisturbed
  <2>1. UNCHANGED <<phase, rec, step, amendment, publishing, publication>>
    BY <1>5 DEF RetentionDisturbed, reconcileVars, amendVars, publishVars,
       Retention!Environment, Retention!Plan, Retention!Crash, Retention!Drift
  <2>2. removal' \in {removal, "down"}
    BY <1>5 DEF RetentionDisturbed, Retention!Environment, Retention!Plan, Retention!Crash,
       Retention!Drift, Retention!Goto
  <2> QED BY <2>1, <2>2 DEF OperationPending
<1>6. CASE ReconciliationDisturbed
  <2>1. UNCHANGED <<phase, rec, removal, amendment, publishing, publication>>
    BY <1>6 DEF ReconciliationDisturbed, ApprovalDisturbed, retentionRest, amendVars,
       publishVars, Reconcile!Environment, Reconcile!Crash, Reconcile!Drift,
       Reconcile!Committed, Reconcile!Restored
  <2>2. step' \in {step, "down"}
    BY <1>6 DEF ReconciliationDisturbed, Reconcile!Environment, Reconcile!Crash,
       Reconcile!Drift, Reconcile!Committed, Reconcile!Restored, Reconcile!Goto
  <2> QED BY <2>1, <2>2 DEF OperationPending
<1>7. CASE AmendmentDisturbed
  <2>1. UNCHANGED <<phase, rec, removal, step, publishing, publication>>
    BY <1>7 DEF AmendmentDisturbed, TreeDisturbed, ApprovalDisturbed, retentionRest,
       reconcileRest, publishVars
  <2>2. amendment' \in {amendment, "down"}
    BY <1>7 DEF AmendmentDisturbed, Amend!Crash, Amend!Drift, Amend!Restored, Amend!Stop,
       Amend!Goto
  <2> QED BY <2>1, <2>2 DEF OperationPending
<1>8. CASE PublicationDisturbed
  <2>1. UNCHANGED <<phase, rec, removal, step, amendment>>
    BY <1>8 DEF PublicationDisturbed, TreeDisturbed, ApprovalDisturbed, retentionRest,
       reconcileRest, amendVars
  <2>2. publication' \in {publication, "down"} /\ (publishing' = "exact" => publishing = "exact")
    BY <1>8 DEF PublicationDisturbed, Publish!Crash, Publish!Drift, Publish!Restored,
       Publish!Goto
  <2> QED BY <2>1, <2>2 DEF OperationPending
<1>9. CASE CommissioningRuns \/ CommissioningDisturbed \/ Activate \/ UNCHANGED vars
  <2>1. UNCHANGED <<phase, rec, removal, step, amendment, publishing, publication>>
    BY <1>9 DEF CommissioningRuns, CommissioningDisturbed, Activate, vars, stateVars,
       retentionVars, reconcileVars, amendVars, publishVars
  <2> QED BY <2>1 DEF OperationPending
<1> QED
  BY <1>1, <1>2, <1>3, <1>4, <1>5, <1>6, <1>7, <1>8, <1>9 DEF Next

(* A change of the tree undoes an approval; only a running process saw it.    *)
ApprovalKept ==
    /\ UNCHANGED retentionRest
    /\ approved' \in BOOLEAN /\ disturbed' \in BOOLEAN /\ raced' \in BOOLEAN
    /\ removal = "down" \/ raced' \/ UNCHANGED <<approved, raced>>

(* It ends what a reconciliation is for; only one about to adopt cares.      *)
TreeKept ==
    /\ UNCHANGED reconcileRest /\ clean' \in BOOLEAN /\ doubt' \in BOOLEAN
    /\ step # "adopt" \/ doubt' \/ UNCHANGED <<clean, doubt>>

LEMMA Unchanged ==
    ASSUME RemovalInv, StepInv
    PROVE  /\ UNCHANGED retentionVars => ApprovalKept
           /\ UNCHANGED reconcileVars => TreeKept
BY DEF RemovalInv, Retention!TypeOK, StepInv, Reconcile!TypeOK, retentionVars, reconcileVars,
   ApprovalKept, TreeKept, retentionRest, reconcileRest

(* What a command changes is not seen by the others, which are down.         *)
LEMMA ChangedUnseen ==
    ASSUME RemovalInv, StepInv, removal = "down", step = "down",
           TreeChangedBy(amendFiles) \/ TreeChangedBy(publishFiles)
    PROVE  ApprovalKept /\ TreeKept
<1>1. ApprovalKept
  BY DEF RemovalInv, Retention!TypeOK, TreeChangedBy, ApprovalKept
<1>2. TreeKept
  BY DEF StepInv, Reconcile!TypeOK, TreeChangedBy, TreeKept
<1> QED BY <1>1, <1>2

(* What outsiders change while it runs is a race.                            *)
LEMMA DisturbedSeen ==
    ASSUME RemovalInv, StepInv
    PROVE  /\ ApprovalDisturbed(otherFiles) => ApprovalKept
           /\ TreeDisturbed(amendFiles) => ApprovalKept /\ TreeKept
           /\ TreeDisturbed(publishFiles) => ApprovalKept /\ TreeKept
<1>1. ASSUME NEW changed \in BOOLEAN,
             approved' \in IF ~changed THEN {approved} ELSE {FALSE, ~approved},
             disturbed' = (disturbed \/ (changed /\ OperationPending)),
             raced' = (raced \/ (changed /\ removal # "down")), UNCHANGED retentionRest
      PROVE  ApprovalKept
  BY <1>1 DEF RemovalInv, Retention!TypeOK, ApprovalKept
<1>2. ASSUME NEW changed \in BOOLEAN, clean' = (clean /\ ~changed),
             doubt' = (doubt \/ (changed /\ step = "adopt")), UNCHANGED reconcileRest
      PROVE  TreeKept
  BY <1>2 DEF StepInv, Reconcile!TypeOK, TreeKept
<1>3. ApprovalDisturbed(otherFiles) => ApprovalKept
  BY <1>1 DEF ApprovalDisturbed
<1>4. TreeDisturbed(amendFiles) => ApprovalKept /\ TreeKept
  BY <1>1, <1>2 DEF TreeDisturbed, ApprovalDisturbed
<1>5. TreeDisturbed(publishFiles) => ApprovalKept /\ TreeKept
  BY <1>1, <1>2 DEF TreeDisturbed, ApprovalDisturbed
<1> QED BY <1>3, <1>4, <1>5

(* A part is about its own variables; of the count of faults, which all      *)
(* commands share, it says no more than its type.                            *)
LEMMA RemovalUntouched ==
    ASSUME RemovalInv, ApprovalKept, faults' \in Nat
    PROVE  RemovalInv'
<1> USE DEF RemovalInv, ApprovalKept, retentionRest
<1>1. Retention!TypeOK' /\ RemovalFits'
  BY DEF Retention!TypeOK, RemovalFits
<1>2. RemovalSeen'
  <2>1. CASE removal = "down" \/ raced'
    BY <2>1 DEF RemovalSeen, Deleting
  <2>2. CASE UNCHANGED <<approved, raced>>
    BY <2>2 DEF RemovalSeen, Retention!WorldAsApproved, Retention!AuthorizedMissing,
       Retention!Inspection, Retention!Current
  <2> QED BY <2>1, <2>2
<1> QED BY <1>1, <1>2

(* The part of the reconciliation, when only another command moves.          *)
LEMMA StepUntouched ==
    ASSUME StepInv, TreeKept, faults' \in Nat, UNCHANGED acceptable,
           \/ UNCHANGED archive
           \/ archive' \in {archive, "missing"} /\ step = "down"
    PROVE  StepInv'
<1> USE DEF StepInv, TreeKept, reconcileRest
<1>1. archive' \in {"missing", "exact", "torn"}
  BY DEF Reconcile!TypeOK
<1>2. Reconcile!TypeOK'
  BY <1>1 DEF Reconcile!TypeOK, OperationPending
<1>3. StepFits' /\ RecordFits'
  BY DEF StepFits, RecordFits
<1>4. AdoptionSeen'
  <2>1. CASE step # "adopt" \/ doubt'
    BY <2>1 DEF AdoptionSeen
  <2>2. CASE step = "adopt" /\ UNCHANGED <<clean, doubt>>
    BY <2>2 DEF AdoptionSeen, Reconcile!Unchanged, Reconcile!Identity, Reconcile!BoundaryExact,
       Reconcile!EvidenceExact
  <2> QED BY <2>1, <2>2
<1> QED BY <1>2, <1>3, <1>4

(* The part of the amendment, when only another command moves.               *)
LEMMA AmendmentUntouched ==
    ASSUME AmendmentInv, UNCHANGED amendVars, faults' \in Nat
    PROVE  AmendmentInv'
BY DEF AmendmentInv, amendVars, Amend!TypeOK, AmendmentSeen

(* The part of the publication, when only another command moves.             *)
LEMMA PublicationUntouched ==
    ASSUME PublicationInv, UNCHANGED publishVars, faults' \in Nat
    PROVE  PublicationInv'
BY DEF PublicationInv, publishVars, Publish!TypeOK, PublicationSeen

(* The part of the commissioning, when only another command moves.           *)
LEMMA CommissionUntouched ==
    ASSUME CommissionInv, UNCHANGED commissionVars, faults' \in Nat
    PROVE  CommissionInv'
BY DEF CommissionInv, commissionVars, Commission!TypeOK, Unwritten, OneLinked, RemovesOwn,
   Commission!Exact

(* Every step keeps the inductive invariant.                                 *)
LEMMA NextInv == IInv /\ [Next]_vars => IInv'
<1> SUFFICES ASSUME IInv, [Next]_vars PROVE IInv'
  OBVIOUS
<1> USE RemovalUntouched, StepUntouched, AmendmentUntouched, PublicationUntouched,
        CommissionUntouched, OwnerKept
    DEF IInv, foundation, stateVars
<1>0. /\ UNCHANGED retentionVars => ApprovalKept
      /\ UNCHANGED reconcileVars => TreeKept /\ UNCHANGED acceptable
  BY Unchanged DEF reconcileVars
<1>1. CASE RetentionRuns
  <2>1. RemovalInv' /\ faults' \in Nat
    BY <1>1, RemovalKept DEF RetentionRuns, RemovalInv, Retention!TypeOK
  <2>2. step = "down"
    BY <1>1, LeasedAlone DEF RetentionRuns
  <2> QED BY <1>0, <1>1, <2>1, <2>2 DEF RetentionRuns
<1>2. CASE RetentionDisturbed
  <2>1. RemovalInv' /\ faults' \in Nat
    BY <1>2, RemovalKept DEF RetentionDisturbed, RemovalInv, Retention!TypeOK
  <2> QED BY <1>0, <1>2, <2>1 DEF RetentionDisturbed
<1>3. CASE ReconciliationRuns \/ ReconciliationDisturbed
  <2>1. StepInv' /\ faults' \in Nat
    BY <1>3, StepKept DEF ReconciliationRuns, ReconciliationDisturbed, StepInv, Reconcile!TypeOK
  <2>2. ApprovalKept
    BY <1>0, <1>3, DisturbedSeen DEF ReconciliationRuns, ReconciliationDisturbed
  <2> QED BY <1>3, <2>1, <2>2 DEF ReconciliationRuns, ReconciliationDisturbed
<1>4. CASE AmendmentRuns \/ AmendmentDisturbed
  <2>1. AmendmentInv' /\ faults' \in Nat
    BY <1>4, AmendmentKept DEF AmendmentRuns, AmendmentDisturbed, AmendmentInv, Amend!TypeOK
  <2>2. ApprovalKept /\ TreeKept /\ UNCHANGED acceptable
    BY <1>4, LeasedAlone, ChangedUnseen, DisturbedSeen
    DEF AmendmentRuns, AmendmentDisturbed, TreeChangedBy, TreeDisturbed, reconcileRest
  <2> QED BY <1>4, <2>1, <2>2 DEF AmendmentRuns, AmendmentDisturbed
<1>5. CASE PublicationRuns \/ PublicationDisturbed
  <2>1. PublicationInv' /\ faults' \in Nat
    BY <1>5, PublicationKept
    DEF PublicationRuns, PublicationDisturbed, PublicationInv, Publish!TypeOK
  <2>2. ApprovalKept /\ TreeKept /\ UNCHANGED acceptable
    BY <1>5, LeasedAlone, ChangedUnseen, DisturbedSeen
    DEF PublicationRuns, PublicationDisturbed, TreeChangedBy, TreeDisturbed, reconcileRest
  <2> QED BY <1>5, <2>1, <2>2 DEF PublicationRuns, PublicationDisturbed
<1>6. CASE CommissioningRuns \/ CommissioningDisturbed
  <2>1. CommissionInv' /\ faults' \in Nat
    BY <1>6, CommissionKept
    DEF CommissioningRuns, CommissioningDisturbed, CommissionInv, Commission!TypeOK
  <2> QED BY <1>0, <1>6, <2>1 DEF CommissioningRuns, CommissioningDisturbed
<1>7. CASE Activate
  <2>1. CommissionInv'
    <3> USE <1>7, OperatorAssumption DEF Activate, Commission!Invocation
    <3>1. /\ place' \in [Commission!Invocation -> Commission!Place]
          /\ bytes' \in [Commission!Invocation -> {"none", "part", "whole"}]
          /\ input' \in [Commission!Invocation -> {"one", "other"}]
          /\ identity' \in [Commission!Invocation -> 0 .. Invocations]
      BY DEF Commission!Place, Commission!Ended
    <3>2. /\ temporary' \in 0 .. Invocations /\ manifest' \in Commission!Inode
          /\ meddled' \in {"no", "seen", "unseen"} /\ UNCHANGED <<faults, tidy>>
      BY DEF Commission!Inode, Commission!Foreign
    <3>3. Commission!TypeOK'
      BY <3>1, <3>2 DEF CommissionInv, Commission!TypeOK
    <3>4. Unwritten' /\ OneLinked' /\ RemovesOwn'
      BY DEF Unwritten, OneLinked, RemovesOwn, Late
    <3> QED BY <3>3, <3>4 DEF CommissionInv
  <2>2. UNCHANGED stateVars /\ faults' \in Nat /\ commissioned' \in BOOLEAN
    BY <1>7 DEF Activate, CommissionInv, Commission!TypeOK
  <2> QED BY <1>0, <2>1, <2>2
<1>8. CASE UNCHANGED vars
  BY <1>0, <1>8 DEF vars, CommissionInv, Commission!TypeOK
<1> QED
  BY <1>1, <1>2, <1>3, <1>4, <1>5, <1>6, <1>7, <1>8 DEF Next

(* The inductive invariant holds in every reachable state.                   *)
THEOREM Invariance == Spec => []IInv
BY InitInv, NextInv, PTL DEF Spec

(* Every command's state keeps its type, whatever the other commands do.     *)
THEOREM TypeCorrectness == Spec => []TypeOK
<1>1. IInv => TypeOK
  BY DEF IInv, TypeOK, CommissionInv, RemovalInv, StepInv, AmendmentInv, PublicationInv
<1> QED BY <1>1, Invariance, PTL

(* A deletion, a reconciliation and a publication are never pending over the *)
(* same state, whichever commands crashed, were run again or were raced.     *)
THEOREM OneOwnerHolds == Spec => []OneOwner
<1>1. IInv => OneOwner
  BY DEF IInv, OwnerInv
<1> QED BY <1>1, Invariance, PTL

(* Evidence is removed, and the deletion completed, only as the operator     *)
(* approved it, unless outsiders acted while that process ran.               *)
THEOREM RetentionAuthorisedHolds == Spec => RetentionAuthorised
<1>1. IInv /\ [Next]_vars => [Retention!Authorised]_(Retention!vars)
  <2> SUFFICES ASSUME IInv, [Next]_vars PROVE [Retention!Authorised]_(Retention!vars)
    OBVIOUS
  <2>1. CASE RetentionRuns \/ RetentionDisturbed
    BY <2>1, RemovalAuthorised DEF IInv, OwnerInv, RetentionRuns, RetentionDisturbed
  <2>2. CASE ~(RetentionRuns \/ RetentionDisturbed)
    <3>1. UNCHANGED <<run, phase>>
      BY <2>2 DEF Next, vars, stateVars, retentionVars, CommissioningRuns, CommissioningDisturbed,
         Activate, ReconciliationRuns, ReconciliationDisturbed, AmendmentRuns,
         AmendmentDisturbed, PublicationRuns, PublicationDisturbed, TreeChangedBy,
         TreeDisturbed, ApprovalDisturbed, retentionRest
    <3> QED BY <3>1 DEF Retention!Authorised
  <2> QED BY <2>1, <2>2
<1> QED BY <1>1, Invariance, PTL DEF Spec, RetentionAuthorised, Retention!RetentionAuthorised

(* The verified commit moves only to a candidate that was verified and       *)
(* approved as it is, and an adopted record ends only with its milestone.    *)
THEOREM AdoptionAuthorisedHolds == Spec => AdoptionAuthorised
<1>1. IInv /\ [Next]_vars => [Reconcile!Authorised]_(Reconcile!vars)
  <2> SUFFICES ASSUME IInv, [Next]_vars PROVE [Reconcile!Authorised]_(Reconcile!vars)
    OBVIOUS
  <2>1. CASE ReconciliationRuns \/ ReconciliationDisturbed
    BY <2>1, AdoptionAuthorisedKept DEF IInv, ReconciliationRuns, ReconciliationDisturbed
  <2>2. CASE ~(ReconciliationRuns \/ ReconciliationDisturbed)
    <3>1. UNCHANGED <<verified, rec>>
      BY <2>2 DEF Next, vars, stateVars, reconcileVars, CommissioningRuns, CommissioningDisturbed,
         Activate, RetentionRuns, RetentionDisturbed, AmendmentRuns,
         AmendmentDisturbed, PublicationRuns, PublicationDisturbed, TreeChangedBy,
         TreeDisturbed, reconcileRest
    <3> QED BY <3>1 DEF Reconcile!Authorised
  <2> QED BY <2>1, <2>2
<1> QED BY <1>1, Invariance, PTL DEF Spec, AdoptionAuthorised, Reconcile!AdoptionAuthorised

(* The amendment and the source publication each implement the publication   *)
(* of a set of files: the fence is up while the set is mixed, and a foreign  *)
(* file is overwritten only behind the publisher's last look.                *)
THEOREM PublishedAsFileSetsHolds == Spec => PublishedAsFileSets
<1>1. Init => Amend!FileSet!Init /\ Publish!FileSet!Init
  BY DEF Init, Amend!Init, Publish!Init, Amend!FileSet!Init, Publish!FileSet!Init, Amend!File,
     Publish!File
<1>2. IInv /\ [Next]_vars => [Amend!FileSet!Next]_(Amend!FileSet!vars)
  <2> SUFFICES ASSUME IInv, [Next]_vars PROVE [Amend!FileSet!Next]_(Amend!FileSet!vars)
    OBVIOUS
  <2>1. CASE AmendmentRuns \/ AmendmentDisturbed
    BY <2>1, AmendmentPublishes DEF IInv, AmendmentRuns, AmendmentDisturbed
  <2>2. CASE ~(AmendmentRuns \/ AmendmentDisturbed)
    <3>1. UNCHANGED <<amending, generation, amendDoubt>>
      BY <2>2 DEF Next, vars, stateVars, amendVars, CommissioningRuns, CommissioningDisturbed,
         Activate, RetentionRuns, RetentionDisturbed, ReconciliationRuns,
         ReconciliationDisturbed, PublicationRuns, PublicationDisturbed
    <3> QED BY <3>1 DEF Amend!FileSet!vars
  <2> QED BY <2>1, <2>2
<1>3. IInv /\ [Next]_vars => [Publish!FileSet!Next]_(Publish!FileSet!vars)
  <2> SUFFICES ASSUME IInv, [Next]_vars PROVE [Publish!FileSet!Next]_(Publish!FileSet!vars)
    OBVIOUS
  <2>1. CASE PublicationRuns \/ PublicationDisturbed
    BY <2>1, AuthorityPublishes DEF IInv, PublicationRuns, PublicationDisturbed
  <2>2. CASE ~(PublicationRuns \/ PublicationDisturbed)
    <3>1. UNCHANGED <<publishing, authority, publishDoubt>>
      BY <2>2 DEF Next, vars, stateVars, publishVars, CommissioningRuns, CommissioningDisturbed,
         Activate, RetentionRuns, RetentionDisturbed, ReconciliationRuns,
         ReconciliationDisturbed, AmendmentRuns, AmendmentDisturbed
    <3> QED BY <3>1 DEF Publish!FileSet!vars
  <2> QED BY <2>1, <2>2
<1> QED
  BY <1>1, <1>2, <1>3, Invariance, PTL
  DEF Spec, PublishedAsFileSets, Amend!ImplementsFileSet, Publish!ImplementsFileSet,
      Amend!FileSet!Spec, Publish!FileSet!Spec

(* At most one commissioning passes, its exact bytes are the manifest and    *)
(* stay it, and nobody's foreign manifest is removed, unless outsiders       *)
(* changed it behind the last look.                                          *)
THEOREM CommissionedOnceHolds == Spec => CommissionedOnce
<1>1. IInv => (meddled = "no" => \A i, j \in Commission!Passed : i = j)
  BY OncePassed DEF IInv
<1>2. IInv /\ [Next]_vars => PassesExactly /\ ForeignKept
  <2> SUFFICES ASSUME IInv, [Next]_vars PROVE PassesExactly /\ ForeignKept
    OBVIOUS
  <2>1. CASE CommissioningRuns \/ CommissioningDisturbed
    BY <2>1, CommissionAuthorised DEF IInv, CommissioningRuns, CommissioningDisturbed
  <2>2. CASE Activate
    <3>1. Commission!Passed' = {}
      BY <2>2, OperatorAssumption DEF Activate, Commission!Passed, Commission!Invocation
    <3>2. manifest # Commission!Foreign
      BY <2>2, OperatorAssumption
      DEF Activate, Commission!Exact, Commission!Foreign, Commission!Invocation
    <3> QED BY <3>1, <3>2 DEF PassesExactly, ForeignKept
  <2>3. CASE ~(CommissioningRuns \/ CommissioningDisturbed \/ Activate)
    <3>1. UNCHANGED <<manifest, place>>
      BY <2>3 DEF Next, vars, foundation, commissionVars, RetentionRuns, RetentionDisturbed,
         ReconciliationRuns, ReconciliationDisturbed, AmendmentRuns, AmendmentDisturbed,
         PublicationRuns, PublicationDisturbed
    <3> QED BY <3>1 DEF PassesExactly, ForeignKept, Commission!Passed
  <2> QED BY <2>1, <2>2, <2>3
<1>3. IInv /\ [Next]_vars => [PassesExactly]_(Commission!vars)
  BY <1>2
<1>4. IInv /\ [Next]_vars => [ForeignKept]_(Commission!vars)
  BY <1>2
<1>5. Spec => [](meddled = "no" => \A i, j \in Commission!Passed : i = j)
  BY <1>1, Invariance, PTL
<1>6. Spec => [][PassesExactly]_(Commission!vars)
  BY <1>3, Invariance, PTL DEF Spec
<1>7. Spec => [][ForeignKept]_(Commission!vars)
  BY <1>4, Invariance, PTL DEF Spec
<1> QED
  BY <1>5, <1>6, <1>7 DEF CommissionedOnce, Commission!CommissionedOnce, PassesExactly, ForeignKept
==============================================================================
