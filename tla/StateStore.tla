------------------------------ MODULE StateStore ------------------------------
(***************************************************************************)
(* Canonical controller state (state-store.ts, state-generation-store.ts).   *)
(*                                                                           *)
(* A generation is a Git commit that holds one state and names its parent    *)
(* generation; refs/milestone-loop/controller-state names the current one    *)
(* and moves by compare-and-swap.  Commit identities are content hashes over *)
(* state and parent, so a published generation is identified here with its   *)
(* position in the order of publication (0 is the absent ref).  A JSON file  *)
(* mirrors the current state; before the first publication the same path     *)
(* may hold the state of a pre-ref controller, which is imported.            *)
(*                                                                           *)
(* A client is a process with one StateStore instance.  The mutation lease   *)
(* normally admits one client at a time; the store itself must be right      *)
(* without it.                                                               *)
(***************************************************************************)
EXTENDS Integers, Sequences

CONSTANTS
    Client,     \* processes with a state store
    Body,       \* what a state says besides its revision and operation
    OpId,       \* identities of pending operations
    NoOp,       \* pendingOperation: null
    NoState,    \* nothing held, or no mirror file
    LegacyBody, \* body of the pre-ref state file
    MaxRev      \* bound on the revisions a client publishes

ASSUME StoreAssumption ==
    /\ MaxRev \in Nat
    /\ LegacyBody \in Body

Operation == [id : OpId, input : Nat, inputRev : Nat]
State == [rev : Nat, body : Body, op : Operation \cup {NoOp}]
Generation == [state : State, parent : Nat, imported : BOOLEAN]

ASSUME DistinctAssumption == NoOp \notin Operation /\ NoState \notin State

VARIABLES
    log,        \* the generations the state ref has named, in order
    mirror,     \* the state in the mirror file, or NoState
    fenced,     \* the source epoch fences legacy controller state
    pc,         \* where each client is
    source,     \* loadedSource of its store
    loaded,     \* loadedGeneration of its store (0: none)
    held,       \* the state its caller works from
    candidate,  \* the generation it is about to publish
    repair,     \* the mirror is to be written after the publication
    overlapped  \* history: two clients had their stores open at once

vars == <<log, mirror, fenced, pc, source, loaded, held, candidate, repair, overlapped>>

clientVars == <<pc, source, loaded, held, candidate, repair>>

NoCandidate == [state |-> NoState, parent |-> 0, imported |-> FALSE]

LegacyState == [rev |-> 0, body |-> LegacyBody, op |-> NoOp]

Ref == Len(log)

Stages == {"closed", "loading", "absent", "initializing", "founding", "mirroring",
           "idle", "saving"}

------------------------------------------------------------------------------
Init ==
    /\ log = << >>
    /\ mirror \in {NoState, LegacyState}
    /\ fenced = FALSE
    /\ pc = [c \in Client |-> "closed"]
    /\ source = [c \in Client |-> "unloaded"]
    /\ loaded = [c \in Client |-> 0]
    /\ held = [c \in Client |-> NoState]
    /\ candidate = [c \in Client |-> NoCandidate]
    /\ repair = [c \in Client |-> FALSE]
    /\ overlapped = FALSE

Goto(c, stage) == pc' = [pc EXCEPT ![c] = stage]

(* The call throws: the caller keeps what it held before.                    *)
Throw(c) ==
    /\ Goto(c, IF held[c] = NoState THEN "closed" ELSE "idle")
    /\ candidate' = [candidate EXCEPT ![c] = NoCandidate]

(* assertPendingOperationLineage: the generations back to the operation's    *)
(* recorded input all carry it, and the input itself carries none.           *)
LineageIn(gens, g) ==
    LET op == gens[g].state.op IN
    op # NoOp =>
        /\ op.inputRev < gens[g].state.rev
        /\ op.input \in 1..(g - 1)
        /\ \A i \in (op.input + 1)..g :
              gens[i].state.op # NoOp /\ gens[i].state.op.id = op.id
        /\ gens[op.input].state.rev = op.inputRev
        /\ gens[op.input].state.op = NoOp

LineageHolds(g) == LineageIn(log, g)

(* rememberGeneration.                                                       *)
Remember(c, g) ==
    /\ loaded' = [loaded EXCEPT ![c] = g]
    /\ source' = [source EXCEPT ![c] = "canonical"]

------------------------------------------------------------------------------
(* A process opens its store.                                                *)
Open(c) ==
    /\ pc[c] = "closed"
    /\ overlapped' = (overlapped \/ \E d \in Client : pc[d] # "closed")
    /\ Goto(c, "loading")
    /\ source' = [source EXCEPT ![c] = "unloaded"]
    /\ loaded' = [loaded EXCEPT ![c] = 0]
    /\ held' = [held EXCEPT ![c] = NoState]
    /\ UNCHANGED <<log, mirror, fenced, candidate, repair>>

(* Mutant: a state that is loaded needs no mirror.                           *)
AdoptWithoutMirror(c) ==
    /\ pc[c] \in {"loading", "initializing"} /\ ~fenced
    /\ Ref # 0 /\ LineageHolds(Ref)
    /\ Remember(c, Ref)
    /\ held' = [held EXCEPT ![c] = log[Ref].state]
    /\ Goto(c, "idle")
    /\ UNCHANGED <<log, mirror, fenced, overlapped, candidate, repair>>

(* loadForMutation and initialize, first half: adopt the canonical state if  *)
(* the ref exists, and go on to repair the mirror.                           *)
AdoptCurrent(c) ==
    /\ pc[c] \in {"loading", "initializing"} /\ ~fenced
    /\ Ref # 0
    /\ IF LineageHolds(Ref)
       THEN Remember(c, Ref) /\ Goto(c, "mirroring")
       ELSE Throw(c) /\ UNCHANGED <<source, loaded>>
    /\ UNCHANGED <<log, mirror, fenced, overlapped, held, candidate, repair>>

(* load: a read-only caller gets the canonical or the legacy state; its      *)
(* store is not armed for a publication.                                     *)
Load(c) ==
    /\ pc[c] = "loading" /\ ~fenced
    /\ \/ /\ Ref # 0 /\ LineageHolds(Ref)
          /\ held' = [held EXCEPT ![c] = log[Ref].state]
          /\ source' = [source EXCEPT ![c] = "read-only-canonical"]
       \/ /\ Ref = 0 /\ mirror # NoState
          /\ held' = [held EXCEPT ![c] = mirror]
          /\ source' = [source EXCEPT ![c] = "legacy"]
    /\ Goto(c, "idle")
    /\ UNCHANGED <<log, mirror, fenced, overlapped, loaded, candidate, repair>>

(* ... and when the ref is absent, read the mirror path in a second step.    *)
FindNoRef(c) ==
    /\ pc[c] \in {"loading", "initializing"} /\ ~fenced
    /\ Ref = 0
    /\ Goto(c, IF pc[c] = "loading" THEN "absent" ELSE "founding")
    /\ UNCHANGED <<log, mirror, fenced, overlapped, source, loaded, held, candidate, repair>>

Founding(c, s, imported, repairs) ==
    /\ candidate' = [candidate EXCEPT ![c] =
                        [state |-> s, parent |-> 0, imported |-> imported]]
    /\ repair' = [repair EXCEPT ![c] = repairs]
    /\ Goto(c, "saving")

(* The legacy file is imported with its own revision, the mirror untouched.  *)
ImportLegacy(c) ==
    /\ pc[c] \in {"absent", "founding"} /\ mirror # NoState
    /\ Founding(c, mirror, TRUE, FALSE)
    /\ UNCHANGED <<log, mirror, fenced, overlapped, source, loaded, held>>

(* loadForMutation returns null and the caller calls initialize.             *)
FindNothing(c) ==
    /\ pc[c] = "absent" /\ mirror = NoState
    /\ source' = [source EXCEPT ![c] = "absent"]
    /\ Goto(c, "initializing")
    /\ UNCHANGED <<log, mirror, fenced, overlapped, loaded, held, candidate, repair>>

(* initialize creates revision 0.                                            *)
InitializeFresh(c) ==
    /\ pc[c] = "founding" /\ mirror = NoState
    /\ \E b \in Body : Founding(c, [rev |-> 0, body |-> b, op |-> NoOp], FALSE, TRUE)
    /\ UNCHANGED <<log, mirror, fenced, overlapped, source, loaded, held>>

(* compareAndSwap of the state ref.                                          *)
Matches(expected) == Ref = expected

(* publishInitial, once the fence was found down: the loser of the race      *)
(* adopts the winner's state.                                                *)
SwapInitial(c) ==
    /\ pc[c] = "saving" /\ candidate[c].parent = 0
    /\ Ref # 0 => LineageHolds(Ref)
    /\ IF Matches(0)
       THEN log' = Append(log, candidate[c]) /\ Remember(c, 1)
       ELSE UNCHANGED log /\ Remember(c, Ref)
    /\ IF repair[c]
       THEN Goto(c, "mirroring") /\ UNCHANGED held
       ELSE Goto(c, "idle") /\ held' = [held EXCEPT ![c] = log'[loaded'[c]].state]
    /\ candidate' = [candidate EXCEPT ![c] = NoCandidate]
    /\ UNCHANGED <<mirror, fenced, overlapped, repair>>

(* The fence and the swap, taken for one step.                               *)
PublishInitial(c) == ~fenced /\ SwapInitial(c)

(* writeMirror, in the same way; then the call returns its state.            *)
RenameMirror(c) ==
    /\ pc[c] = "mirroring"
    /\ mirror' = log[loaded[c]].state
    /\ held' = [held EXCEPT ![c] = log[loaded[c]].state]
    /\ Goto(c, "idle")
    /\ UNCHANGED <<log, fenced, overlapped, source, loaded, candidate, repair>>

WriteMirror(c) == ~fenced /\ RenameMirror(c)

(* The mirror cannot be written: the publication stands, the call throws.    *)
FailMirror(c) ==
    /\ pc[c] = "mirroring"
    /\ Throw(c)
    /\ UNCHANGED <<log, mirror, fenced, overlapped, source, loaded, held, repair>>

------------------------------------------------------------------------------
(* Mutant: an intent need not be bound to the generation it extends.         *)
TransitionUnbound(before, after, expected) ==
    \/ after.op = NoOp
    \/ before.op \in {NoOp, after.op} /\ after.body = before.body

(* assertPendingOperationStateTransition, as far as the lineage goes: an     *)
(* intent is bound to the generation it extends, and is never replaced.  An  *)
(* intent or a phase change leaves the rest of the state alone.              *)
TransitionAllowed(before, after, expected) ==
    \/ before.op = NoOp /\ after.op = NoOp
    \/ /\ before.op = NoOp /\ after.op # NoOp
       /\ after.op.input = expected /\ after.op.inputRev = before.rev
       /\ after.body = before.body
    \/ before.op # NoOp /\ after.op = NoOp
    \/ /\ before.op # NoOp /\ after.op = before.op
       /\ after.body = before.body

(* What callers may ask for: intents bound to the loaded or to a stale       *)
(* generation, completions, and (in error) the exchange of an operation.     *)
Proposals(c) ==
    LET s == held[c]
        ops == {NoOp, s.op} \cup
               {[id |-> i, input |-> g, inputRev |-> s.rev] :
                    i \in OpId, g \in {loaded[c], loaded[c] - 1} \cap Nat}
    IN  {[rev |-> s.rev, body |-> b, op |-> o] : b \in Body, o \in ops}

(* Mutant: the caller's revision is not compared with the loaded one.        *)
CheckedWithoutRevision(c, next) ==
    /\ ~fenced
    /\ source[c] = "canonical"
    /\ Ref = loaded[c]
    /\ TransitionAllowed(log[loaded[c]].state, next, loaded[c])

CheckedBy(c, next) ==
    /\ ~fenced
    /\ source[c] = "canonical"
    /\ log[loaded[c]].state.rev = next.rev
    /\ Ref = loaded[c]
    /\ TransitionAllowed(log[loaded[c]].state, next, loaded[c])

(* save, up to the new commit object.                                        *)
BeginSave(c) ==
    /\ pc[c] = "idle" /\ held[c].rev < MaxRev
    /\ \E next \in Proposals(c) :
          IF CheckedBy(c, next)
          THEN /\ candidate' = [candidate EXCEPT ![c] =
                      [state |-> [next EXCEPT !.rev = @ + 1],
                       parent |-> loaded[c], imported |-> FALSE]]
               /\ Goto(c, "saving")
          ELSE Throw(c)
    /\ UNCHANGED <<log, mirror, fenced, overlapped, source, loaded, held, repair>>

(* The swap of the ref; the store moves on before the mirror is written.     *)
SwapSave(c, barred) ==
    /\ pc[c] = "saving" /\ candidate[c].parent # 0
    /\ IF ~barred /\ Matches(candidate[c].parent)
       THEN /\ log' = Append(log, candidate[c])
            /\ Remember(c, Len(log) + 1)
            /\ Goto(c, "mirroring")
            /\ candidate' = [candidate EXCEPT ![c] = NoCandidate]
       ELSE Throw(c) /\ UNCHANGED <<log, source, loaded>>
    /\ UNCHANGED <<mirror, fenced, overlapped, held, repair>>

PublishSave(c) == SwapSave(c, fenced)

------------------------------------------------------------------------------
(* A process ends or dies anywhere.                                          *)
Crash(c) ==
    /\ pc[c] # "closed"
    /\ Goto(c, "closed")
    /\ held' = [held EXCEPT ![c] = NoState]
    /\ candidate' = [candidate EXCEPT ![c] = NoCandidate]
    /\ UNCHANGED <<log, mirror, fenced, overlapped, source, loaded, repair>>

(* Between commands the mirror file is removed or replaced by a stale one.   *)
DamageMirror ==
    /\ Ref # 0 /\ \A c \in Client : pc[c] = "closed"
    /\ mirror' \in {NoState, LegacyState} \cup {log[g].state : g \in 1..Ref}
    /\ UNCHANGED <<log, fenced, overlapped, clientVars>>

(* A source epoch is committed.                                              *)
FenceAuthority ==
    /\ ~fenced /\ fenced' = TRUE
    /\ UNCHANGED <<log, mirror, overlapped, clientVars>>

(* A fenced store call throws.                                               *)
RefuseFenced(c) ==
    /\ fenced /\ pc[c] \in {"loading", "initializing"}
    /\ Throw(c)
    /\ UNCHANGED <<log, mirror, fenced, overlapped, source, loaded, held, repair>>

(* So does a founding under the fence, or against a winner that cannot be    *)
(* loaded.                                                                   *)
RefuseFounding(c) ==
    /\ pc[c] = "saving" /\ candidate[c].parent = 0
    /\ ~fenced => Ref # 0 /\ ~LineageHolds(Ref)
    /\ Throw(c)
    /\ UNCHANGED <<log, mirror, fenced, overlapped, source, loaded, held, repair>>

Next ==
    \/ \E c \in Client :
          \/ Open(c) \/ Load(c) \/ AdoptCurrent(c) \/ FindNoRef(c) \/ ImportLegacy(c)
          \/ FindNothing(c) \/ InitializeFresh(c) \/ PublishInitial(c)
          \/ WriteMirror(c) \/ FailMirror(c)
          \/ BeginSave(c) \/ PublishSave(c) \/ Crash(c)
          \/ RefuseFenced(c) \/ RefuseFounding(c)
    \/ DamageMirror \/ FenceAuthority

Spec == Init /\ [][Next]_vars

------------------------------------------------------------------------------
TypeOK ==
    /\ log \in Seq(Generation)
    /\ mirror \in State \cup {NoState}
    /\ fenced \in BOOLEAN
    /\ pc \in [Client -> Stages]
    /\ source \in [Client -> {"unloaded", "absent", "legacy", "read-only-canonical", "canonical"}]
    /\ loaded \in [Client -> Nat]
    /\ held \in [Client -> State \cup {NoState}]
    /\ candidate \in [Client -> Generation \cup {NoCandidate}]
    /\ repair \in [Client -> BOOLEAN]
    /\ overlapped \in BOOLEAN

(* Every published generation passes the lineage validation that the next    *)
(* process to open the store applies to it: the fence of save admits nothing *)
(* that would lock every later command out.                                  *)
PublishedLoadable == \A g \in 1..Ref : LineageHolds(g)

(* The published generations form one chain of consecutive revisions: no     *)
(* fork, no gap, whatever races or dies.                                     *)
LinearHistory ==
    \A g \in 1..Ref :
        /\ log[g].parent = g - 1
        /\ g > 1 => log[g].state.rev = log[g - 1].state.rev + 1

(* A pre-ref state is imported once, as the first generation, and carries    *)
(* its own revision on.                                                      *)
ImportedOnce == \A g \in 1..Ref : log[g].imported => g = 1 /\ log[g].state.op = NoOp

(* The mirror never shows a state that was not published, once there is a    *)
(* published state: a candidate that loses its swap or a crash before it     *)
(* leaves no trace there.  And as long as clients came one after the other,  *)
(* as under the lease, a caller that was handed the current state can rely   *)
(* on the mirror to show it, after any crash, failed write or damage before. *)
MirrorFollows ==
    Ref # 0 =>
        /\ \/ mirror \in {NoState, LegacyState}
           \/ \E g \in 1..Ref : mirror = log[g].state
        /\ ~overlapped =>
              \A c \in Client :
                 pc[c] = "idle" /\ source[c] = "canonical" /\ held[c] = log[Ref].state
                    => mirror = log[Ref].state

(* What a caller may publish from: the state handed to it for mutation.      *)
basis == [c \in Client |-> IF source[c] = "canonical" THEN held[c] ELSE NoState]

(* Callers see one history and extend only its latest state.                 *)
Abstract ==
    INSTANCE OptimisticHistory
    WITH history <- [g \in 1..Ref |-> log[g].state], view <- basis

ImplementsOptimisticHistory == Abstract!Spec
==============================================================================
