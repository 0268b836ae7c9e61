-------------------------- MODULE StateStore_proofs --------------------------
(***************************************************************************)
(* Proofs about StateStore, for any number of racing processes, with or      *)
(* without the mutation lease, and histories of every length.                *)
(***************************************************************************)
EXTENDS StateStore, TLAPS


(* Revisions count on from that of the first generation, imported or not.    *)
RevisionsCount ==
    \A g \in 1..Ref : log[g].state.rev = log[1].state.rev + (g - 1)

ParentsLinear == \A g \in 1..Ref : log[g].parent = g - 1

(* A store that is armed for a publication has a published generation.       *)
ArmedLoaded == \A c \in Client : source[c] = "canonical" => loaded[c] \in 1..Ref

(* A caller works from a published state, and has none before its first load *)
(* has returned.                                                             *)
Opening(c) ==
    \/ pc[c] \in {"loading", "absent", "initializing", "founding"}
    \/ pc[c] = "saving" /\ candidate[c].parent = 0

HeldPublished ==
    \A c \in Client :
        /\ pc[c] = "idle" => held[c] # NoState
        /\ Opening(c) \/ pc[c] = "closed" => held[c] = NoState
        /\ source[c] = "canonical" /\ held[c] # NoState =>
              \E g \in 1..Ref : held[c] = log[g].state

(* What a client is about to publish extends the state its caller holds by   *)
(* one admitted transition.                                                  *)
Extends(cand, p, s) ==
    /\ p \in 1..Ref /\ cand.parent = p /\ ~cand.imported
    /\ s = log[p].state
    /\ cand.state.rev = s.rev + 1
    /\ TransitionAllowed(s, [cand.state EXCEPT !.rev = s.rev], p)

CandidateExtends ==
    \A c \in Client :
        pc[c] = "saving" /\ candidate[c].parent # 0 =>
            source[c] = "canonical" /\ Extends(candidate[c], loaded[c], held[c])

(* Before the first publication only pre-ref states can be found.            *)
FoundingClean ==
    Ref = 0 =>
        /\ mirror \in {NoState, LegacyState}
        /\ \A c \in Client :
              pc[c] = "saving" =>
                  candidate[c].parent = 0 /\ candidate[c].state \in State
                  /\ candidate[c].state.op = NoOp

SavingHasCandidate ==
    \A c \in Client : pc[c] = "saving" => candidate[c] \in Generation

Mirroring == \A c \in Client : pc[c] = "mirroring" => source[c] = "canonical"

IInv ==
    /\ TypeOK /\ RevisionsCount /\ ParentsLinear /\ ArmedLoaded /\ HeldPublished
    /\ CandidateExtends /\ FoundingClean /\ SavingHasCandidate /\ Mirroring
    /\ PublishedLoadable /\ ImportedOnce

(* What the invariant says of the published generations and of the clients.  *)
LogParts == RevisionsCount /\ ParentsLinear /\ PublishedLoadable /\ ImportedOnce

(* The empty history, with or without a legacy file, satisfies the invariant. *)
LEMMA InitInv == ASSUME Init PROVE IInv
<1> USE StoreAssumption DEF Init, Ref
<1>1. LegacyState \in State
  BY DEF LegacyState, State
<1>2. log \in Seq(Generation)
  OBVIOUS
<1>3. TypeOK
  BY <1>1, <1>2 DEF TypeOK, Stages
<1> QED
  BY <1>1, <1>3 DEF IInv, RevisionsCount, ParentsLinear, ArmedLoaded, HeldPublished,
     Opening, CandidateExtends, FoundingClean, SavingHasCandidate, Mirroring,
     PublishedLoadable, ImportedOnce

(* Steps that publish nothing keep what holds of the history.                *)
LEMMA LogKept == ASSUME IInv, UNCHANGED log PROVE LogParts'
<1>1. Ref' = Ref
  BY DEF Ref
<1>2. PublishedLoadable'
  <2>1. \A g : LineageHolds(g)' <=> LineageHolds(g)
    BY DEF LineageHolds, LineageIn
  <2> QED BY <1>1, <2>1 DEF IInv, PublishedLoadable
<1> QED
  BY <1>1, <1>2 DEF IInv, LogParts, RevisionsCount, ParentsLinear, ImportedOnce

(* What the store reads from the ref is a typed generation.                  *)
LEMMA LogTyped ==
    ASSUME TypeOK
    PROVE  /\ Ref \in Nat
           /\ \A g \in 1..Ref : log[g] \in Generation /\ log[g].state \in State
<1>1. Ref \in Nat /\ \A g \in 1..Ref : log[g] \in Generation
  BY DEF TypeOK, Ref
<1> QED BY <1>1 DEF Generation

(* A client that starts a founding publication.                              *)
LEMMA FoundingTyped ==
    ASSUME NEW s \in State, NEW imported \in BOOLEAN
    PROVE  [state |-> s, parent |-> 0, imported |-> imported] \in Generation
BY DEF Generation

(* A proposal that save admits makes a candidate that extends the held state.*)
LEMMA AdmittedExtends ==
    ASSUME IInv, NEW c \in Client, pc[c] = "idle", NEW next \in Proposals(c), CheckedBy(c, next),
           NEW cand, cand = [state |-> [next EXCEPT !.rev = @ + 1],
                             parent |-> loaded[c], imported |-> FALSE]
    PROVE  cand \in Generation /\ Extends(cand, loaded[c], held[c])
<1> DEFINE p == loaded[c]
           s == held[c]
<1>1. /\ p \in 1..Ref /\ s \in State /\ Ref \in Nat
      /\ \A g \in 1..Ref : log[g].state \in State
  BY LogTyped, DistinctAssumption
  DEF IInv, TypeOK, ArmedLoaded, HeldPublished, CheckedBy
<1>2. next \in State /\ next.rev = s.rev
  BY <1>1 DEF Proposals, State, Operation, IInv, TypeOK
<1>3. s = log[p].state
  <2>1. PICK g \in 1..Ref : s = log[g].state
    BY DEF IInv, HeldPublished, CheckedBy
  <2>2. log[g].state.rev = log[p].state.rev
    BY <1>2, <2>1 DEF CheckedBy
  <2>3. /\ log[g].state.rev = log[1].state.rev + (g - 1)
        /\ log[p].state.rev = log[1].state.rev + (p - 1)
    BY <1>1 DEF IInv, RevisionsCount
  <2>4. log[1].state.rev \in Nat /\ g \in Nat /\ p \in Nat
    BY <1>1 DEF State
  <2>5. \A r, m, n \in Nat : r + (m - 1) = r + (n - 1) => m = n
    OBVIOUS
  <2>6. g = p
    BY <2>2, <2>3, <2>4, <2>5
  <2> QED BY <2>1, <2>6
<1>4. /\ cand.state = [next EXCEPT !.rev = @ + 1]
      /\ cand.parent = p /\ cand.imported = FALSE
  OBVIOUS
<1>5. cand.state \in State /\ cand.state.rev = s.rev + 1
  BY <1>2, <1>4 DEF State
<1>6. [cand.state EXCEPT !.rev = s.rev] = next
  BY <1>2, <1>4 DEF State
<1>7. TransitionAllowed(s, next, p)
  BY <1>3 DEF CheckedBy
<1>8. cand \in Generation
  BY <1>1, <1>4, <1>5 DEF Generation
<1> QED BY <1>1, <1>3, <1>4, <1>5, <1>6, <1>7, <1>8 DEF Extends

(* The lineage of a generation depends on what precedes it alone.            *)
LEMMA LineagePrefix ==
    ASSUME NEW gens, NEW longer, NEW n \in Nat, NEW g \in 1..n,
           \A i \in 1..n : longer[i] = gens[i], LineageIn(gens, g)
    PROVE  LineageIn(longer, g)
<1> DEFINE op == gens[g].state.op
<1>1. longer[g] = gens[g]
  OBVIOUS
<1>2. CASE op = NoOp
  BY <1>1, <1>2 DEF LineageIn
<1>3. CASE op # NoOp
  <2>1. /\ op.inputRev < gens[g].state.rev /\ op.input \in 1..(g - 1)
        /\ \A i \in (op.input + 1)..g :
              gens[i].state.op # NoOp /\ gens[i].state.op.id = op.id
        /\ gens[op.input].state.rev = op.inputRev
        /\ gens[op.input].state.op = NoOp
    BY <1>3 DEF LineageIn
  <2>2. op.input \in 1..n /\ \A i \in (op.input + 1)..g : i \in 1..n
    BY <2>1
  <2> QED BY <1>1, <2>1, <2>2 DEF LineageIn
<1> QED BY <1>2, <1>3

(* An admitted transition extends a generation that passes the validation to *)
(* one that passes it too: an intent is bound to the very generation it      *)
(* extends, and a phase change keeps the intent.                             *)
LEMMA AdmittedLineage ==
    ASSUME NEW gens, NEW longer, NEW n \in Nat \ {0}, NEW g, g = n + 1,
           \A i \in 1..n : longer[i] = gens[i], LineageIn(gens, n),
           NEW before \in State, NEW after \in State, NEW next \in State,
           gens[n].state = before, longer[g].state = next,
           next.rev = before.rev + 1, after = [next EXCEPT !.rev = before.rev],
           TransitionAllowed(before, after, n)
    PROVE  LineageIn(longer, g)
<1>1. /\ after.op = next.op /\ before.rev \in Nat /\ n \in 1..n /\ n \in 1..(g - 1)
      /\ longer[n].state = before /\ before.rev < next.rev
  BY DEF State
<1>2. CASE next.op = NoOp
  BY <1>2 DEF LineageIn
<1>3. CASE before.op = NoOp /\ next.op # NoOp
  <2>1. next.op.input = n /\ next.op.inputRev = before.rev
    BY <1>1, <1>3 DEF TransitionAllowed
  <2>2. \A i \in (n + 1)..g : i = g
    OBVIOUS
  <2> QED BY <1>1, <1>3, <2>1, <2>2 DEF LineageIn
<1>4. CASE before.op # NoOp /\ next.op # NoOp
  <2> DEFINE op == before.op
  <2>1. next.op = op
    BY <1>1, <1>4 DEF TransitionAllowed
  <2>2. /\ op.inputRev < before.rev /\ op.input \in 1..(n - 1)
        /\ \A i \in (op.input + 1)..n : gens[i].state.op # NoOp /\ gens[i].state.op.id = op.id
        /\ gens[op.input].state.rev = op.inputRev /\ gens[op.input].state.op = NoOp
    BY <1>4 DEF LineageIn
  <2>3. op.inputRev \in Nat
    BY <1>4 DEF State, Operation
  <2>4. op.inputRev < next.rev
    BY <1>1, <2>2, <2>3
  <2>5. /\ op.input \in 1..n /\ op.input \in 1..(g - 1)
        /\ \A i \in (op.input + 1)..n : i \in 1..n
        /\ \A i \in (op.input + 1)..g : i \in (op.input + 1)..n \/ i = g
    BY <2>2
  <2>6. longer[op.input].state.rev = op.inputRev /\ longer[op.input].state.op = NoOp
    BY <2>2, <2>5
  <2>7. \A i \in (op.input + 1)..n : longer[i].state.op # NoOp /\ longer[i].state.op.id = op.id
    BY <2>2, <2>5
  <2>8. longer[g].state.op # NoOp /\ longer[g].state.op.id = op.id
    BY <1>4, <2>1
  <2>9. \A i \in (op.input + 1)..g : longer[i].state.op # NoOp /\ longer[i].state.op.id = op.id
    BY <2>5, <2>7, <2>8
  <2> QED BY <2>1, <2>4, <2>5, <2>6, <2>9 DEF LineageIn
<1> QED BY <1>2, <1>3, <1>4

(* A successful save keeps what holds of the history.                        *)
LEMMA SaveKeepsLog ==
    ASSUME IInv, NEW gen \in Generation, Ref # 0,
           Extends(gen, Ref, log[Ref].state), log' = Append(log, gen)
    PROVE  LogParts'
<1>1. /\ Ref \in Nat /\ 1 \in 1..Ref /\ Ref \in 1..Ref /\ log \in Seq(Generation)
      /\ \A g \in 1..Ref : log[g].state \in State
  BY LogTyped DEF IInv, TypeOK
<1>2. /\ Ref' = Ref + 1 /\ log'[Ref + 1] = gen
      /\ \A i \in 1..Ref : log'[i] = log[i]
  BY <1>1 DEF Ref
<1>3. \A g \in 1..Ref' : g \in 1..Ref \/ g = Ref + 1
  BY <1>1, <1>2
<1>4. RevisionsCount'
  <2>1. gen.state.rev = log[Ref].state.rev + 1
    BY DEF Extends
  <2>2. log[Ref].state.rev = log[1].state.rev + (Ref - 1) /\ log[1].state.rev \in Nat
    BY <1>1 DEF IInv, RevisionsCount, State
  <2>3. \A r, n \in Nat : r + (n - 1) + 1 = r + ((n + 1) - 1)
    OBVIOUS
  <2>4. gen.state.rev = log[1].state.rev + ((Ref + 1) - 1)
    BY <1>1, <2>1, <2>2, <2>3
  <2> QED BY <1>1, <1>2, <1>3, <2>4 DEF IInv, RevisionsCount
<1>5. ParentsLinear'
  <2>1. gen.parent = Ref
    BY DEF Extends
  <2>2. \A g \in 1..Ref : log[g].parent = g - 1
    BY DEF IInv, ParentsLinear
  <2>3. log'[Ref + 1].parent = (Ref + 1) - 1
    BY <1>1, <1>2, <2>1
  <2>4. \A g \in 1..Ref : log'[g].parent = g - 1
    BY <1>2, <2>2
  <2> QED BY <1>3, <2>3, <2>4 DEF ParentsLinear
<1>6. PublishedLoadable'
  <2>1. \A g \in 1..Ref : LineageIn(log', g)
    <3>1. \A g \in 1..Ref : LineageIn(log, g)
      BY DEF IInv, PublishedLoadable, LineageHolds
    <3> QED BY <1>1, <1>2, <3>1, LineagePrefix
  <2>2. LineageIn(log', Ref + 1)
    <3> DEFINE n == Ref
               before == log[n].state
               next == gen.state
               after == [next EXCEPT !.rev = before.rev]
    <3>1. before \in State /\ next \in State /\ after \in State
      BY <1>1 DEF Generation, State
    <3>2. LineageIn(log, n) /\ n \in Nat \ {0}
      BY <1>1 DEF IInv, PublishedLoadable, LineageHolds
    <3>3. next.rev = before.rev + 1 /\ TransitionAllowed(before, after, n)
      BY DEF Extends
    <3>4. log'[n + 1].state = next /\ \A i \in 1..n : log'[i] = log[i]
      BY <1>2
    <3> HIDE DEF n, before, next, after
    <3>5. after = [next EXCEPT !.rev = before.rev] /\ log[n].state = before
      BY DEF after, before
    <3>6. LineageIn(log', n + 1)
      BY <3>1, <3>2, <3>3, <3>4, <3>5, AdmittedLineage
    <3> QED BY <3>6 DEF n
  <2> QED BY <1>2, <1>3, <2>1, <2>2 DEF PublishedLoadable, LineageHolds
<1>7. ImportedOnce'
  <2>1. \A g \in 1..Ref : log'[g].imported => g = 1 /\ log'[g].state.op = NoOp
    BY <1>2 DEF IInv, ImportedOnce
  <2>2. ~log'[Ref + 1].imported
    BY <1>2 DEF Extends
  <2> QED BY <1>3, <2>1, <2>2 DEF ImportedOnce
<1> QED BY <1>4, <1>5, <1>6, <1>7 DEF LogParts

(* Every action of a client, a crash and the environment keep the invariant.  *)
LEMMA NextInv == ASSUME IInv, [Next]_vars PROVE IInv'
<1> USE StoreAssumption, DistinctAssumption DEF IInv, Ref, Goto, Throw, Remember
<1>0. CASE UNCHANGED vars
  BY <1>0, LogKept DEF vars, LogParts, TypeOK, ArmedLoaded, HeldPublished, CandidateExtends, FoundingClean, SavingHasCandidate, Mirroring, Opening, Extends
<1>1. ASSUME NEW c \in Client, Open(c) PROVE IInv'
  <2>0. LogParts'
    BY <1>1, LogKept DEF Open
  <2>1. TypeOK'
    BY <1>1 DEF Open, TypeOK, Stages, NoCandidate
  <2>2. ArmedLoaded'
    BY <1>1 DEF Open, TypeOK, ArmedLoaded, HeldPublished, CandidateExtends, FoundingClean, SavingHasCandidate, Mirroring, Opening, Extends, NoCandidate
  <2>3. HeldPublished'
    BY <1>1 DEF Open, TypeOK, ArmedLoaded, HeldPublished, CandidateExtends, FoundingClean, SavingHasCandidate, Mirroring, Opening, Extends, NoCandidate
  <2>4. CandidateExtends'
    BY <1>1 DEF Open, TypeOK, ArmedLoaded, HeldPublished, CandidateExtends, FoundingClean, SavingHasCandidate, Mirroring, Opening, Extends, NoCandidate
  <2>5. FoundingClean'
    BY <1>1 DEF Open, TypeOK, ArmedLoaded, HeldPublished, CandidateExtends, FoundingClean, SavingHasCandidate, Mirroring, Opening, Extends, NoCandidate
  <2>6. SavingHasCandidate'
    BY <1>1 DEF Open, TypeOK, ArmedLoaded, HeldPublished, CandidateExtends, FoundingClean, SavingHasCandidate, Mirroring, Opening, Extends, NoCandidate
  <2>7. Mirroring'
    BY <1>1 DEF Open, TypeOK, ArmedLoaded, HeldPublished, CandidateExtends, FoundingClean, SavingHasCandidate, Mirroring, Opening, Extends, NoCandidate
  <2> QED BY <2>0, <2>1, <2>2, <2>3, <2>4, <2>5, <2>6, <2>7 DEF LogParts
<1>2. ASSUME NEW c \in Client, Load(c) PROVE IInv'
  <2>a. \E s \in State :
            held' = [held EXCEPT ![c] = s]
            /\ source' \in {[source EXCEPT ![c] = "read-only-canonical"],
                           [source EXCEPT ![c] = "legacy"]}
    <3>1. Ref # 0 => log[Ref].state \in State
      BY LogTyped
    <3>2. mirror # NoState => mirror \in State
      BY DEF TypeOK
    <3> QED BY <1>2, <3>1, <3>2 DEF Load
  <2>0. LogParts'
    BY <1>2, LogKept DEF Load
  <2>1. TypeOK'
    <3>1. source' \in [Client -> {"unloaded", "absent", "legacy", "read-only-canonical", "canonical"}]
      BY <2>a DEF TypeOK
    <3>2. held' \in [Client -> State \cup {NoState}]
      BY <2>a DEF TypeOK
    <3>3. pc' \in [Client -> Stages]
      BY <1>2 DEF Load, TypeOK, Stages
    <3> QED BY <1>2, <3>1, <3>2, <3>3 DEF Load, TypeOK
  <2>2. ArmedLoaded'
    BY <1>2 DEF Load, TypeOK, ArmedLoaded, HeldPublished, CandidateExtends, FoundingClean, SavingHasCandidate, Mirroring, Opening, Extends, NoCandidate
  <2>3. HeldPublished'
    <3>1. UNCHANGED <<log, candidate>> /\ pc' = [pc EXCEPT ![c] = "idle"]
      BY <1>2 DEF Load, Goto
    <3>2. PICK s \in State : held' = [held EXCEPT ![c] = s]
      BY <2>a
    <3>3. source'[c] # "canonical" /\ \A d \in Client \ {c} : source'[d] = source[d]
      BY <2>a DEF TypeOK
    <3>4. /\ held'[c] # NoState /\ pc'[c] = "idle"
          /\ \A d \in Client \ {c} : held'[d] = held[d] /\ pc'[d] = pc[d]
      BY <3>1, <3>2, DistinctAssumption DEF TypeOK
    <3> QED BY <3>1, <3>3, <3>4 DEF HeldPublished, Opening
  <2>4. CandidateExtends'
    BY <1>2 DEF Load, TypeOK, ArmedLoaded, HeldPublished, CandidateExtends, FoundingClean, SavingHasCandidate, Mirroring, Opening, Extends, NoCandidate
  <2>5. FoundingClean'
    BY <1>2 DEF Load, TypeOK, ArmedLoaded, HeldPublished, CandidateExtends, FoundingClean, SavingHasCandidate, Mirroring, Opening, Extends, NoCandidate
  <2>6. SavingHasCandidate'
    BY <1>2 DEF Load, TypeOK, ArmedLoaded, HeldPublished, CandidateExtends, FoundingClean, SavingHasCandidate, Mirroring, Opening, Extends, NoCandidate
  <2>7. Mirroring'
    BY <1>2 DEF Load, TypeOK, ArmedLoaded, HeldPublished, CandidateExtends, FoundingClean, SavingHasCandidate, Mirroring, Opening, Extends, NoCandidate
  <2> QED BY <2>0, <2>1, <2>2, <2>3, <2>4, <2>5, <2>6, <2>7 DEF LogParts
<1>3. ASSUME NEW c \in Client, AdoptCurrent(c) PROVE IInv'
  <2>0. LogParts'
    BY <1>3, LogKept DEF AdoptCurrent
  <2>1. TypeOK'
    BY <1>3, LogTyped DEF AdoptCurrent, TypeOK, Stages, NoCandidate
  <2>2. ArmedLoaded'
    BY <1>3 DEF AdoptCurrent, TypeOK, ArmedLoaded, HeldPublished, CandidateExtends, FoundingClean, SavingHasCandidate, Mirroring, Opening, Extends, NoCandidate
  <2>3. HeldPublished'
    BY <1>3 DEF AdoptCurrent, TypeOK, ArmedLoaded, HeldPublished, CandidateExtends, FoundingClean, SavingHasCandidate, Mirroring, Opening, Extends, NoCandidate
  <2>4. CandidateExtends'
    BY <1>3 DEF AdoptCurrent, TypeOK, ArmedLoaded, HeldPublished, CandidateExtends, FoundingClean, SavingHasCandidate, Mirroring, Opening, Extends, NoCandidate
  <2>5. FoundingClean'
    BY <1>3 DEF AdoptCurrent, TypeOK, ArmedLoaded, HeldPublished, CandidateExtends, FoundingClean, SavingHasCandidate, Mirroring, Opening, Extends, NoCandidate
  <2>6. SavingHasCandidate'
    BY <1>3 DEF AdoptCurrent, TypeOK, ArmedLoaded, HeldPublished, CandidateExtends, FoundingClean, SavingHasCandidate, Mirroring, Opening, Extends, NoCandidate
  <2>7. Mirroring'
    BY <1>3 DEF AdoptCurrent, TypeOK, ArmedLoaded, HeldPublished, CandidateExtends, FoundingClean, SavingHasCandidate, Mirroring, Opening, Extends, NoCandidate
  <2> QED BY <2>0, <2>1, <2>2, <2>3, <2>4, <2>5, <2>6, <2>7 DEF LogParts
<1>4. ASSUME NEW c \in Client, FindNoRef(c) PROVE IInv'
  <2>0. LogParts'
    BY <1>4, LogKept DEF FindNoRef
  <2>1. TypeOK'
    BY <1>4 DEF FindNoRef, TypeOK, Stages, NoCandidate
  <2>2. ArmedLoaded'
    BY <1>4 DEF FindNoRef, TypeOK, ArmedLoaded, HeldPublished, CandidateExtends, FoundingClean, SavingHasCandidate, Mirroring, Opening, Extends, NoCandidate
  <2>3. HeldPublished'
    BY <1>4 DEF FindNoRef, TypeOK, ArmedLoaded, HeldPublished, CandidateExtends, FoundingClean, SavingHasCandidate, Mirroring, Opening, Extends, NoCandidate
  <2>4. CandidateExtends'
    BY <1>4 DEF FindNoRef, TypeOK, ArmedLoaded, HeldPublished, CandidateExtends, FoundingClean, SavingHasCandidate, Mirroring, Opening, Extends, NoCandidate
  <2>5. FoundingClean'
    BY <1>4 DEF FindNoRef, TypeOK, ArmedLoaded, HeldPublished, CandidateExtends, FoundingClean, SavingHasCandidate, Mirroring, Opening, Extends, NoCandidate
  <2>6. SavingHasCandidate'
    BY <1>4 DEF FindNoRef, TypeOK, ArmedLoaded, HeldPublished, CandidateExtends, FoundingClean, SavingHasCandidate, Mirroring, Opening, Extends, NoCandidate
  <2>7. Mirroring'
    BY <1>4 DEF FindNoRef, TypeOK, ArmedLoaded, HeldPublished, CandidateExtends, FoundingClean, SavingHasCandidate, Mirroring, Opening, Extends, NoCandidate
  <2> QED BY <2>0, <2>1, <2>2, <2>3, <2>4, <2>5, <2>6, <2>7 DEF LogParts
<1>5. ASSUME NEW c \in Client, ImportLegacy(c) PROVE IInv'
  <2>0. LogParts'
    BY <1>5, LogKept DEF ImportLegacy
  <2>1. TypeOK'
    BY <1>5, FoundingTyped DEF ImportLegacy, Founding, TypeOK, Stages
  <2>2. ArmedLoaded'
    BY <1>5 DEF ImportLegacy, Founding, TypeOK, ArmedLoaded, HeldPublished, CandidateExtends, FoundingClean, SavingHasCandidate, Mirroring, Opening, Extends, NoCandidate
  <2>3. HeldPublished'
    BY <1>5 DEF ImportLegacy, Founding, TypeOK, ArmedLoaded, HeldPublished, CandidateExtends, FoundingClean, SavingHasCandidate, Mirroring, Opening, Extends, NoCandidate
  <2>4. CandidateExtends'
    BY <1>5 DEF ImportLegacy, Founding, TypeOK, ArmedLoaded, HeldPublished, CandidateExtends, FoundingClean, SavingHasCandidate, Mirroring, Opening, Extends, NoCandidate
  <2>5. FoundingClean'
    BY <1>5 DEF ImportLegacy, Founding, TypeOK, FoundingClean, LegacyState
  <2>6. SavingHasCandidate'
    BY <1>5, FoundingTyped DEF ImportLegacy, Founding, TypeOK, SavingHasCandidate
  <2>7. Mirroring'
    BY <1>5 DEF ImportLegacy, Founding, TypeOK, ArmedLoaded, HeldPublished, CandidateExtends, FoundingClean, SavingHasCandidate, Mirroring, Opening, Extends, NoCandidate
  <2> QED BY <2>0, <2>1, <2>2, <2>3, <2>4, <2>5, <2>6, <2>7 DEF LogParts
<1>6. ASSUME NEW c \in Client, FindNothing(c) PROVE IInv'
  <2>0. LogParts'
    BY <1>6, LogKept DEF FindNothing
  <2>1. TypeOK'
    BY <1>6 DEF FindNothing, TypeOK, Stages, NoCandidate
  <2>2. ArmedLoaded'
    BY <1>6 DEF FindNothing, TypeOK, ArmedLoaded, HeldPublished, CandidateExtends, FoundingClean, SavingHasCandidate, Mirroring, Opening, Extends, NoCandidate
  <2>3. HeldPublished'
    BY <1>6 DEF FindNothing, TypeOK, ArmedLoaded, HeldPublished, CandidateExtends, FoundingClean, SavingHasCandidate, Mirroring, Opening, Extends, NoCandidate
  <2>4. CandidateExtends'
    BY <1>6 DEF FindNothing, TypeOK, ArmedLoaded, HeldPublished, CandidateExtends, FoundingClean, SavingHasCandidate, Mirroring, Opening, Extends, NoCandidate
  <2>5. FoundingClean'
    BY <1>6 DEF FindNothing, TypeOK, ArmedLoaded, HeldPublished, CandidateExtends, FoundingClean, SavingHasCandidate, Mirroring, Opening, Extends, NoCandidate
  <2>6. SavingHasCandidate'
    BY <1>6 DEF FindNothing, TypeOK, ArmedLoaded, HeldPublished, CandidateExtends, FoundingClean, SavingHasCandidate, Mirroring, Opening, Extends, NoCandidate
  <2>7. Mirroring'
    BY <1>6 DEF FindNothing, TypeOK, ArmedLoaded, HeldPublished, CandidateExtends, FoundingClean, SavingHasCandidate, Mirroring, Opening, Extends, NoCandidate
  <2> QED BY <2>0, <2>1, <2>2, <2>3, <2>4, <2>5, <2>6, <2>7 DEF LogParts
<1>7. ASSUME NEW c \in Client, InitializeFresh(c) PROVE IInv'
  <2>a. PICK b \in Body : Founding(c, [rev |-> 0, body |-> b, op |-> NoOp], FALSE, TRUE)
    BY <1>7 DEF InitializeFresh
  <2>b. [rev |-> 0, body |-> b, op |-> NoOp] \in State
    BY DEF State
  <2>0. LogParts'
    BY <1>7, LogKept DEF InitializeFresh
  <2>1. TypeOK'
    BY <1>7, <2>a, <2>b, FoundingTyped DEF InitializeFresh, Founding, TypeOK, Stages, NoCandidate
  <2>2. ArmedLoaded'
    BY <1>7, <2>a, <2>b, FoundingTyped DEF InitializeFresh, Founding, TypeOK, ArmedLoaded, HeldPublished, CandidateExtends, FoundingClean, SavingHasCandidate, Mirroring, Opening, Extends, NoCandidate
  <2>3. HeldPublished'
    BY <1>7, <2>a, <2>b, FoundingTyped DEF InitializeFresh, Founding, TypeOK, ArmedLoaded, HeldPublished, CandidateExtends, FoundingClean, SavingHasCandidate, Mirroring, Opening, Extends, NoCandidate
  <2>4. CandidateExtends'
    BY <1>7, <2>a, <2>b, FoundingTyped DEF InitializeFresh, Founding, TypeOK, ArmedLoaded, HeldPublished, CandidateExtends, FoundingClean, SavingHasCandidate, Mirroring, Opening, Extends, NoCandidate
  <2>5. FoundingClean'
    BY <1>7, <2>a, <2>b, FoundingTyped DEF InitializeFresh, Founding, TypeOK, ArmedLoaded, HeldPublished, CandidateExtends, FoundingClean, SavingHasCandidate, Mirroring, Opening, Extends, NoCandidate
  <2>6. SavingHasCandidate'
    BY <1>7, <2>a, <2>b, FoundingTyped DEF InitializeFresh, Founding, TypeOK, ArmedLoaded, HeldPublished, CandidateExtends, FoundingClean, SavingHasCandidate, Mirroring, Opening, Extends, NoCandidate
  <2>7. Mirroring'
    BY <1>7, <2>a, <2>b, FoundingTyped DEF InitializeFresh, Founding, TypeOK, ArmedLoaded, HeldPublished, CandidateExtends, FoundingClean, SavingHasCandidate, Mirroring, Opening, Extends, NoCandidate
  <2> QED BY <2>0, <2>1, <2>2, <2>3, <2>4, <2>5, <2>6, <2>7 DEF LogParts
<1>8. ASSUME NEW c \in Client, WriteMirror(c) PROVE IInv'
  <2>a. /\ loaded[c] \in 1..Ref /\ source[c] = "canonical"
        /\ log[loaded[c]].state \in State
    BY <1>8, LogTyped DEF WriteMirror, RenameMirror, Mirroring, ArmedLoaded
  <2>0. LogParts'
    BY <1>8, LogKept DEF WriteMirror, RenameMirror
  <2>1. TypeOK'
    BY <1>8, <2>a DEF WriteMirror, RenameMirror, TypeOK, Stages
  <2>2. ArmedLoaded'
    BY <1>8 DEF WriteMirror, RenameMirror, TypeOK, ArmedLoaded, HeldPublished, CandidateExtends, FoundingClean, SavingHasCandidate, Mirroring, Opening, Extends, NoCandidate
  <2>3. HeldPublished'
    BY <1>8, <2>a DEF WriteMirror, RenameMirror, TypeOK, HeldPublished, Opening
  <2>4. CandidateExtends'
    BY <1>8 DEF WriteMirror, RenameMirror, TypeOK, ArmedLoaded, HeldPublished, CandidateExtends, FoundingClean, SavingHasCandidate, Mirroring, Opening, Extends, NoCandidate
  <2>5. FoundingClean'
    BY <1>8 DEF WriteMirror, RenameMirror, TypeOK, ArmedLoaded, HeldPublished, CandidateExtends, FoundingClean, SavingHasCandidate, Mirroring, Opening, Extends, NoCandidate
  <2>6. SavingHasCandidate'
    BY <1>8 DEF WriteMirror, RenameMirror, TypeOK, ArmedLoaded, HeldPublished, CandidateExtends, FoundingClean, SavingHasCandidate, Mirroring, Opening, Extends, NoCandidate
  <2>7. Mirroring'
    BY <1>8 DEF WriteMirror, RenameMirror, TypeOK, ArmedLoaded, HeldPublished, CandidateExtends, FoundingClean, SavingHasCandidate, Mirroring, Opening, Extends, NoCandidate
  <2> QED BY <2>0, <2>1, <2>2, <2>3, <2>4, <2>5, <2>6, <2>7 DEF LogParts
<1>9. ASSUME NEW c \in Client, FailMirror(c) PROVE IInv'
  <2>0. LogParts'
    BY <1>9, LogKept DEF FailMirror
  <2>1. TypeOK'
    BY <1>9 DEF FailMirror, TypeOK, Stages, NoCandidate
  <2>2. ArmedLoaded'
    BY <1>9 DEF FailMirror, TypeOK, ArmedLoaded, HeldPublished, CandidateExtends, FoundingClean, SavingHasCandidate, Mirroring, Opening, Extends, NoCandidate
  <2>3. HeldPublished'
    BY <1>9 DEF FailMirror, TypeOK, ArmedLoaded, HeldPublished, CandidateExtends, FoundingClean, SavingHasCandidate, Mirroring, Opening, Extends, NoCandidate
  <2>4. CandidateExtends'
    BY <1>9 DEF FailMirror, TypeOK, ArmedLoaded, HeldPublished, CandidateExtends, FoundingClean, SavingHasCandidate, Mirroring, Opening, Extends, NoCandidate
  <2>5. FoundingClean'
    BY <1>9 DEF FailMirror, TypeOK, ArmedLoaded, HeldPublished, CandidateExtends, FoundingClean, SavingHasCandidate, Mirroring, Opening, Extends, NoCandidate
  <2>6. SavingHasCandidate'
    BY <1>9 DEF FailMirror, TypeOK, ArmedLoaded, HeldPublished, CandidateExtends, FoundingClean, SavingHasCandidate, Mirroring, Opening, Extends, NoCandidate
  <2>7. Mirroring'
    BY <1>9 DEF FailMirror, TypeOK, ArmedLoaded, HeldPublished, CandidateExtends, FoundingClean, SavingHasCandidate, Mirroring, Opening, Extends, NoCandidate
  <2> QED BY <2>0, <2>1, <2>2, <2>3, <2>4, <2>5, <2>6, <2>7 DEF LogParts
<1>10. ASSUME NEW c \in Client, BeginSave(c) PROVE IInv'
  <2>0. LogParts'
    BY <1>10, LogKept DEF BeginSave
  <2>1. CASE Goto(c, IF held[c] = NoState THEN "closed" ELSE "idle")
             /\ candidate' = [candidate EXCEPT ![c] = NoCandidate]
    BY <1>10, <2>0, <2>1 DEF BeginSave, LogParts, Stages, TypeOK, ArmedLoaded, HeldPublished, CandidateExtends, FoundingClean,
       SavingHasCandidate, Mirroring, Opening, Extends
  <2>2. ASSUME NEW cand, cand \in Generation, Extends(cand, loaded[c], held[c]),
               candidate' = [candidate EXCEPT ![c] = cand], Goto(c, "saving"),
               source[c] = "canonical"
        PROVE  IInv'
    <3>1. TypeOK'
      BY <1>10, <2>2 DEF BeginSave, TypeOK, Stages
    <3>2. ArmedLoaded' /\ Mirroring' /\ SavingHasCandidate'
      BY <1>10, <2>2 DEF BeginSave, TypeOK, ArmedLoaded, Mirroring, SavingHasCandidate
    <3>3. HeldPublished'
      BY <1>10, <2>2 DEF BeginSave, TypeOK, HeldPublished, Opening, Extends
    <3>4. CandidateExtends'
      BY <1>10, <2>2 DEF BeginSave, TypeOK, CandidateExtends, Extends
    <3>5. FoundingClean'
      BY <1>10, <2>2 DEF BeginSave, TypeOK, FoundingClean, Extends
    <3> QED BY <2>0, <3>1, <3>2, <3>3, <3>4, <3>5 DEF LogParts
  <2>3. PICK next \in Proposals(c) :
            IF CheckedBy(c, next)
            THEN /\ candidate' = [candidate EXCEPT ![c] =
                        [state |-> [next EXCEPT !.rev = @ + 1],
                         parent |-> loaded[c], imported |-> FALSE]]
                 /\ Goto(c, "saving")
            ELSE Throw(c)
    BY <1>10 DEF BeginSave
  <2>4. CASE CheckedBy(c, next)
    BY <1>10, <2>2, <2>3, <2>4, AdmittedExtends DEF BeginSave, CheckedBy
  <2> QED BY <2>1, <2>3, <2>4
<1>11. ASSUME NEW c \in Client, Crash(c) PROVE IInv'
  <2>0. LogParts'
    BY <1>11, LogKept DEF Crash
  <2>1. TypeOK'
    BY <1>11 DEF Crash, TypeOK, Stages, NoCandidate
  <2>2. ArmedLoaded'
    BY <1>11 DEF Crash, TypeOK, ArmedLoaded, HeldPublished, CandidateExtends, FoundingClean, SavingHasCandidate, Mirroring, Opening, Extends, NoCandidate
  <2>3. HeldPublished'
    BY <1>11 DEF Crash, TypeOK, ArmedLoaded, HeldPublished, CandidateExtends, FoundingClean, SavingHasCandidate, Mirroring, Opening, Extends, NoCandidate
  <2>4. CandidateExtends'
    BY <1>11 DEF Crash, TypeOK, ArmedLoaded, HeldPublished, CandidateExtends, FoundingClean, SavingHasCandidate, Mirroring, Opening, Extends, NoCandidate
  <2>5. FoundingClean'
    BY <1>11 DEF Crash, TypeOK, ArmedLoaded, HeldPublished, CandidateExtends, FoundingClean, SavingHasCandidate, Mirroring, Opening, Extends, NoCandidate
  <2>6. SavingHasCandidate'
    BY <1>11 DEF Crash, TypeOK, ArmedLoaded, HeldPublished, CandidateExtends, FoundingClean, SavingHasCandidate, Mirroring, Opening, Extends, NoCandidate
  <2>7. Mirroring'
    BY <1>11 DEF Crash, TypeOK, ArmedLoaded, HeldPublished, CandidateExtends, FoundingClean, SavingHasCandidate, Mirroring, Opening, Extends, NoCandidate
  <2> QED BY <2>0, <2>1, <2>2, <2>3, <2>4, <2>5, <2>6, <2>7 DEF LogParts
<1>12. ASSUME NEW c \in Client, RefuseFenced(c) PROVE IInv'
  <2>0. LogParts'
    BY <1>12, LogKept DEF RefuseFenced
  <2>1. TypeOK'
    BY <1>12 DEF RefuseFenced, TypeOK, Stages, NoCandidate
  <2>2. ArmedLoaded'
    BY <1>12 DEF RefuseFenced, TypeOK, ArmedLoaded, HeldPublished, CandidateExtends, FoundingClean, SavingHasCandidate, Mirroring, Opening, Extends, NoCandidate
  <2>3. HeldPublished'
    BY <1>12 DEF RefuseFenced, TypeOK, ArmedLoaded, HeldPublished, CandidateExtends, FoundingClean, SavingHasCandidate, Mirroring, Opening, Extends, NoCandidate
  <2>4. CandidateExtends'
    BY <1>12 DEF RefuseFenced, TypeOK, ArmedLoaded, HeldPublished, CandidateExtends, FoundingClean, SavingHasCandidate, Mirroring, Opening, Extends, NoCandidate
  <2>5. FoundingClean'
    BY <1>12 DEF RefuseFenced, TypeOK, ArmedLoaded, HeldPublished, CandidateExtends, FoundingClean, SavingHasCandidate, Mirroring, Opening, Extends, NoCandidate
  <2>6. SavingHasCandidate'
    BY <1>12 DEF RefuseFenced, TypeOK, ArmedLoaded, HeldPublished, CandidateExtends, FoundingClean, SavingHasCandidate, Mirroring, Opening, Extends, NoCandidate
  <2>7. Mirroring'
    BY <1>12 DEF RefuseFenced, TypeOK, ArmedLoaded, HeldPublished, CandidateExtends, FoundingClean, SavingHasCandidate, Mirroring, Opening, Extends, NoCandidate
  <2> QED BY <2>0, <2>1, <2>2, <2>3, <2>4, <2>5, <2>6, <2>7 DEF LogParts
<1>13. ASSUME NEW c \in Client, RefuseFounding(c) PROVE IInv'
  <2>0. LogParts'
    BY <1>13, LogKept DEF RefuseFounding
  <2>1. TypeOK'
    BY <1>13 DEF RefuseFounding, TypeOK, Stages, NoCandidate
  <2>2. ArmedLoaded'
    BY <1>13 DEF RefuseFounding, TypeOK, ArmedLoaded, HeldPublished, CandidateExtends, FoundingClean, SavingHasCandidate, Mirroring, Opening, Extends, NoCandidate
  <2>3. HeldPublished'
    BY <1>13 DEF RefuseFounding, TypeOK, ArmedLoaded, HeldPublished, CandidateExtends, FoundingClean, SavingHasCandidate, Mirroring, Opening, Extends, NoCandidate
  <2>4. CandidateExtends'
    BY <1>13 DEF RefuseFounding, TypeOK, ArmedLoaded, HeldPublished, CandidateExtends, FoundingClean, SavingHasCandidate, Mirroring, Opening, Extends, NoCandidate
  <2>5. FoundingClean'
    BY <1>13 DEF RefuseFounding, TypeOK, ArmedLoaded, HeldPublished, CandidateExtends, FoundingClean, SavingHasCandidate, Mirroring, Opening, Extends, NoCandidate
  <2>6. SavingHasCandidate'
    BY <1>13 DEF RefuseFounding, TypeOK, ArmedLoaded, HeldPublished, CandidateExtends, FoundingClean, SavingHasCandidate, Mirroring, Opening, Extends, NoCandidate
  <2>7. Mirroring'
    BY <1>13 DEF RefuseFounding, TypeOK, ArmedLoaded, HeldPublished, CandidateExtends, FoundingClean, SavingHasCandidate, Mirroring, Opening, Extends, NoCandidate
  <2> QED BY <2>0, <2>1, <2>2, <2>3, <2>4, <2>5, <2>6, <2>7 DEF LogParts
<1>14. ASSUME NEW c \in Client, PublishInitial(c) PROVE IInv'
  <2>1. /\ candidate[c] \in Generation /\ held[c] = NoState /\ Ref \in Nat
        /\ candidate[c].parent = 0 /\ pc[c] = "saving" /\ c \in Client
    BY <1>14, LogTyped DEF PublishInitial, SwapInitial, SavingHasCandidate, HeldPublished, Opening
  <2>2. PICK g \in Nat :
            /\ log' \in Seq(Generation) /\ Ref' \in Nat
            /\ g \in 1..Ref' /\ log'[g].state \in State
            /\ Ref # 0 => log' = log
            /\ loaded' = [loaded EXCEPT ![c] = g] /\ LogParts'
    <3>1. CASE Ref = 0
      <4>1. log' = <<candidate[c]>> /\ Ref' = 1 /\ loaded' = [loaded EXCEPT ![c] = 1]
        BY <1>14, <2>1, <3>1 DEF PublishInitial, SwapInitial, Matches, TypeOK
      <4>2. candidate[c].state \in State /\ candidate[c].state.op = NoOp
        BY <2>1, <3>1 DEF FoundingClean
      <4>3. \A i \in 1..Ref' : i = 1 /\ log'[i] = candidate[c]
        BY <4>1
      <4>4. RevisionsCount' /\ ParentsLinear' /\ ImportedOnce'
        <5>1. candidate[c].state.rev + (1 - 1) = candidate[c].state.rev
          BY <4>2 DEF State
        <5> QED
          BY <2>1, <4>2, <4>3, <5>1 DEF RevisionsCount, ParentsLinear, ImportedOnce
      <4>5. PublishedLoadable'
        BY <4>2, <4>3 DEF PublishedLoadable, LineageHolds, LineageIn
      <4>6. LogParts'
        BY <4>4, <4>5 DEF LogParts
      <4>7. /\ log' \in Seq(Generation) /\ Ref' \in Nat
            /\ 1 \in 1..Ref' /\ log'[1].state \in State
        BY <2>1, <4>1, <4>2
      <4> WITNESS 1 \in Nat
      <4> QED BY <3>1, <4>1, <4>6, <4>7
    <3>2. CASE Ref # 0
      <4>1. log' = log /\ loaded' = [loaded EXCEPT ![c] = Ref]
        BY <1>14, <2>1, <3>2 DEF PublishInitial, SwapInitial, Matches
      <4>2. /\ log' \in Seq(Generation) /\ Ref' \in Nat
            /\ Ref \in 1..Ref' /\ log'[Ref].state \in State
        BY <2>1, <3>2, <4>1, LogTyped DEF TypeOK
      <4>3. LogParts'
        BY <4>1, LogKept
      <4>4. PICK g \in Nat : g = Ref
        BY <2>1
      <4> WITNESS g \in Nat
      <4> QED BY <3>2, <4>1, <4>2, <4>3, <4>4
    <3> QED BY <3>1, <3>2
  <2>3. /\ pc' \in {[pc EXCEPT ![c] = "mirroring"], [pc EXCEPT ![c] = "idle"]}
        /\ held' \in {held, [held EXCEPT ![c] = log'[g].state]}
        /\ pc' = [pc EXCEPT ![c] = "idle"] => held' = [held EXCEPT ![c] = log'[g].state]
        /\ pc' = [pc EXCEPT ![c] = "mirroring"] => held' = held
        /\ source' = [source EXCEPT ![c] = "canonical"]
        /\ candidate' = [candidate EXCEPT ![c] = NoCandidate]
        /\ UNCHANGED <<mirror, fenced, repair, overlapped>>
    BY <1>14, <2>2 DEF PublishInitial, SwapInitial, TypeOK
  <2>4. TypeOK'
    BY <2>1, <2>2, <2>3 DEF TypeOK, Stages
  <2>5. ArmedLoaded' /\ Mirroring' /\ SavingHasCandidate'
    BY <2>1, <2>2, <2>3 DEF TypeOK, ArmedLoaded, Mirroring, SavingHasCandidate
  <2>6. HeldPublished'
    BY <2>1, <2>2, <2>3 DEF TypeOK, HeldPublished, Opening, ArmedLoaded
  <2>7. CandidateExtends'
    <3>1. SUFFICES ASSUME NEW d \in Client, pc'[d] = "saving", candidate'[d].parent # 0
                   PROVE  source'[d] = "canonical" /\ Extends(candidate[d], loaded[d], held[d])'
      BY DEF CandidateExtends
    <3>2. /\ d # c /\ pc[d] = "saving" /\ candidate'[d] = candidate[d]
          /\ source'[d] = source[d] /\ loaded'[d] = loaded[d] /\ held'[d] = held[d]
      BY <2>1, <2>3, <2>2, <3>1 DEF TypeOK
    <3>3. log' = log
      BY <2>2, <3>1, <3>2 DEF FoundingClean
    <3> QED BY <3>1, <3>2, <3>3 DEF CandidateExtends, Extends
  <2>8. FoundingClean'
    <3>1. Ref' # 0
      BY <2>2
    <3> QED BY <3>1 DEF FoundingClean
  <2> QED BY <2>2, <2>4, <2>5, <2>6, <2>7, <2>8 DEF LogParts
<1>15. ASSUME NEW c \in Client, PublishSave(c) PROVE IInv'
  <2>0. pc[c] = "saving" /\ candidate[c].parent # 0 /\ UNCHANGED <<mirror, fenced, held, repair, overlapped>>
    BY <1>15 DEF PublishSave, SwapSave
  <2>1. CASE UNCHANGED <<log, source, loaded>>
             /\ Goto(c, IF held[c] = NoState THEN "closed" ELSE "idle")
             /\ candidate' = [candidate EXCEPT ![c] = NoCandidate]
    <3>1. LogParts'
      BY <2>1, LogKept
    <3> QED BY <2>0, <2>1, <3>1 DEF LogParts, Stages, Extends, TypeOK, ArmedLoaded, HeldPublished, CandidateExtends, FoundingClean,
       SavingHasCandidate, Mirroring, Opening
  <2>2. CASE /\ Matches(candidate[c].parent)
             /\ log' = Append(log, candidate[c])
             /\ Remember(c, Len(log) + 1)
             /\ Goto(c, "mirroring")
             /\ candidate' = [candidate EXCEPT ![c] = NoCandidate]
    <3>1. /\ candidate[c] \in Generation /\ Ref # 0 /\ Ref \in Nat
          /\ Extends(candidate[c], Ref, log[Ref].state)
      BY <2>0, <2>2, LogTyped DEF CandidateExtends, Extends, SavingHasCandidate, Matches
    <3>2. LogParts'
      BY <2>2, <3>1, SaveKeepsLog
    <3>3. /\ log' \in Seq(Generation) /\ Ref' = Ref + 1
          /\ \A g \in 1..Ref : log'[g] = log[g] /\ g \in 1..Ref'
          /\ Ref + 1 \in 1..Ref'
      BY <2>2, <3>1 DEF TypeOK
    <3>4. TypeOK'
      BY <2>0, <2>2, <3>1, <3>3 DEF TypeOK, Stages
    <3>5. ArmedLoaded' /\ Mirroring' /\ SavingHasCandidate'
      BY <2>0, <2>2, <3>1, <3>3 DEF TypeOK, ArmedLoaded, Mirroring, SavingHasCandidate
    <3>6. HeldPublished'
      BY <2>0, <2>2, <3>3 DEF TypeOK, HeldPublished, Opening, CandidateExtends
    <3>7. CandidateExtends'
      BY <2>0, <2>2, <3>3 DEF TypeOK, CandidateExtends, Extends
    <3>8. FoundingClean'
      BY <3>1, <3>3 DEF FoundingClean
    <3> QED BY <3>2, <3>4, <3>5, <3>6, <3>7, <3>8 DEF LogParts
  <2> QED BY <1>15, <2>1, <2>2 DEF PublishSave, SwapSave
<1>16. CASE DamageMirror
  <2>1. LogParts'
    BY <1>16, LogKept DEF DamageMirror
  <2>2. mirror' \in State \cup {NoState}
    BY <1>16, LogTyped DEF DamageMirror, LegacyState, State
  <2> QED
    BY <1>16, <2>1, <2>2 DEF DamageMirror, clientVars, LogParts, Extends, TypeOK, ArmedLoaded, HeldPublished, CandidateExtends, FoundingClean,
       SavingHasCandidate, Mirroring, Opening
<1>17. CASE FenceAuthority
  BY <1>17, LogKept DEF FenceAuthority, clientVars, LogParts, TypeOK, ArmedLoaded, HeldPublished, CandidateExtends, FoundingClean,
       SavingHasCandidate, Mirroring, Opening, Extends
<1> QED
  BY <1>0, <1>1, <1>2, <1>3, <1>4, <1>5, <1>6, <1>7, <1>8, <1>9, <1>10, <1>11, <1>12, <1>13, <1>14, <1>15, <1>16, <1>17 DEF Next

(* The inductive invariant holds in every reachable state of the store.      *)
THEOREM Invariance == Spec => []IInv
<1>1. Init => IInv
  BY InitInv
<1>2. IInv /\ [Next]_vars => IInv'
  BY NextInv
<1> QED BY <1>1, <1>2, PTL DEF Spec

(* The store's state is well typed in every reachable state.                 *)
THEOREM TypeCorrectness == Spec => []TypeOK
<1>1. IInv => TypeOK
  BY DEF IInv
<1> QED BY <1>1, Invariance, PTL

(* No generation that save admits can lock out the next process: every       *)
(* published generation passes the lineage validation of load.               *)
THEOREM PublishedLoadableHolds == Spec => []PublishedLoadable
<1>1. IInv => PublishedLoadable
  BY DEF IInv
<1> QED BY <1>1, Invariance, PTL

(* However many processes race, the published generations form one chain of  *)
(* consecutive revisions.                                                    *)
THEOREM LinearHistoryHolds == Spec => []LinearHistory
<1>1. IInv => LinearHistory
  <2> SUFFICES ASSUME IInv, NEW g \in 1..Ref
               PROVE  /\ log[g].parent = g - 1
                      /\ g > 1 => log[g].state.rev = log[g - 1].state.rev + 1
    BY DEF LinearHistory
  <2>1. log[g].parent = g - 1
    BY DEF IInv, ParentsLinear
  <2>2. ASSUME g > 1 PROVE log[g].state.rev = log[g - 1].state.rev + 1
    <3>1. Ref \in Nat /\ 1 \in 1..Ref /\ g - 1 \in 1..Ref /\ log[1].state.rev \in Nat
      BY <2>2, LogTyped DEF IInv, State
    <3>2. /\ log[g].state.rev = log[1].state.rev + (g - 1)
          /\ log[g - 1].state.rev = log[1].state.rev + ((g - 1) - 1)
      BY <3>1 DEF IInv, RevisionsCount
    <3>3. \A r \in Nat : r + (g - 1) = (r + ((g - 1) - 1)) + 1
      BY <3>1
    <3> QED BY <3>1, <3>2, <3>3
  <2> QED BY <2>1, <2>2
<1> QED BY <1>1, Invariance, PTL

(* A pre-ref state is imported at most once, before anything else.           *)
THEOREM ImportedOnceHolds == Spec => []ImportedOnce
<1>1. IInv => ImportedOnce
  BY DEF IInv
<1> QED BY <1>1, Invariance, PTL

(* As long as no two stores were open at once, at most one is open.          *)
Alone ==
    ~overlapped => \A c, d \in Client : pc[c] # "closed" /\ pc[d] # "closed" => c = d

(* A client that found no ref, and is alone, founds the history.             *)
FindsNone ==
    ~overlapped =>
        \A c \in Client :
            Opening(c) /\ pc[c] # "loading" => Ref = 0

(* An import publishes what the mirror path shows.                           *)
ImportShown ==
    Ref = 0 => \A c \in Client : pc[c] = "saving" /\ ~repair[c] => candidate[c].state = mirror

(* The mirror shows the legacy state or a published one.                     *)
MirrorPublished ==
    \/ mirror \in {NoState, LegacyState}
    \/ \E g \in 1..Ref : mirror = log[g].state

(* Whoever may publish from the current state finds it in the mirror.        *)
MirrorCurrent ==
    ~overlapped /\ Ref # 0 =>
        \A c \in Client :
            source[c] = "canonical" /\ held[c] = log[Ref].state => mirror = log[Ref].state

MirrorInv == Alone /\ FindsNone /\ ImportShown /\ MirrorPublished /\ MirrorCurrent

(* What any client may do.                                                   *)
Act(c) ==
    \/ Open(c) \/ Load(c) \/ AdoptCurrent(c) \/ FindNoRef(c) \/ ImportLegacy(c)
    \/ FindNothing(c) \/ InitializeFresh(c) \/ PublishInitial(c)
    \/ WriteMirror(c) \/ FailMirror(c)
    \/ BeginSave(c) \/ PublishSave(c) \/ Crash(c)
    \/ RefuseFenced(c) \/ RefuseFounding(c)

(* A client changes nothing of the others, and only an open one acts.        *)
LEMMA OthersStill ==
    ASSUME TypeOK, NEW c \in Client, Act(c)
    PROVE  /\ \A d \in Client \ {c} :
                 /\ pc'[d] = pc[d] /\ source'[d] = source[d] /\ loaded'[d] = loaded[d]
                 /\ held'[d] = held[d] /\ candidate'[d] = candidate[d]
                 /\ repair'[d] = repair[d]
           /\ Open(c) \/ (pc[c] # "closed" /\ overlapped' = overlapped)
<1> USE DEF TypeOK, Goto, Throw, Remember
<1>1. CASE Open(c) \/ Load(c) \/ AdoptCurrent(c) \/ FindNoRef(c) \/ FindNothing(c)
  BY <1>1 DEF Open, Load, AdoptCurrent, FindNoRef, FindNothing
<1>2. CASE ImportLegacy(c) \/ InitializeFresh(c)
  BY <1>2 DEF ImportLegacy, InitializeFresh, Founding
<1>3. CASE PublishInitial(c) \/ WriteMirror(c) \/ FailMirror(c)
  BY <1>3 DEF PublishInitial, SwapInitial, WriteMirror, RenameMirror, FailMirror
<1>4. CASE BeginSave(c) \/ PublishSave(c)
  BY <1>4 DEF BeginSave, PublishSave, SwapSave
<1>5. CASE Crash(c) \/ RefuseFenced(c) \/ RefuseFounding(c)
  BY <1>5 DEF Crash, RefuseFenced, RefuseFounding
<1> QED BY <1>1, <1>2, <1>3, <1>4, <1>5 DEF Act

(* The mirror is only written from a published state, and the history only   *)
(* grows.                                                                    *)
LEMMA MirrorWritten ==
    ASSUME IInv, NEW c \in Client, Act(c)
    PROVE  /\ mirror' = mirror \/ WriteMirror(c)
           /\ log' = log \/ PublishInitial(c) \/ PublishSave(c)
           /\ Ref \in Nat /\ Ref' \in Nat
           /\ log' # log => Ref' = Ref + 1
           /\ \A g \in 1..Ref : g \in 1..Ref' /\ log'[g] = log[g]
<1>1. mirror' = mirror \/ WriteMirror(c)
  BY DEF Act, Open, Load, AdoptCurrent, FindNoRef, ImportLegacy, FindNothing, InitializeFresh,
     PublishInitial, SwapInitial, FailMirror, BeginSave, PublishSave, SwapSave, Crash, RefuseFenced, RefuseFounding
<1>2. log' = log \/ PublishInitial(c) \/ PublishSave(c)
  BY DEF Act, Open, Load, AdoptCurrent, FindNoRef, ImportLegacy, FindNothing, InitializeFresh,
     WriteMirror, RenameMirror, FailMirror, BeginSave, Crash, RefuseFenced, RefuseFounding
<1>3. log' = log \/ (candidate[c] \in Generation /\ log' = Append(log, candidate[c]))
  BY <1>2 DEF PublishInitial, SwapInitial, PublishSave, SwapSave, IInv, SavingHasCandidate
<1>4. log \in Seq(Generation)
  BY DEF IInv, TypeOK
<1> QED BY <1>1, <1>2, <1>3, <1>4 DEF Ref

(* A client that was alone still is, unless it opened beside another.        *)
LEMMA AloneKept ==
    ASSUME IInv, Alone, [Next]_vars
    PROVE  Alone'
<1>1. ASSUME NEW c \in Client, Act(c) PROVE Alone'
  <2>1. /\ \A d \in Client \ {c} : pc'[d] = pc[d]
        /\ Open(c) \/ (pc[c] # "closed" /\ overlapped' = overlapped)
    BY <1>1, OthersStill DEF IInv
  <2>2. CASE Open(c)
    BY <2>1, <2>2 DEF Open, Alone
  <2>3. CASE ~Open(c)
    BY <2>1, <2>3 DEF Alone
  <2> QED BY <2>2, <2>3
<1>2. CASE DamageMirror \/ FenceAuthority \/ UNCHANGED vars
  BY <1>2 DEF DamageMirror, FenceAuthority, vars, clientVars, Alone
<1> QED BY <1>1, <1>2 DEF Next, Act

(* While one client founds the history, no other publishes.                  *)
LEMMA FindsNoneKept ==
    ASSUME IInv, Alone, FindsNone, [Next]_vars
    PROVE  FindsNone'
<1> USE DEF Opening
<1>1. ASSUME NEW c \in Client, Act(c) PROVE FindsNone'
  <2>1. SUFFICES ASSUME ~overlapped', NEW d \in Client,
                        Opening(d)', pc'[d] # "loading"
                 PROVE  Ref' = 0
    BY DEF FindsNone
  <2>2. d = c
    <3>1. SUFFICES ASSUME d # c PROVE FALSE
      OBVIOUS
    <3>2. pc'[d] # "closed" /\ pc'[c] = "closed"
      <4>1. Alone'
        BY <1>1, AloneKept DEF Next, Act
      <4> QED BY <2>1, <3>1, <4>1 DEF Alone
    <3>3. pc'[d] = pc[d]
      BY <1>1, <3>1, OthersStill DEF IInv
    <3>4. ~Open(c)
      BY <3>2 DEF Open, Goto, IInv, TypeOK
    <3>5. pc[c] # "closed" /\ ~overlapped
      BY <1>1, <2>1, <3>4, OthersStill DEF IInv
    <3> QED BY <3>1, <3>2, <3>3, <3>5 DEF Alone
  <2>3. ~overlapped
    BY <1>1, <2>1, OthersStill DEF IInv, Open
  <2>4. CASE FindNoRef(c)
    BY <2>4 DEF FindNoRef, Ref
  <2>5. CASE ImportLegacy(c) \/ FindNothing(c) \/ InitializeFresh(c)
    BY <2>3, <2>5 DEF ImportLegacy, FindNothing, InitializeFresh, FindsNone, Ref
  <2>6. CASE BeginSave(c)
    <3>1. CASE \E s : candidate' = [candidate EXCEPT ![c] =
                   [state |-> s, parent |-> loaded[c], imported |-> FALSE]]
               /\ source[c] = "canonical"
      <4>1. candidate'[c].parent = loaded[c] /\ loaded[c] \in 1..Ref /\ Ref \in Nat
        BY <3>1, LogTyped DEF IInv, TypeOK, ArmedLoaded
      <4>2. pc'[c] \notin {"absent", "initializing", "founding", "loading"}
        BY <2>6 DEF BeginSave, Goto, Throw, IInv, TypeOK
      <4> QED BY <2>1, <2>2, <4>1, <4>2
    <3>2. CASE Throw(c)
      BY <2>1, <2>2, <3>2 DEF Throw, Goto, IInv, TypeOK
    <3> QED BY <2>6, <3>1, <3>2 DEF BeginSave, CheckedBy
  <2>7. CASE \/ Open(c) \/ Load(c) \/ AdoptCurrent(c) \/ PublishInitial(c) \/ WriteMirror(c)
             \/ FailMirror(c) \/ PublishSave(c) \/ Crash(c) \/ RefuseFenced(c)
             \/ RefuseFounding(c)
    <3>1. pc'[c] \in {"loading", "closed", "idle", "mirroring"}
      BY <2>7 DEF Open, Load, AdoptCurrent, PublishInitial, SwapInitial, WriteMirror,
         RenameMirror, FailMirror, PublishSave, SwapSave, Crash, RefuseFenced, RefuseFounding, Throw, Goto, IInv, TypeOK
    <3> QED BY <2>1, <2>2, <3>1
  <2> QED BY <1>1, <2>4, <2>5, <2>6, <2>7 DEF Act
<1>2. CASE DamageMirror \/ FenceAuthority \/ UNCHANGED vars
  BY <1>2 DEF DamageMirror, FenceAuthority, vars, clientVars, FindsNone, Ref
<1> QED BY <1>1, <1>2 DEF Next, Act

(* Before the first publication nothing writes the mirror.                   *)
LEMMA ImportShownKept ==
    ASSUME IInv, ImportShown, [Next]_vars
    PROVE  ImportShown'
<1>1. ASSUME NEW c \in Client, Act(c) PROVE ImportShown'
  <2>1. SUFFICES ASSUME Ref' = 0, NEW d \in Client, pc'[d] = "saving", ~repair'[d]
                 PROVE  candidate'[d].state = mirror'
    BY DEF ImportShown
  <2>2. Ref = 0 /\ mirror' = mirror
    <3>1. Ref = 0
      BY <1>1, <2>1, MirrorWritten
    <3>2. ~WriteMirror(c)
      BY <3>1 DEF WriteMirror, RenameMirror, IInv, Mirroring, ArmedLoaded
    <3> QED BY <1>1, <3>1, <3>2, MirrorWritten
  <2>3. CASE d # c
    BY <1>1, <2>1, <2>2, <2>3, OthersStill DEF ImportShown, IInv
  <2>4. CASE d = c
    <3>1. CASE ImportLegacy(c)
      BY <2>1, <2>4, <3>1 DEF ImportLegacy, Founding, IInv, TypeOK
    <3>2. CASE InitializeFresh(c)
      BY <2>1, <2>4, <3>2 DEF InitializeFresh, Founding, IInv, TypeOK
    <3>3. CASE BeginSave(c)
      <4>1. source[c] # "canonical"
        BY <2>2 DEF IInv, ArmedLoaded
      <4> QED BY <2>1, <2>4, <3>3, <4>1 DEF BeginSave, CheckedBy, Throw, Goto, IInv, TypeOK
    <3>4. ASSUME ~ImportLegacy(c), ~InitializeFresh(c), ~BeginSave(c) PROVE pc'[c] # "saving"
      BY <1>1, <3>4 DEF Act, Open, Load, AdoptCurrent, FindNoRef, FindNothing, PublishInitial, SwapInitial,
         WriteMirror, RenameMirror, FailMirror, PublishSave, SwapSave, Crash, RefuseFenced, RefuseFounding, Throw, Goto,
         IInv, TypeOK
    <3> QED BY <2>1, <2>4, <3>1, <3>2, <3>3, <3>4
  <2> QED BY <2>3, <2>4
<1>2. CASE DamageMirror \/ FenceAuthority \/ UNCHANGED vars
  BY <1>2 DEF DamageMirror, FenceAuthority, vars, clientVars, ImportShown, Ref
<1> QED BY <1>1, <1>2 DEF Next, Act

(* What is written to the mirror was published before.                       *)
LEMMA MirrorPublishedKept ==
    ASSUME IInv, MirrorPublished, [Next]_vars
    PROVE  MirrorPublished'
<1>1. ASSUME NEW c \in Client, Act(c) PROVE MirrorPublished'
  <2>1. CASE mirror' = mirror
    <3>1. LegacyState' = LegacyState
      BY DEF LegacyState
    <3> QED BY <1>1, <2>1, <3>1, MirrorWritten DEF MirrorPublished
  <2>2. CASE WriteMirror(c)
    <3>1. loaded[c] \in 1..Ref /\ mirror' = log[loaded[c]].state
      BY <2>2 DEF WriteMirror, RenameMirror, IInv, Mirroring, ArmedLoaded
    <3> QED BY <1>1, <3>1, MirrorWritten DEF MirrorPublished
  <2> QED BY <1>1, <2>1, <2>2, MirrorWritten
<1>2. CASE DamageMirror \/ FenceAuthority \/ UNCHANGED vars
  BY <1>2 DEF DamageMirror, FenceAuthority, vars, clientVars, MirrorPublished, Ref, LegacyState
<1> QED BY <1>1, <1>2 DEF Next, Act

(* A caller that is handed the current state finds it in the mirror.         *)
LEMMA MirrorCurrentKept ==
    ASSUME IInv, IInv', MirrorInv, Alone', [Next]_vars
    PROVE  MirrorCurrent'
<1>1. ASSUME NEW c \in Client, Act(c) PROVE MirrorCurrent'
  <2>1. SUFFICES ASSUME ~overlapped', Ref' # 0, NEW d \in Client, source'[d] = "canonical",
                        held'[d] = log'[Ref'].state
                 PROVE  mirror' = log'[Ref'].state
    BY DEF MirrorCurrent
  <2>2. held'[d] # NoState
    <3>1. TypeOK' /\ log'[Ref'].state \in State
      <4>1. log' \in Seq(Generation) /\ TypeOK'
        BY DEF IInv, TypeOK
      <4>2. log'[Ref'] \in Generation
        BY <2>1, <4>1 DEF Ref
      <4> QED BY <4>1, <4>2 DEF Generation
    <3> QED BY <2>1, <3>1, DistinctAssumption
  <2>3. pc'[d] # "closed"
    BY <2>2 DEF IInv, HeldPublished
  <2>4. ~Open(c) /\ ~overlapped /\ pc[c] # "closed"
    <3>1. ~overlapped
      BY <1>1, <2>1, OthersStill DEF IInv, Open
    <3>2. ~Open(c)
      <4>1. SUFFICES ASSUME Open(c) PROVE FALSE
        OBVIOUS
      <4>2. pc'[c] = "loading" /\ held'[c] = NoState
        BY <4>1 DEF Open, Goto, IInv, TypeOK
      <4> QED BY <2>1, <2>2, <2>3, <4>2 DEF Alone
    <3> QED BY <1>1, <3>1, <3>2, OthersStill DEF IInv
  <2>5. d = c
    <3>1. d # c => pc'[d] = pc[d]
      BY <1>1, OthersStill DEF IInv
    <3> QED BY <2>3, <2>4, <3>1 DEF MirrorInv, Alone
  <2>6. CASE WriteMirror(c)
    BY <2>1, <2>5, <2>6 DEF WriteMirror, RenameMirror, IInv, TypeOK
  <2>7. CASE PublishInitial(c)
    <3>1. held[c] = NoState /\ pc[c] = "saving" /\ candidate[c].parent = 0
      BY <2>7 DEF PublishInitial, SwapInitial, IInv, HeldPublished, Opening
    <3>2. Ref = 0
      BY <2>4, <3>1 DEF MirrorInv, FindsNone, Opening
    <3>3. ~repair[c] /\ mirror' = mirror
      BY <2>2, <2>5, <2>7, <3>1 DEF PublishInitial, SwapInitial
    <3>4. log' = Append(log, candidate[c]) /\ candidate[c] \in Generation /\ log \in Seq(Generation)
      BY <2>7, <3>1, <3>2 DEF PublishInitial, SwapInitial, Matches, IInv, SavingHasCandidate, TypeOK
    <3>5. log'[Ref'] = candidate[c]
      BY <3>4 DEF Ref
    <3> QED BY <3>1, <3>2, <3>3, <3>5 DEF MirrorInv, ImportShown
  <2>8. CASE PublishSave(c)
    <3>1. CASE UNCHANGED <<log, source>>
      BY <2>1, <2>5, <2>8, <3>1 DEF PublishSave, SwapSave, MirrorInv, MirrorCurrent, Ref
    <3>2. CASE ~UNCHANGED <<log, source>>
      <4>1. /\ log' = Append(log, candidate[c]) /\ Ref = candidate[c].parent /\ held' = held
            /\ pc[c] = "saving" /\ candidate[c].parent # 0
        BY <2>8, <3>2 DEF PublishSave, SwapSave, Matches
      <4>2. /\ candidate[c] \in Generation /\ log \in Seq(Generation)
            /\ Extends(candidate[c], loaded[c], held[c])
        BY <4>1 DEF IInv, CandidateExtends, SavingHasCandidate, TypeOK
      <4>3. log'[Ref'] = candidate[c]
        BY <4>1, <4>2 DEF Ref
      <4>4. held[c] \in State
        BY <2>2, <2>5, <4>1 DEF IInv, TypeOK
      <4>5. candidate[c].state.rev = held[c].rev + 1 /\ held[c].rev \in Nat
        BY <4>2, <4>4 DEF Extends, State
      <4> QED BY <2>1, <2>5, <4>1, <4>3, <4>5
    <3> QED BY <3>1, <3>2
  <2>9. CASE Load(c)
    BY <2>1, <2>5, <2>9 DEF Load, IInv, TypeOK
  <2>10. CASE AdoptCurrent(c) \/ FindNoRef(c) \/ FindNothing(c) \/ ImportLegacy(c)
              \/ InitializeFresh(c) \/ RefuseFenced(c) \/ Crash(c)
    <3>1. held'[c] = NoState
      BY <2>10 DEF AdoptCurrent, FindNoRef, FindNothing, ImportLegacy, InitializeFresh,
         RefuseFenced, Crash, IInv, TypeOK, HeldPublished, Opening
    <3> QED BY <2>2, <2>5, <3>1
  <2>11. CASE FailMirror(c) \/ BeginSave(c) \/ RefuseFounding(c)
    <3>1. UNCHANGED <<log, mirror, source, held, Ref>>
      BY <2>11 DEF FailMirror, BeginSave, RefuseFounding, Ref
    <3> QED BY <2>1, <2>4, <3>1 DEF MirrorInv, MirrorCurrent
  <2> QED BY <1>1, <2>4, <2>6, <2>7, <2>8, <2>9, <2>10, <2>11 DEF Act
<1>2. CASE DamageMirror
  <2>1. \A c \in Client : held[c] = NoState
    BY <1>2 DEF DamageMirror, IInv, HeldPublished
  <2>2. Ref # 0 => log[Ref].state # NoState
    BY LogTyped, DistinctAssumption DEF IInv
  <2> QED BY <1>2, <2>1, <2>2 DEF DamageMirror, clientVars, MirrorCurrent, Ref
<1>3. CASE FenceAuthority \/ UNCHANGED vars
  BY <1>3 DEF FenceAuthority, vars, clientVars, MirrorInv, MirrorCurrent, Ref
<1> QED BY <1>1, <1>2, <1>3 DEF Next, Act

(* The mirror never shows a state that was not published, and, when clients  *)
(* come one after the other, shows the current state to whoever was handed   *)
(* it, whatever crash, failed write or damage came before.                   *)
THEOREM MirrorFollowsHolds == Spec => []MirrorFollows
<1>1. Init => MirrorInv
  BY DEF Init, MirrorInv, Alone, FindsNone, Opening, ImportShown, MirrorPublished,
     MirrorCurrent, Ref
<1>2. IInv /\ IInv' /\ MirrorInv /\ [Next]_vars => MirrorInv'
  BY AloneKept, FindsNoneKept, ImportShownKept, MirrorPublishedKept, MirrorCurrentKept
  DEF MirrorInv
<1>3. MirrorInv => MirrorFollows
  BY DEF MirrorInv, MirrorPublished, MirrorCurrent, MirrorFollows
<1> QED BY <1>1, <1>2, <1>3, Invariance, PTL DEF Spec

(* The refinement mapping of the history, as a sequence.                     *)
States(gens) == [g \in 1..Len(gens) |-> gens[g].state]

(* The states of the published generations form the abstract history.        *)
LEMMA StatesSeq ==
    ASSUME NEW gens, gens \in Seq(Generation)
    PROVE  /\ Len(gens) \in Nat /\ Len(States(gens)) = Len(gens)
           /\ \A g \in 1..Len(gens) : States(gens)[g] = gens[g].state
           /\ States(gens) = << >> <=> Len(gens) = 0
<1>1. Len(gens) \in Nat /\ \A g \in 1..Len(gens) : gens[g].state \in State
  <2>1. Len(gens) \in Nat /\ \A g \in 1..Len(gens) : gens[g] \in Generation
    OBVIOUS
  <2> QED BY <2>1 DEF Generation
<1>2. States(gens) \in Seq(State)
  BY <1>1 DEF States
<1>3. DOMAIN States(gens) = 1..Len(gens)
  BY DEF States
<1>4. Len(States(gens)) = Len(gens)
  BY <1>1, <1>2, <1>3
<1> QED BY <1>1, <1>2, <1>4 DEF States

(* A step that changes neither the history nor a caller's basis.             *)
LEMMA Stutters ==
    ASSUME UNCHANGED log, basis' = basis
    PROVE  UNCHANGED <<States(log), basis>>
BY DEF States

(* Every step of the store is a step of the abstract history or a stutter.    *)
LEMMA StepSimulation ==
    ASSUME IInv, IInv', [Next]_vars
    PROVE  Abstract!Next \/ UNCHANGED <<States(log), basis>>
<1> USE DEF Ref
<1>1. ASSUME NEW c \in Client, UNCHANGED log, basis' = [basis EXCEPT ![c] = NoState]
      PROVE  Abstract!Next
  <2>1. States(log)' = States(log)
    BY <1>1 DEF States
  <2> QED BY <1>1, <2>1 DEF Abstract!Next, Abstract!Observe, States
<1>2. ASSUME NEW c \in Client, UNCHANGED log, NEW g \in 1..Ref,
             basis' = [basis EXCEPT ![c] = log[g].state]
      PROVE  Abstract!Next
  <2>1. States(log)' = States(log)
    BY <1>2 DEF States
  <2>2. g \in 1..Len(States(log)) /\ log[g].state = States(log)[g]
    BY StatesSeq DEF IInv, TypeOK
  <2> QED BY <1>2, <2>1, <2>2 DEF Abstract!Next, Abstract!Observe, States
<1>3. ASSUME NEW c \in Client, Open(c) \/ Crash(c) PROVE Abstract!Next
  <2>1. basis' = [basis EXCEPT ![c] = NoState]
    BY <1>3 DEF Open, Crash, basis, IInv, TypeOK
  <2> QED BY <1>1, <1>3, <2>1 DEF Open, Crash
<1>4. ASSUME NEW c \in Client,
             \/ Load(c) \/ AdoptCurrent(c) \/ FindNoRef(c) \/ ImportLegacy(c)
             \/ FindNothing(c) \/ InitializeFresh(c) \/ FailMirror(c)
             \/ BeginSave(c) \/ RefuseFenced(c) \/ RefuseFounding(c)
      PROVE  UNCHANGED <<States(log), basis>>
  <2>1. UNCHANGED log
    BY <1>4 DEF Load, AdoptCurrent, FindNoRef, ImportLegacy, FindNothing,
       InitializeFresh, FailMirror, BeginSave, RefuseFenced, RefuseFounding
  <2>2. CASE UNCHANGED <<source, held>>
    BY <2>1, <2>2, Stutters DEF basis
  <2>3. CASE held[c] = NoState /\ UNCHANGED held /\ \E x : source' = [source EXCEPT ![c] = x]
    <3>1. basis' = basis
      BY <2>3 DEF basis, IInv, TypeOK
    <3> QED BY <2>1, <3>1, Stutters
  <2>4. CASE /\ held[c] = NoState
             /\ \E s : held' = [held EXCEPT ![c] = s]
             /\ \E x : x # "canonical" /\ source' = [source EXCEPT ![c] = x]
    <3>1. basis' = basis
      BY <2>4 DEF basis, IInv, TypeOK
    <3> QED BY <2>1, <3>1, Stutters
  <2>5. CASE Load(c)
    <3>1. held[c] = NoState
      BY <2>5 DEF Load, IInv, HeldPublished, Opening
    <3> QED BY <2>4, <2>5, <3>1 DEF Load
  <2>6. CASE AdoptCurrent(c) \/ FindNothing(c)
    <3>1. held[c] = NoState
      BY <2>6 DEF AdoptCurrent, FindNothing, IInv, HeldPublished, Opening
    <3> QED BY <2>2, <2>3, <2>6, <3>1 DEF AdoptCurrent, FindNothing, Remember
  <2>7. CASE \/ FindNoRef(c) \/ ImportLegacy(c) \/ InitializeFresh(c) \/ FailMirror(c)
             \/ BeginSave(c) \/ RefuseFenced(c) \/ RefuseFounding(c)
    BY <2>2, <2>7 DEF FindNoRef, ImportLegacy, InitializeFresh, FailMirror,
       BeginSave, RefuseFenced, RefuseFounding
  <2> QED BY <1>4, <2>5, <2>6, <2>7
<1>5. ASSUME NEW c \in Client, WriteMirror(c) PROVE Abstract!Next
  <2>1. loaded[c] \in 1..Ref /\ source[c] = "canonical"
    BY <1>5 DEF WriteMirror, RenameMirror, IInv, Mirroring, ArmedLoaded
  <2>2. basis' = [basis EXCEPT ![c] = log[loaded[c]].state]
    BY <1>5, <2>1 DEF WriteMirror, RenameMirror, basis, IInv, TypeOK
  <2> QED BY <1>2, <1>5, <2>1, <2>2 DEF WriteMirror, RenameMirror
<1>6. ASSUME NEW c \in Client, PublishInitial(c)
      PROVE  Abstract!Next \/ UNCHANGED <<States(log), basis>>
  <2>1. basis[c] = NoState /\ basis \in [Client -> State \cup {NoState}] /\ c \in Client
    BY <1>6 DEF PublishInitial, SwapInitial, IInv, HeldPublished, Opening, TypeOK, basis
  <2>2. basis' = basis \/ basis' = [basis EXCEPT ![c] = log'[loaded'[c]].state]
    <3>1. /\ held[c] = NoState
          /\ source' = [source EXCEPT ![c] = "canonical"]
          /\ held' = held \/ held' = [held EXCEPT ![c] = log'[loaded'[c]].state]
      BY <1>6 DEF PublishInitial, SwapInitial, Remember, IInv, HeldPublished, Opening
    <3> QED BY <3>1 DEF IInv, TypeOK, basis
  <2>3. CASE Ref = 0
    <3>1. Len(log') = 1 /\ loaded'[c] = 1
      BY <1>6, <2>3 DEF PublishInitial, SwapInitial, Matches, Remember, IInv, TypeOK
    <3>2. States(log) = << >> /\ Len(States(log)) = 0
      BY <2>3, StatesSeq DEF IInv, TypeOK
    <3>4. Len(States(log')) = 1 /\ States(log')[1] = log'[1].state
      <4>1. log' \in Seq(Generation)
        BY DEF IInv, TypeOK
      <4> QED BY <3>1, <4>1, StatesSeq
    <3>3. Abstract!Found(c)
      BY <2>2, <3>1, <3>2, <3>4 DEF Abstract!Found, Abstract!Grows, States
    <3> QED BY <3>3 DEF Abstract!Next
  <2>4. CASE Ref # 0
    <3>1. log' = log /\ loaded'[c] = Ref /\ Ref \in 1..Ref
      BY <1>6, <2>4, LogTyped DEF PublishInitial, SwapInitial, Matches, Remember, IInv, TypeOK
    <3> QED BY <1>2, <2>2, <3>1, Stutters
  <2> QED BY <2>3, <2>4
<1>7. ASSUME NEW c \in Client, PublishSave(c)
      PROVE  Abstract!Next \/ UNCHANGED <<States(log), basis>>
  <2>1. CASE UNCHANGED <<log, source, held>>
    BY <2>1, Stutters DEF basis
  <2>2. CASE ~UNCHANGED <<log, source, held>>
    <3>1. /\ log' = Append(log, candidate[c]) /\ Matches(candidate[c].parent)
          /\ source' = [source EXCEPT ![c] = "canonical"] /\ held' = held
          /\ pc[c] = "saving" /\ candidate[c].parent # 0
      BY <1>7, <2>2 DEF PublishSave, SwapSave, Remember
    <3>2. source[c] = "canonical" /\ held[c] = log[Ref].state /\ Ref # 0
      <4>1. source[c] = "canonical" /\ Extends(candidate[c], loaded[c], held[c])
        BY <3>1 DEF IInv, CandidateExtends
      <4>2. loaded[c] = Ref /\ Ref # 0
        BY <3>1, <4>1 DEF Extends, Matches
      <4> QED BY <4>1, <4>2 DEF Extends
    <3>3. basis' = basis /\ basis[c] = log[Ref].state
      BY <3>1, <3>2 DEF basis, IInv, TypeOK
    <3>4. /\ Len(log') = Len(log) + 1 /\ Len(log) \in Nat /\ Len(log) \in 1..Len(log)
          /\ \A g \in 1..Len(log) : log'[g] = log[g] /\ g \in 1..Len(log')
      BY <3>1, <3>2, LogTyped DEF IInv, TypeOK, SavingHasCandidate
    <3>5. /\ States(log) # << >> /\ Len(States(log)) = Len(log)
          /\ Len(States(log')) = Len(log')
          /\ States(log)[Len(log)] = log[Len(log)].state
          /\ \A g \in 1..Len(log) : States(log')[g] = States(log)[g]
      BY <3>2, <3>4, StatesSeq DEF IInv, TypeOK
    <3>6. Abstract!Extend(c)
      BY <3>3, <3>4, <3>5 DEF Abstract!Extend, Abstract!Grows, Abstract!Latest, States
    <3> QED BY <3>6 DEF Abstract!Next
  <2> QED BY <2>1, <2>2
<1>8. CASE DamageMirror \/ FenceAuthority \/ UNCHANGED vars
  <2>1. UNCHANGED log /\ basis' = basis
    BY <1>8 DEF DamageMirror, FenceAuthority, clientVars, vars, basis
  <2> QED BY <2>1, Stutters
<1> QED BY <1>3, <1>4, <1>5, <1>6, <1>7, <1>8 DEF Next

(* The store implements the abstract history: no published state is lost,    *)
(* rewritten or forked, and only the holder of the latest state extends it.  *)
THEOREM Refinement == Spec => ImplementsOptimisticHistory
<1>1. Init => Abstract!Init
  BY DEF Init, Abstract!Init, basis, Ref
<1>2. IInv /\ IInv' /\ [Next]_vars =>
          [Abstract!Next]_<<[g \in 1..Ref |-> log[g].state], basis>>
  BY StepSimulation DEF States, Ref
<1> QED BY <1>1, <1>2, Invariance, PTL
  DEF Spec, ImplementsOptimisticHistory, Abstract!Spec

==============================================================================
