------------------------ MODULE DeferredWork_proofs ------------------------
(***************************************************************************)
(* Proofs about DeferredWork.  A step of it is a step of the world beside  *)
(* a step of the queue, so each half has an invariant of its own, and only *)
(* the types of the queue are needed to tell what the other half may do.   *)
(***************************************************************************)
EXTENDS DeferredWork, SequenceTheorems, TLAPS

-----------------------------------------------------------------------------
(* The two halves of a step *)

Create == \E id \in EntityId : Enter(id) /\ nextId' \in EntityId /\ stores' = With(Kinds, id)
Remove == \E id \in active : RemoveEntity(id)
Wound ==
  /\ \E kinds, id : stores' = Without(kinds, id)
  /\ UNCHANGED << nextId, creationOrder, entityOrder, active >>
WorldNext == Create \/ Remove \/ Wound

QueueNext == (\E w \in Work : Enqueue(w)) \/ Flush \/ Clear \/ Commit \/ Follow \/ Throw

\* The successor of an id is an id: the counter wraps.
LEMMA SuccIsId == ASSUME NEW id \in EntityId PROVE Succ(id) \in EntityId
  BY WidthAssumption DEF EntityId, Succ

LEMMA WorldSteps == ASSUME [Next]_vars, nextId \in EntityId PROVE [WorldNext]_worldVars
<1> USE DEF WorldNext, worldVars
<1>1. ASSUME NEW id \in EntityId, SpawnNamed(id) PROVE Create
  <2>1. Enter(id) /\ stores' = With(Kinds, id) BY <1>1 DEF SpawnNamed, CreateNamed, Spawned
  <2>2. nextId' \in EntityId BY <1>1, SuccIsId DEF SpawnNamed, CreateNamed
  <2> QED BY <2>1, <2>2 DEF Create
<1>2. ASSUME NEW id \in EntityId, SpawnNext(id) PROVE Create
  <2>1. Enter(id) /\ stores' = With(Kinds, id) BY <1>2 DEF SpawnNext, CreateNext, Spawned
  <2>2. nextId' \in EntityId BY <1>2, SuccIsId DEF SpawnNext, CreateNext
  <2> QED BY <2>1, <2>2 DEF Create
<1>3. ASSUME NEW id \in EntityId, RemoveNow(id) PROVE Remove
  BY <1>3 DEF RemoveNow, Remove, RemoveEntity
<1>4. CASE ApplyBlow BY <1>4 DEF ApplyBlow, Wound
<1>5. CASE ApplyRemoval BY <1>5 DEF ApplyRemoval, Remove, RemoveEntity
<1>6. CASE UNCHANGED vars BY <1>6 DEF vars
<1>7. CASE \/ \E w \in Work : EnqueueWork(w)
           \/ FlushQueue \/ ClearQueue \/ OperationThrows
           \/ ScriptCommits \/ ScriptThrows \/ ScriptEnds
  BY <1>7 DEF EnqueueWork, FlushQueue, ClearQueue, OperationThrows, ScriptCommits, ScriptThrows,
              ScriptEnds
<1> QED BY <1>1, <1>2, <1>3, <1>4, <1>5, <1>6, <1>7 DEF Next, ClientRests

LEMMA QueueSteps == ASSUME [Next]_vars PROVE [QueueNext]_queueVars
<1> USE DEF QueueNext
<1>1. CASE \/ \E id \in EntityId : SpawnNamed(id) \/ SpawnNext(id) \/ RemoveNow(id)
           \/ ClientRests \/ UNCHANGED vars
  BY <1>1 DEF SpawnNamed, SpawnNext, Spawned, RemoveNow, ClientRests, vars
<1>2. CASE \/ \E w \in Work : EnqueueWork(w)
           \/ FlushQueue \/ ClearQueue
  BY <1>2 DEF EnqueueWork, FlushQueue, ClearQueue
<1>3. CASE ApplyBlow \/ ApplyRemoval \/ OperationThrows \/ ScriptCommits \/ ScriptThrows \/ ScriptEnds
  BY <1>3 DEF ApplyBlow, ApplyRemoval, OperationThrows, ScriptCommits, ScriptThrows, ScriptEnds
<1> QED BY <1>1, <1>2, <1>3 DEF Next

-----------------------------------------------------------------------------
(* The world *)

WorldType ==
  /\ nextId \in EntityId
  /\ creationOrder \in Seq(EntityId \ {InvalidEntityId})
  /\ active \subseteq Used /\ Used \subseteq EntityId \ {InvalidEntityId}
  /\ entityOrder \in [Used -> Nat]
  /\ stores \in [Kinds -> SUBSET EntityId]

WorldInv == WorldType /\ OrderIsCreation /\ ComponentsAreOwned

LEMMA WorldStarts == WorldInit => WorldInv
  BY WidthAssumption
  DEF WorldInit, WorldInv, WorldType, OrderIsCreation, ComponentsAreOwned, Used, EntityId,
      InvalidEntityId

LEMMA CreateKeepsOrder ==
  ASSUME WorldType, OrderIsCreation, NEW id \in EntityId, Enter(id)
  PROVE  OrderIsCreation'
<1> DEFINE n == Len(creationOrder)
<1>1. n \in Nat /\ DOMAIN creationOrder = 1 .. n BY DEF WorldType
<1>2. /\ creationOrder' = Append(creationOrder, id)
      /\ DOMAIN creationOrder' = 1 .. n + 1
      /\ creationOrder'[n + 1] = id
      /\ \A i \in 1 .. n : creationOrder'[i] = creationOrder[i]
  <2>1. id \in EntityId \ {InvalidEntityId} BY DEF Enter, Free
  <2> QED BY <1>1, <2>1 DEF Enter, WorldType
<1>3. /\ Used' = Used \cup {id} /\ id \notin Used
      /\ entityOrder'[id] = n
      /\ \A e \in Used : entityOrder'[e] = entityOrder[e]
  BY DEF Enter, Free, Ordered, Used
<1>4. ASSUME NEW i \in DOMAIN creationOrder'
      PROVE  creationOrder'[i] \in Used' /\ entityOrder'[creationOrder'[i]] = i - 1
  <2>1. CASE i = n + 1 BY <1>1, <1>2, <1>3, <2>1
  <2>2. CASE i \in 1 .. n BY <1>1, <1>2, <1>3, <2>2 DEF OrderIsCreation
  <2> QED BY <1>1, <1>2, <1>4, <2>1, <2>2
<1>5. ASSUME NEW e \in Used'
      PROVE  /\ entityOrder'[e] + 1 \in DOMAIN creationOrder'
             /\ creationOrder'[entityOrder'[e] + 1] = e
  <2>1. CASE e = id BY <1>1, <1>2, <1>3, <2>1
  <2>2. CASE e \in Used BY <1>1, <1>2, <1>3, <2>2 DEF OrderIsCreation, WorldType
  <2> QED BY <1>3, <2>1, <2>2
<1> QED BY <1>4, <1>5 DEF OrderIsCreation

LEMMA WorldContinues == ASSUME WorldInv, [WorldNext]_worldVars PROVE WorldInv'
<1> USE DEF WorldInv
<1>1. ASSUME NEW id \in EntityId, Enter(id), nextId' \in EntityId, stores' = With(Kinds, id)
      PROVE  WorldInv'
  <2>1. id \in EntityId \ {InvalidEntityId} BY <1>1 DEF Enter, Free
  <2>2. Used' = Used \cup {id} BY <1>1 DEF Enter, Ordered, Used
  <2>3. creationOrder' \in Seq(EntityId \ {InvalidEntityId}) BY <1>1, <2>1 DEF Enter, WorldType
  <2>4. entityOrder' \in [Used' -> Nat]
    <3>1. Len(creationOrder) \in Nat BY DEF WorldType
    <3> QED BY <1>1, <2>2, <3>1 DEF Enter, Ordered, WorldType, Used
  <2>5. stores' \in [Kinds -> SUBSET EntityId] BY <1>1 DEF With, WorldType
  <2>6. active' = active \cup {id} BY <1>1 DEF Enter
  <2>7. WorldType' BY <1>1, <2>1, <2>2, <2>3, <2>4, <2>5, <2>6 DEF WorldType
  <2>8. OrderIsCreation' BY <1>1, CreateKeepsOrder
  <2>9. ComponentsAreOwned' BY <1>1, <2>6 DEF ComponentsAreOwned, With, WorldType
  <2> QED BY <2>7, <2>8, <2>9
<1>2. ASSUME NEW id \in active, RemoveEntity(id) PROVE WorldInv'
  <2>1. UNCHANGED << nextId, creationOrder, entityOrder >> BY <1>2 DEF RemoveEntity
  <2>2. WorldType' BY <1>2, <2>1 DEF RemoveEntity, Erased, WorldType, Used
  <2>3. OrderIsCreation' BY <2>1 DEF OrderIsCreation, Used
  <2>4. ComponentsAreOwned' BY <1>2 DEF RemoveEntity, Erased, ComponentsAreOwned, WorldType
  <2> QED BY <2>2, <2>3, <2>4
<1>3. CASE Wound
  <2>1. UNCHANGED << nextId, creationOrder, entityOrder, active >> BY <1>3 DEF Wound
  <2>2. PICK kinds, id : stores' = Without(kinds, id) BY <1>3 DEF Wound
  <2>3. WorldType' BY <2>1, <2>2 DEF Without, WorldType, Used
  <2>4. OrderIsCreation' BY <2>1 DEF OrderIsCreation, Used
  <2>5. ComponentsAreOwned' BY <2>1, <2>2 DEF Without, ComponentsAreOwned, WorldType
  <2> QED BY <2>3, <2>4, <2>5
<1>4. CASE UNCHANGED worldVars
  BY <1>4 DEF worldVars, WorldType, OrderIsCreation, ComponentsAreOwned, Used
<1> QED BY <1>1, <1>2, <1>3, <1>4 DEF WorldNext, Create, Remove

\* The world keeps its invariant: an id's noted place is its place in the creation
\* order, and only those who exist have components.
THEOREM WorldInvariant == Spec => []WorldInv
<1>1. Init => WorldInv BY WorldStarts DEF Init
<1>2. WorldInv /\ [Next]_vars => WorldInv'
  BY WorldSteps, WorldContinues DEF WorldInv, WorldType
<1> QED BY <1>1, <1>2, PTL DEF Spec

\* World::createEntity's bookkeeping: OrderIsCreation of the run `world', for every
\* width of the counter and every set of stores.
THEOREM OrderTheorem == Spec => []OrderIsCreation
  BY WorldInvariant, PTL DEF WorldInv

\* ComponentStorage::removeEntity reaches every store: ComponentsAreOwned, however
\* late the mutation that removes or wounds.
THEOREM OwnershipTheorem == Spec => []ComponentsAreOwned
  BY WorldInvariant, PTL DEF WorldInv

\* A removed id never comes back: IdsAreNeverReused, although the counter that draws
\* ids wraps and callers may name any id themselves.
THEOREM ReuseTheorem == Spec => IdsAreNeverReused
<1>1. ASSUME WorldInv, [Next]_vars, NEW old \in Used \ active PROVE old \notin active'
  <2>1. [WorldNext]_worldVars BY <1>1, WorldSteps DEF WorldInv, WorldType
  <2>2. CASE Create BY <1>1, <2>2 DEF Create, Enter, Free
  <2>3. CASE Remove \/ Wound \/ UNCHANGED worldVars
    BY <1>1, <2>3 DEF Remove, RemoveEntity, Wound, worldVars
  <2> QED BY <2>1, <2>2, <2>3 DEF WorldNext
<1>2. WorldInv /\ [Next]_vars => [\A id \in Used \ active : id \notin active']_vars
  BY <1>1
<1> QED BY <1>2, WorldInvariant, PTL DEF Spec, IdsAreNeverReused

-----------------------------------------------------------------------------
(* The queue: what is in flight, and what one mutation changes of it *)

QueueType ==
  /\ queue \in Seq(Mutation) /\ frames \in Seq(Frame)
  /\ issued \in 0 .. MaxEnqueued
  /\ applied \in Seq(1 .. MaxEnqueued) /\ dropped \subseteq 1 .. MaxEnqueued
  /\ \A i \in DOMAIN frames : frames[i].rest # << >>

\* A mutation enqueued later has the larger number.
Increasing(mutations) ==
  \A i, j \in DOMAIN mutations : i < j => mutations[i].serial < mutations[j].serial
EachIncreasing == Increasing(queue) /\ \A i \in DOMAIN frames : Increasing(frames[i].rest)

QueueInv == QueueType /\ EachIncreasing /\ NoMutationIsLost /\ EachAppliedOnce /\ LaterOnesWait

\* The numbers of a sequence are those of its head and of its tail.
LEMMA SerialsOfTail ==
  ASSUME NEW s \in Seq(Mutation), s # << >>, Increasing(s)
  PROVE  /\ Head(s) \in Mutation /\ Tail(s) \in Seq(Mutation) /\ Increasing(Tail(s))
         /\ Serials(s) = {Head(s).serial} \cup Serials(Tail(s))
         /\ \A m \in Serials(Tail(s)) : Head(s).serial < m
<1> DEFINE n == Len(s)
<1>1. /\ n \in Nat \ {0} /\ DOMAIN s = 1 .. n /\ Head(s) = s[1] /\ s[1] \in Mutation
      /\ Tail(s) \in Seq(Mutation) /\ DOMAIN Tail(s) = 1 .. n - 1
      /\ \A i \in 1 .. n - 1 : Tail(s)[i] = s[i + 1]
  OBVIOUS
<1> HIDE DEF n
<1>2. Increasing(Tail(s)) BY <1>1 DEF Increasing
<1>3. Serials(s) = {Head(s).serial} \cup Serials(Tail(s))
  <2>1. ASSUME NEW i \in 1 .. n PROVE s[i].serial \in {Head(s).serial} \cup Serials(Tail(s))
    <3>1. CASE i = 1 BY <1>1, <3>1
    <3>2. CASE i # 1
      <4>1. i - 1 \in 1 .. n - 1 /\ Tail(s)[i - 1] = s[i] BY <1>1, <3>2
      <4> QED BY <1>1, <4>1 DEF Serials
    <3> QED BY <3>1, <3>2
  <2>2. ASSUME NEW i \in 1 .. n - 1 PROVE Tail(s)[i].serial \in Serials(s)
    <3>1. i + 1 \in 1 .. n /\ Tail(s)[i] = s[i + 1] BY <1>1
    <3> QED BY <1>1, <3>1 DEF Serials
  <2>3. Head(s).serial \in Serials(s) BY <1>1 DEF Serials
  <2>4. Serials(s) \subseteq {Head(s).serial} \cup Serials(Tail(s)) BY <1>1, <2>1 DEF Serials
  <2>5. Serials(Tail(s)) \subseteq Serials(s) BY <1>1, <2>2 DEF Serials
  <2> QED BY <2>3, <2>4, <2>5
<1>4. ASSUME NEW i \in 1 .. n - 1 PROVE Head(s).serial < Tail(s)[i].serial
  BY <1>1 DEF Increasing
<1> QED BY <1>1, <1>2, <1>3, <1>4 DEF Serials

LEMMA SerialsAreNumbers ==
  ASSUME NEW s \in Seq(Mutation) PROVE Serials(s) \subseteq 1 .. MaxEnqueued
<1>1. \A i \in DOMAIN s : s[i] \in Mutation OBVIOUS
<1> QED BY <1>1 DEF Serials, Mutation

\* The innermost flush, and the flushes around it.
LEMMA TopFrame ==
  ASSUME QueueInv, frames # << >>
  PROVE  /\ Len(frames) \in Nat \ {0} /\ DOMAIN frames = 1 .. Len(frames)
         /\ Top \in Frame /\ Top.rest \in Seq(Mutation) /\ Top.rest # << >> /\ Increasing(Top.rest)
         /\ Outer \in Seq(Frame) /\ Len(Outer) = Len(frames) - 1
         /\ \A i \in 1 .. Len(frames) - 1 : Outer[i] = frames[i]
<1> DEFINE n == Len(frames)
<1>1. frames \in Seq(Frame) /\ n \in Nat \ {0} /\ DOMAIN frames = 1 .. n
  BY DEF QueueInv, QueueType
<1>2. Top \in Frame /\ Top.rest # << >> /\ Increasing(Top.rest)
  <2>1. n \in DOMAIN frames /\ Top = frames[n] BY <1>1 DEF Top
  <2> QED BY <1>1, <2>1 DEF QueueInv, QueueType, EachIncreasing
<1>3. Top.rest \in Seq(Mutation) BY <1>2 DEF Frame
<1>4. /\ Outer \in Seq(Frame) /\ Len(Outer) = n - 1
      /\ \A i \in 1 .. n - 1 : Outer[i] = frames[i]
  <2>1. n - 1 \in Nat /\ \A i \in 1 .. n - 1 : frames[i] \in Frame BY <1>1
  <2>2. Outer = [i \in 1 .. n - 1 |-> frames[i]] BY <1>1 DEF Outer
  <2> HIDE DEF n
  <2> QED BY <2>1, <2>2
<1> QED BY <1>1, <1>2, <1>3, <1>4

\* The stack after a step of the innermost flush: it has lost its first mutation, and
\* the flush is gone if that was the last one.
Moved(stack) ==
  /\ stack \in Seq(Frame)
  /\ Len(stack) \in {Len(frames) - 1, Len(frames)}
  /\ \A i \in 1 .. Len(frames) - 1 : stack[i] = frames[i]
  /\ Len(stack) = Len(frames) => /\ stack[Len(frames)].rest # << >>
                                 /\ Increasing(stack[Len(frames)].rest)
                                 /\ Left(stack[Len(frames)]) = Tail(Top.rest)
  /\ Len(stack) = Len(frames) - 1 => Serials(Tail(Top.rest)) = {}

LEMMA AppendedFrame ==
  ASSUME QueueInv, frames # << >>, NEW f \in Frame, f.rest # << >>, Increasing(f.rest),
         Left(f) = Tail(Top.rest)
  PROVE  Moved(Append(Outer, f))
<1> DEFINE n == Len(frames)
           stack == Append(Outer, f)
<1>1. /\ n \in Nat \ {0} /\ Outer \in Seq(Frame) /\ Len(Outer) = n - 1
      /\ \A i \in 1 .. n - 1 : Outer[i] = frames[i]
  BY TopFrame
<1>2. stack \in Seq(Frame) /\ Len(stack) = n /\ stack[n] = f BY <1>1
<1>3. \A i \in 1 .. n - 1 : stack[i] = frames[i] BY <1>1
<1> HIDE DEF n, stack
<1> QED BY <1>1, <1>2, <1>3 DEF Moved, n, stack

LEMMA PoppedMoves == ASSUME QueueInv, frames # << >> PROVE Moved(Popped)
<1>1. CASE Len(Top.rest) = 1
  <2>1. Len(Tail(Top.rest)) = 0 /\ DOMAIN Tail(Top.rest) = {}
    <3>1. Top.rest \in Seq(Mutation) /\ Top.rest # << >> BY TopFrame
    <3>2. Tail(Top.rest) \in Seq(Mutation) /\ Len(Tail(Top.rest)) = Len(Top.rest) - 1
      BY <3>1, HeadTailProperties
    <3>3. DOMAIN Tail(Top.rest) = 1 .. Len(Tail(Top.rest)) BY <3>2
    <3>4. Len(Tail(Top.rest)) = 0 BY <1>1, <3>2
    <3>5. 1 .. 0 = {} OBVIOUS
    <3> QED BY <3>3, <3>4, <3>5, Zenon
  <2>2. Serials(Tail(Top.rest)) = {} BY <2>1 DEF Serials
  <2>3. Len(Outer) # Len(frames) BY TopFrame
  <2> QED BY <1>1, <2>2, <2>3, TopFrame DEF Popped, Moved
<1>2. CASE Len(Top.rest) # 1
  <2> DEFINE f == [stage |-> "operation", rest |-> Tail(Top.rest)]
  <2>1. Tail(Top.rest) # << >> /\ Tail(Top.rest) \in Seq(Mutation)
    <3>1. Top.rest \in Seq(Mutation) /\ Top.rest # << >> BY TopFrame
    <3>2. Tail(Top.rest) \in Seq(Mutation) /\ Len(Tail(Top.rest)) # 0
      BY <1>2, <3>1, HeadTailProperties
    <3>3. Len(<< >>) = 0 OBVIOUS
    <3> HIDE DEF f
    <3> QED BY <3>2, <3>3, Zenon
  <2>2. Increasing(Tail(Top.rest)) BY TopFrame, SerialsOfTail
  <2>3. f \in Frame /\ f.rest # << >> /\ Increasing(f.rest) /\ Left(f) = Tail(Top.rest)
    BY <2>1, <2>2 DEF Frame, Left
  <2>4. Moved(Append(Outer, f)) BY <2>3, AppendedFrame
  <2> QED BY <1>2, <2>4 DEF Popped
<1> QED BY <1>1, <1>2

LEMMA FollowingMoves ==
  ASSUME QueueInv, frames # << >>
  PROVE  Moved(Append(Outer, [Top EXCEPT !.stage = "afterCommit"]))
<1> DEFINE f == [Top EXCEPT !.stage = "afterCommit"]
<1>1. f \in Frame /\ f.rest = Top.rest /\ f.stage = "afterCommit" BY TopFrame DEF Frame
<1>2. Left(f) = Tail(Top.rest) BY <1>1 DEF Left
<1> HIDE DEF f
<1>3. Moved(Append(Outer, f)) BY <1>1, <1>2, TopFrame, AppendedFrame
<1> QED BY <1>3 DEF f

\* What is in flight before and after such a step.
LEMMA MovedFlight ==
  ASSUME QueueInv, frames # << >>, Moved(frames')
  PROVE  /\ DOMAIN frames' = 1 .. Len(frames')
         /\ \A i \in 1 .. Len(frames) - 1 : InFlush(i)' = InFlush(i)
         /\ Len(frames') = Len(frames) => InFlush(Len(frames))' = Serials(Tail(Top.rest))
         /\ InFlush(Len(frames)) = IF Top.stage = "operation" THEN Serials(Top.rest)
                                                              ELSE Serials(Tail(Top.rest))
         /\ Flying = InFlush(Len(frames)) \cup UNION {InFlush(i) : i \in 1 .. Len(frames) - 1}
         /\ Flying' = Serials(Tail(Top.rest)) \cup UNION {InFlush(i) : i \in 1 .. Len(frames) - 1}
<1> DEFINE n == Len(frames)
           n1 == Len(frames')
<1>1. n \in Nat \ {0} /\ DOMAIN frames = 1 .. n BY TopFrame
<1>2. n1 \in {n - 1, n} /\ DOMAIN frames' = 1 .. n1 BY DEF Moved
<1>3. ASSUME NEW i \in 1 .. n - 1 PROVE InFlush(i)' = InFlush(i) BY <1>3 DEF Moved, InFlush
<1>4. n1 = n => InFlush(n)' = Serials(Tail(Top.rest)) BY DEF Moved, InFlush
<1>5. InFlush(n) = IF Top.stage = "operation" THEN Serials(Top.rest) ELSE Serials(Tail(Top.rest))
  BY DEF InFlush, Left, Top
<1>6. Flying = InFlush(n) \cup UNION {InFlush(i) : i \in 1 .. n - 1}
  <2>1. 1 .. n = {n} \cup 1 .. n - 1 BY <1>1
  <2> HIDE DEF n
  <2> QED BY <1>1, <2>1 DEF Flying
<1>7. Flying' = Serials(Tail(Top.rest)) \cup UNION {InFlush(i) : i \in 1 .. n - 1}
  <2>1. CASE n1 = n
    <3>1. 1 .. n1 = {n} \cup 1 .. n - 1 BY <1>1, <2>1
    <3>2. Flying' = UNION {InFlush(i)' : i \in 1 .. n1} BY <1>2 DEF Flying
    <3>3. InFlush(n)' = Serials(Tail(Top.rest)) BY <1>4, <2>1
    <3>4. {InFlush(i)' : i \in 1 .. n - 1} = {InFlush(i) : i \in 1 .. n - 1} BY <1>3
    <3>5. Flying' = InFlush(n)' \cup UNION {InFlush(i)' : i \in 1 .. n - 1}
      <4> DEFINE fly(i) == InFlush(i)'
      <4>1. Flying' = UNION {fly(i) : i \in {n} \cup 1 .. n - 1} BY <2>1, <3>1, <3>2
      <4> HIDE DEF n, n1, fly
      <4>2. UNION {fly(i) : i \in {n} \cup 1 .. n - 1} = fly(n) \cup UNION {fly(i) : i \in 1 .. n - 1}
        OBVIOUS
      <4> QED BY <4>1, <4>2 DEF fly
    <3> QED BY <3>3, <3>4, <3>5
  <2>2. CASE n1 = n - 1
    <3>1. Serials(Tail(Top.rest)) = {} BY <2>2 DEF Moved
    <3>2. Flying' = UNION {InFlush(i)' : i \in 1 .. n - 1} BY <1>2, <2>2 DEF Flying
    <3> HIDE DEF n, n1
    <3> QED BY <1>3, <3>1, <3>2
  <2> QED BY <1>2, <2>1, <2>2
<1> QED BY <1>2, <1>3, <1>4, <1>5, <1>6, <1>7

-----------------------------------------------------------------------------
(* The queue: one lemma for each of its operations *)

LEMMA QueueStarts == QueueInit => QueueInv
  BY QueueAssumption
  DEF QueueInit, QueueInv, QueueType, EachIncreasing, Increasing, NoMutationIsLost, EachAppliedOnce,
      LaterOnesWait, Waiting, Flying, Done, Serials

\* Nothing that waits or is in flight has a number yet to be given.
LEMMA OnlyIssued ==
  ASSUME QueueInv
  PROVE  /\ 1 .. issued = Waiting \cup Flying \cup Done \cup dropped
         /\ Waiting \subseteq 1 .. issued /\ Flying \subseteq 1 .. issued /\ Done \subseteq 1 .. issued
<1>1. 1 .. issued = Waiting \cup Flying \cup Done \cup dropped BY DEF QueueInv, NoMutationIsLost
<1> QED BY <1>1

LEMMA EnqueueKeeps == ASSUME QueueInv, NEW w \in Work, Enqueue(w) PROVE QueueInv'
<1> DEFINE n == Len(queue)
           m == [serial |-> issued + 1, work |-> w]
<1>1. /\ queue \in Seq(Mutation) /\ n \in Nat /\ DOMAIN queue = 1 .. n
      /\ issued \in Nat /\ issued < MaxEnqueued /\ MaxEnqueued \in Nat
  BY QueueAssumption DEF QueueInv, QueueType, Enqueue
<1>2. m \in Mutation BY <1>1 DEF Mutation
<1>3. /\ queue' = Append(queue, m) /\ queue' \in Seq(Mutation) /\ DOMAIN queue' = 1 .. n + 1
      /\ queue'[n + 1] = m /\ \A i \in 1 .. n : queue'[i] = queue[i]
  <2>1. queue' = Append(queue, m) BY DEF Enqueue
  <2> HIDE DEF m
  <2> QED BY <1>1, <1>2, <2>1
<1>4. issued' = issued + 1 /\ UNCHANGED << frames, applied, dropped >> BY DEF Enqueue
<1>5. m.serial = issued + 1 OBVIOUS
<1> HIDE DEF m
<1>6. Waiting' = Waiting \cup {issued + 1}
  <2>1. 1 .. n + 1 = 1 .. n \cup {n + 1} BY <1>1
  <2>2. Waiting' = {queue'[i].serial : i \in 1 .. n + 1} BY <1>3 DEF Waiting, Serials
  <2>3. Waiting = {queue'[i].serial : i \in 1 .. n} BY <1>1, <1>3 DEF Waiting, Serials
  <2> HIDE DEF n
  <2> QED BY <1>3, <1>5, <2>1, <2>2, <2>3
<1>7. \A i : InFlush(i)' = InFlush(i) BY <1>4 DEF InFlush
<1>8. Done' = Done /\ DOMAIN frames' = DOMAIN frames BY <1>4 DEF Done
<1>9. QueueType' BY <1>1, <1>3, <1>4 DEF QueueInv, QueueType
<1>10. EachIncreasing'
  <2>1. \A i \in 1 .. n : queue[i].serial \in 1 .. issued BY <1>1, OnlyIssued DEF Waiting, Serials
  <2>2. Increasing(queue) BY DEF QueueInv, EachIncreasing
  <2>3. Increasing(queue')
    <3> SUFFICES ASSUME NEW i \in 1 .. n + 1, NEW j \in 1 .. n + 1, i < j
                 PROVE  queue'[i].serial < queue'[j].serial
      BY <1>3 DEF Increasing
    <3>1. i \in 1 .. n BY <1>1
    <3>2. CASE j = n + 1 BY <1>1, <1>3, <1>5, <2>1, <3>1, <3>2
    <3>3. CASE j \in 1 .. n BY <1>1, <1>3, <2>2, <3>1, <3>3 DEF Increasing
    <3> QED BY <1>1, <3>2, <3>3
  <2> QED BY <1>4, <2>3 DEF QueueInv, EachIncreasing
<1>11. Flying' = Flying BY <1>7, <1>8 DEF Flying
<1>12. NoMutationIsLost'
  <2>1. 1 .. issued' = 1 .. issued \cup {issued + 1} BY <1>1, <1>4
  <2> QED BY <1>4, <1>6, <1>8, <1>11, <2>1 DEF QueueInv, NoMutationIsLost
<1>13. EachAppliedOnce'
  <2>1. Done \subseteq 1 .. issued BY OnlyIssued
  <2>2. issued + 1 \notin Done BY <1>1, <2>1
  <2> QED BY <1>4, <1>6, <1>8, <1>11, <2>2 DEF QueueInv, EachAppliedOnce
<1>14. LaterOnesWait'
  <2>1. \A i \in DOMAIN frames : \A s \in InFlush(i) : s \in 1 .. issued BY OnlyIssued DEF Flying
  <2> QED BY <1>1, <1>6, <1>7, <1>8, <2>1 DEF QueueInv, LaterOnesWait
<1> QED BY <1>9, <1>10, <1>12, <1>13, <1>14 DEF QueueInv

LEMMA FlushKeeps == ASSUME QueueInv, Flush PROVE QueueInv'
<1> DEFINE n == Len(frames)
           f == [stage |-> "operation", rest |-> queue]
<1>1. frames \in Seq(Frame) /\ queue \in Seq(Mutation) /\ n \in Nat /\ DOMAIN frames = 1 .. n
  BY DEF QueueInv, QueueType
<1>2. f \in Frame /\ f.rest = queue /\ Left(f) = queue /\ queue # << >>
  BY <1>1 DEF Frame, Left, Flush
<1>3. frames' = Append(frames, f) /\ queue' = << >> /\ UNCHANGED << issued, applied, dropped >>
  BY DEF Flush
<1> HIDE DEF f
<1>4. /\ frames' \in Seq(Frame) /\ DOMAIN frames' = 1 .. n + 1 /\ frames'[n + 1] = f
      /\ \A i \in 1 .. n : frames'[i] = frames[i]
  BY <1>1, <1>2, <1>3
<1>5. /\ \A i \in {n + 1} : InFlush(i)' = Waiting
      /\ \A i \in 1 .. n : InFlush(i)' = InFlush(i)
  BY <1>2, <1>4 DEF InFlush, Waiting
<1>6. Waiting' = {} BY <1>3 DEF Waiting, Serials
<1>7. Done' = Done BY <1>3 DEF Done
<1>8. 1 .. n + 1 = 1 .. n \cup {n + 1} BY <1>1
<1>9. Flying' = Flying \cup Waiting
  <2>1. Flying' = UNION {InFlush(i)' : i \in 1 .. n \cup {n + 1}} BY <1>4, <1>8 DEF Flying
  <2>2. Flying = UNION {InFlush(i)' : i \in 1 .. n}
    <3>1. {InFlush(i) : i \in 1 .. n} = {InFlush(i)' : i \in 1 .. n} BY <1>5
    <3> QED BY <1>1, <3>1 DEF Flying
  <2>3. {InFlush(i)' : i \in {n + 1}} = {Waiting} BY <1>5
  <2>4. {InFlush(i)' : i \in 1 .. n \cup {n + 1}}
          = {InFlush(i)' : i \in 1 .. n} \cup {InFlush(i)' : i \in {n + 1}}
    OBVIOUS
  <2>5. Flying' = UNION ({InFlush(i)' : i \in 1 .. n} \cup {Waiting}) BY <2>1, <2>3, <2>4
  <2> QED BY <2>2, <2>5
<1>10. QueueType' BY <1>1, <1>2, <1>3, <1>4, <1>8 DEF QueueInv, QueueType
<1>11. EachIncreasing'
  <2>1. Increasing(queue') BY <1>3 DEF Increasing
  <2> QED BY <1>1, <1>2, <1>4, <1>8, <2>1 DEF QueueInv, EachIncreasing
<1>12. NoMutationIsLost'
  <2>1. 1 .. issued' = Waiting' \cup Flying' \cup Done' \cup dropped'
    BY <1>3, <1>6, <1>7, <1>9, OnlyIssued
  <2> QED BY <2>1 DEF NoMutationIsLost
<1>13. EachAppliedOnce' BY <1>3, <1>6, <1>7, <1>9 DEF QueueInv, EachAppliedOnce
<1>14. LaterOnesWait'
  <2>1. ASSUME NEW i \in 1 .. n + 1, NEW j \in 1 .. n + 1, i < j,
               NEW s \in InFlush(i)', NEW u \in InFlush(j)'
        PROVE  s < u
    <3>1. i \in 1 .. n /\ s \in InFlush(i) BY <1>1, <1>5, <2>1
    <3>2. CASE j = n + 1
      <4>1. u \in Waiting BY <1>5, <3>2
      <4> QED BY <1>1, <3>1, <4>1 DEF QueueInv, LaterOnesWait
    <3>3. CASE j \in 1 .. n
      <4>1. u \in InFlush(j) BY <1>5, <3>3
      <4> QED BY <1>1, <2>1, <3>1, <3>3, <4>1 DEF QueueInv, LaterOnesWait
    <3> QED BY <1>8, <3>2, <3>3
  <2> QED BY <1>4, <1>6, <2>1 DEF LaterOnesWait
<1> QED BY <1>10, <1>11, <1>12, <1>13, <1>14 DEF QueueInv

LEMMA ClearKeeps == ASSUME QueueInv, Clear PROVE QueueInv'
<1>1. /\ queue' = << >> /\ dropped' = dropped \cup Waiting /\ UNCHANGED << frames, issued, applied >>
      /\ queue \in Seq(Mutation)
  BY DEF Clear, Waiting, QueueInv, QueueType
<1>2. Waiting' = {} BY <1>1 DEF Waiting, Serials
<1>3. Done' = Done /\ DOMAIN frames' = DOMAIN frames /\ \A i : InFlush(i)' = InFlush(i)
  BY <1>1 DEF Done, InFlush
<1>4. QueueType'
  <2>1. dropped' \subseteq 1 .. MaxEnqueued
    BY <1>1, SerialsAreNumbers DEF Waiting, QueueInv, QueueType
  <2> QED BY <1>1, <2>1 DEF QueueInv, QueueType
<1>5. EachIncreasing' BY <1>1 DEF QueueInv, EachIncreasing, Increasing
<1>6. Flying' = Flying BY <1>3 DEF Flying
<1>7. NoMutationIsLost'
  <2>1. 1 .. issued' = Waiting' \cup Flying' \cup Done' \cup dropped'
    BY <1>1, <1>2, <1>3, <1>6, OnlyIssued
  <2> QED BY <2>1 DEF NoMutationIsLost
<1>8. EachAppliedOnce' BY <1>1, <1>2, <1>3, <1>6 DEF QueueInv, EachAppliedOnce
<1>9. LaterOnesWait' BY <1>2, <1>3 DEF QueueInv, LaterOnesWait
<1> QED BY <1>4, <1>5, <1>7, <1>8, <1>9 DEF QueueInv

LEMMA ThrowKeeps == ASSUME QueueInv, Throw PROVE QueueInv'
<1>1. frames' = << >> /\ UNCHANGED << queue, issued, applied >> BY DEF Throw
<1>2. dropped' = dropped \cup Flying BY DEF Throw, Flying, InFlush
<1>3. DOMAIN frames' = {} BY <1>1
<1>4. Flying' = {} BY <1>3 DEF Flying
<1>5. Waiting' = Waiting /\ Done' = Done BY <1>1 DEF Waiting, Done
<1>6. QueueType'
  <2>1. dropped' \subseteq 1 .. MaxEnqueued
    <3>1. issued \in Nat /\ issued <= MaxEnqueued /\ MaxEnqueued \in Nat
      BY QueueAssumption DEF QueueInv, QueueType
    <3>2. Flying \subseteq 1 .. MaxEnqueued BY <3>1, OnlyIssued
    <3> QED BY <1>2, <3>2 DEF QueueInv, QueueType
  <2>2. frames' \in Seq(Frame) BY <1>1
  <2> QED BY <1>1, <1>3, <2>1, <2>2 DEF QueueInv, QueueType
<1>7. EachIncreasing' BY <1>1, <1>3 DEF QueueInv, EachIncreasing, Increasing
<1>8. NoMutationIsLost' BY <1>1, <1>2, <1>4, <1>5 DEF QueueInv, NoMutationIsLost
<1>9. EachAppliedOnce' BY <1>1, <1>4, <1>5 DEF QueueInv, EachAppliedOnce
<1>10. LaterOnesWait' BY <1>3 DEF LaterOnesWait
<1> QED BY <1>6, <1>7, <1>8, <1>9, <1>10 DEF QueueInv

\* What the two halves of a mutation have in common.
LEMMA MovedKeeps ==
  ASSUME QueueInv, frames # << >>, Moved(frames'), queue' = queue
  PROVE  /\ EachIncreasing' /\ LaterOnesWait'
         /\ \A i \in DOMAIN frames' : frames'[i].rest # << >>
<1> DEFINE n == Len(frames)
<1>1. n \in Nat \ {0} /\ DOMAIN frames = 1 .. n BY TopFrame
<1>2. DOMAIN frames' = 1 .. n - 1 \/ (Len(frames') = n /\ DOMAIN frames' = 1 .. n)
  BY MovedFlight DEF Moved
<1>3. ASSUME NEW i \in DOMAIN frames'
      PROVE  frames'[i].rest # << >> /\ Increasing(frames'[i].rest)
  <2>1. CASE i \in 1 .. n - 1
    <3>1. frames'[i] = frames[i] BY <2>1 DEF Moved
    <3>2. i \in DOMAIN frames BY <1>1, <2>1
    <3>3. frames[i].rest # << >> /\ Increasing(frames[i].rest)
      BY <3>2 DEF QueueInv, QueueType, EachIncreasing
    <3> QED BY <3>1, <3>3
  <2>2. CASE i = n /\ Len(frames') = n BY <2>2 DEF Moved
  <2> QED BY <1>1, <1>2, <2>1, <2>2
<1>4. EachIncreasing' BY <1>3 DEF QueueInv, EachIncreasing
<1>5. ASSUME NEW i \in DOMAIN frames' PROVE i \in DOMAIN frames /\ InFlush(i)' \subseteq InFlush(i)
  <2>1. CASE i \in 1 .. n - 1
    <3>1. InFlush(i)' = InFlush(i) BY <2>1 DEF Moved, InFlush
    <3> QED BY <1>1, <2>1, <3>1
  <2>2. CASE i = n /\ Len(frames') = n
    <3>1. InFlush(i)' = Serials(Tail(Top.rest)) BY <2>2 DEF Moved, InFlush
    <3>2. Serials(Tail(Top.rest)) \subseteq InFlush(n)
      <4>1. Serials(Tail(Top.rest)) \subseteq Serials(Top.rest) BY TopFrame, SerialsOfTail
      <4>2. InFlush(n) = Serials(Top.rest) \/ InFlush(n) = Serials(Tail(Top.rest)) BY MovedFlight
      <4> HIDE DEF n
      <4> QED BY <4>1, <4>2
    <3> QED BY <1>1, <2>2, <3>1, <3>2
  <2> QED BY <1>1, <1>2, <2>1, <2>2
<1>6. Waiting' = Waiting BY DEF Waiting
<1>7. LaterOnesWait' BY <1>5, <1>6 DEF QueueInv, LaterOnesWait
<1> QED BY <1>3, <1>4, <1>7

\* The head of the innermost flush is older than what waits and than the rest of the
\* flush, and newer than what the outer flushes have left.
LEMMA HeadIsApart ==
  ASSUME QueueInv, frames # << >>, Moved(frames'), Top.stage = "operation"
  PROVE  /\ Current.serial \in 1 .. MaxEnqueued
         /\ Flying = {Current.serial} \cup Flying'
         /\ Current.serial \notin Flying' /\ Current.serial \notin Waiting /\ Current.serial \notin Done
<1> DEFINE n == Len(frames)
           h == Current.serial
           rest == Serials(Tail(Top.rest))
           outer == UNION {InFlush(i) : i \in 1 .. n - 1}
<1>1. n \in Nat \ {0} /\ DOMAIN frames = 1 .. n BY TopFrame
<1>2. /\ h \in 1 .. MaxEnqueued /\ Serials(Top.rest) = {h} \cup rest
      /\ \A m \in rest : h < m
  BY TopFrame, SerialsOfTail DEF Current, Mutation
<1>3. InFlush(n) = {h} \cup rest BY <1>2, MovedFlight
<1>4. Flying = InFlush(n) \cup outer /\ Flying' = rest \cup outer BY MovedFlight
<1>5. \A i \in 1 .. n - 1 : \A s \in InFlush(i) : s < h
  BY <1>1, <1>3 DEF QueueInv, LaterOnesWait
<1>6. h \notin Waiting BY <1>1, <1>2, <1>3 DEF QueueInv, LaterOnesWait
<1>7. h \notin Done BY <1>3, <1>4 DEF QueueInv, EachAppliedOnce
<1> HIDE DEF n, h, rest
<1>8. h \notin rest BY <1>2
<1>9. h \notin outer BY <1>2, <1>5
<1>10. Flying = {h} \cup Flying' /\ h \notin Flying' BY <1>3, <1>4, <1>8, <1>9
<1> QED BY <1>2, <1>6, <1>7, <1>10 DEF h

LEMMA CommitKeeps == ASSUME QueueInv, Commit PROVE QueueInv'
<1> DEFINE h == Current.serial
           k == Len(applied)
<1>1. /\ frames # << >> /\ Top.stage = "operation" /\ applied' = Append(applied, h)
      /\ UNCHANGED << queue, issued, dropped >>
  BY DEF Commit
<1>2. Moved(frames') BY <1>1, FollowingMoves, PoppedMoves DEF Commit
<1>3. /\ h \in 1 .. MaxEnqueued /\ Flying = {h} \cup Flying'
      /\ h \notin Flying' /\ h \notin Waiting /\ h \notin Done
  BY <1>1, <1>2, HeadIsApart
<1> HIDE DEF h
<1>4. applied \in Seq(1 .. MaxEnqueued) /\ k \in Nat /\ DOMAIN applied = 1 .. k
  BY DEF QueueInv, QueueType
<1>5. /\ applied' \in Seq(1 .. MaxEnqueued) /\ DOMAIN applied' = 1 .. k + 1
      /\ applied'[k + 1] = h /\ \A i \in 1 .. k : applied'[i] = applied[i]
  BY <1>1, <1>3, <1>4
<1>6. 1 .. k + 1 = 1 .. k \cup {k + 1} BY <1>4
<1>7. Done' = Done \cup {h}
  <2>1. Done' = {applied'[i] : i \in 1 .. k \cup {k + 1}} BY <1>5, <1>6 DEF Done
  <2>2. Done = {applied'[i] : i \in 1 .. k} BY <1>4, <1>5 DEF Done
  <2> HIDE DEF k
  <2> QED BY <1>5, <2>1, <2>2
<1>8. Waiting' = Waiting BY <1>1 DEF Waiting
<1>9. QueueType'
  <2>1. frames' \in Seq(Frame) BY <1>2 DEF Moved
  <2>2. \A i \in DOMAIN frames' : frames'[i].rest # << >> BY <1>1, <1>2, MovedKeeps
  <2> QED BY <1>1, <1>5, <2>1, <2>2 DEF QueueInv, QueueType
<1>10. EachIncreasing' /\ LaterOnesWait' BY <1>1, <1>2, MovedKeeps
<1>11. NoMutationIsLost' BY <1>1, <1>3, <1>7, <1>8 DEF QueueInv, NoMutationIsLost
<1>12. EachAppliedOnce'
  <2>1. ASSUME NEW i \in 1 .. k + 1, NEW j \in 1 .. k + 1, applied'[i] = applied'[j] PROVE i = j
    <3>1. \A m \in 1 .. k : applied[m] # h BY <1>3, <1>4 DEF Done
    <3>2. CASE i \in 1 .. k /\ j \in 1 .. k
      BY <1>4, <1>5, <2>1, <3>2 DEF QueueInv, EachAppliedOnce
    <3>3. CASE i = k + 1 \/ j = k + 1 BY <1>5, <1>6, <2>1, <3>1, <3>3
    <3> QED BY <1>6, <3>2, <3>3
  <2>2. Done' \cap (Waiting' \cup Flying') = {}
    BY <1>3, <1>7, <1>8 DEF QueueInv, EachAppliedOnce
  <2> QED BY <1>5, <2>1, <2>2 DEF EachAppliedOnce
<1> QED BY <1>9, <1>10, <1>11, <1>12 DEF QueueInv

LEMMA FollowKeeps == ASSUME QueueInv, Follow PROVE QueueInv'
<1>1. /\ frames # << >> /\ Top.stage = "afterCommit" /\ frames' = Popped
      /\ UNCHANGED << queue, issued, applied, dropped >>
  BY DEF Follow
<1>2. Moved(frames') BY <1>1, PoppedMoves
<1>3. Flying' = Flying BY <1>1, <1>2, MovedFlight
<1>4. Waiting' = Waiting /\ Done' = Done BY <1>1 DEF Waiting, Done
<1>5. QueueType'
  <2>1. frames' \in Seq(Frame) BY <1>2 DEF Moved
  <2>2. \A i \in DOMAIN frames' : frames'[i].rest # << >> BY <1>1, <1>2, MovedKeeps
  <2> QED BY <1>1, <2>1, <2>2 DEF QueueInv, QueueType
<1>6. EachIncreasing' /\ LaterOnesWait' BY <1>1, <1>2, MovedKeeps
<1>7. NoMutationIsLost' /\ EachAppliedOnce'
  BY <1>1, <1>3, <1>4 DEF QueueInv, NoMutationIsLost, EachAppliedOnce
<1> QED BY <1>5, <1>6, <1>7 DEF QueueInv

\* The queue keeps its invariant, whatever its mutations do to it while they are
\* flushed: numbers grow along every flush, from outer flushes to inner ones, and on
\* into the queue.
THEOREM QueueInvariant == Spec => []QueueInv
<1>1. Init => QueueInv BY QueueStarts DEF Init
<1>2. QueueInv /\ [Next]_vars => QueueInv'
  <2> SUFFICES ASSUME QueueInv, [QueueNext]_queueVars PROVE QueueInv'
    BY QueueSteps
  <2>1. CASE UNCHANGED queueVars
    <3>1. UNCHANGED << queue, frames, issued, applied, dropped >> BY <2>1 DEF queueVars
    <3>2. Waiting' = Waiting /\ Done' = Done /\ \A i : InFlush(i)' = InFlush(i)
      BY <3>1 DEF Waiting, Done, InFlush
    <3>3. DOMAIN frames' = DOMAIN frames BY <3>1
    <3>4. Flying' = Flying BY <3>2, <3>3 DEF Flying
    <3>5. QueueType' /\ EachIncreasing' BY <3>1 DEF QueueInv, QueueType, EachIncreasing
    <3>6. NoMutationIsLost' /\ EachAppliedOnce'
      BY <3>1, <3>2, <3>4 DEF QueueInv, NoMutationIsLost, EachAppliedOnce
    <3>7. LaterOnesWait' BY <3>2, <3>3 DEF QueueInv, LaterOnesWait
    <3> QED BY <3>5, <3>6, <3>7 DEF QueueInv
  <2> QED BY <2>1, EnqueueKeeps, FlushKeeps, ClearKeeps, CommitKeeps, FollowKeeps, ThrowKeeps
          DEF QueueNext
<1> QED BY <1>1, <1>2, PTL DEF Spec

\* MutationQueue::flush: NoMutationIsLost, for every client and however deep it flushes.
THEOREM NothingIsLostTheorem == Spec => []NoMutationIsLost
  BY QueueInvariant, PTL DEF QueueInv

\* EachAppliedOnce, although a mutation may flush the queue that it is run from.
THEOREM OnceTheorem == Spec => []EachAppliedOnce
  BY QueueInvariant, PTL DEF QueueInv

\* LaterOnesWait: what is enqueued during a flush is not applied by that flush.
THEOREM LaterTheorem == Spec => []LaterOnesWait
  BY QueueInvariant, PTL DEF QueueInv

\* TypeOK: every id and every number stays within its width, the invalid id unused.
THEOREM DeferredTypes == Spec => []TypeOK
<1>1. WorldInv /\ QueueInv => TypeOK
  BY DEF WorldInv, WorldType, QueueInv, QueueType, TypeOK
<1> QED BY <1>1, WorldInvariant, QueueInvariant, PTL

=============================================================================
