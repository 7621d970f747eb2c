---------------------------- MODULE DeferredWork ----------------------------
(***************************************************************************)
(* Mutations of a world, deferred in the queue of an ActionContext.        *)
(*                                                                         *)
(* A client creates and removes entities, and enqueues what it wants done  *)
(* to them later: a blow or a removal, which throw when the target is dead *)
(* or gone by then, as makeDamageEntityMutation and                        *)
(* makeRemoveBattleEntityMutation do, or a script, which is client code    *)
(* itself and may flush the very queue it is run from.                     *)
(***************************************************************************)
EXTENDS EcsWorld, MutationQueue

vars == << worldVars, queueVars >>

Blow(id) == [op |-> "blow", target |-> id]
Removal(id) == [op |-> "removal", target |-> id]
Script == [op |-> "script", target |-> InvalidEntityId]

ASSUME WorkAssumption ==
  Work \subseteq {Blow(id) : id \in EntityId} \cup {Removal(id) : id \in EntityId} \cup {Script}

Init == WorldInit /\ QueueInit

\* Code of a client runs: outside of every flush, or in a script.
ClientRuns == frames # << >> => Current.work = Script

\* BattleSpawnSystem adds components to what createEntity has just accepted.
Spawned(id) == /\ stores' = With(Kinds, id)
               /\ UNCHANGED queueVars
SpawnNamed(id) == ClientRuns /\ CreateNamed(id) /\ Spawned(id)
SpawnNext(id) == ClientRuns /\ CreateNext(id) /\ Spawned(id)
RemoveNow(id) == ClientRuns /\ RemoveEntity(id) /\ UNCHANGED queueVars

\* What is enqueued names an entity that exists when it is.
EnqueueWork(w) ==
  /\ ClientRuns /\ (w # Script => w.target \in active)
  /\ Enqueue(w)
  /\ UNCHANGED worldVars
FlushQueue == ClientRuns /\ Flush /\ UNCHANGED worldVars
ClearQueue == ClientRuns /\ Clear /\ UNCHANGED worldVars

\* The operation at the head of the innermost flush is a mutation of src.
Applies(op) == frames # << >> /\ Top.stage = "operation" /\ Current.work.op = op

\* Only the living are hurt; a blow takes the marker of what it kills.
ApplyBlow ==
  /\ Applies("blow") /\ Current.work.target \in active \cap stores["alive"]
  /\ \E kinds \in {{}, {"alive"}} : stores' = Without(kinds, Current.work.target)
  /\ UNCHANGED << nextId, creationOrder, entityOrder, active >>
  /\ Commit

ApplyRemoval == Applies("removal") /\ RemoveEntity(Current.work.target) /\ Commit

\* makeDamageEntityMutation also throws when the source is gone, whoever that is.
OperationThrows ==
  /\ Applies("blow") \/ (Applies("removal") /\ Current.work.target \notin active)
  /\ Throw /\ UNCHANGED worldVars

ScriptCommits == Applies("script") /\ Commit /\ UNCHANGED worldVars
ScriptThrows == frames # << >> /\ Current.work = Script /\ Throw /\ UNCHANGED worldVars
ScriptEnds == Follow /\ UNCHANGED worldVars

\* A client with no call in progress need not make another.
ClientRests == frames = << >> /\ UNCHANGED vars

Next ==
  \/ \E id \in EntityId : SpawnNamed(id) \/ SpawnNext(id) \/ RemoveNow(id)
  \/ \E w \in Work : EnqueueWork(w)
  \/ FlushQueue \/ ClearQueue
  \/ ApplyBlow \/ ApplyRemoval \/ OperationThrows
  \/ ScriptCommits \/ ScriptThrows \/ ScriptEnds
  \/ ClientRests

Spec == Init /\ [][Next]_vars

-----------------------------------------------------------------------------
\* Types; in particular the invalid id 0 is never given to anybody, not even by a
\* counter that has wrapped, and the counter stays within its width.
TypeOK ==
  /\ nextId \in EntityId
  /\ creationOrder \in Seq(EntityId \ {InvalidEntityId})
  /\ active \subseteq Used /\ Used \subseteq EntityId \ {InvalidEntityId}
  /\ entityOrder \in [Used -> Nat]
  /\ stores \in [Kinds -> SUBSET EntityId]
  /\ queue \in Seq(Mutation) /\ frames \in Seq(Frame)
  /\ issued \in 0 .. MaxEnqueued
  /\ applied \in Seq(1 .. MaxEnqueued) /\ dropped \subseteq 1 .. MaxEnqueued

\* The place createEntity notes for an id is where the id stands in the creation
\* order, whatever was removed in between: the turn order and the component that
\* copies it agree.
OrderIsCreation ==
  /\ \A i \in DOMAIN creationOrder :
       creationOrder[i] \in Used /\ entityOrder[creationOrder[i]] = i - 1
  /\ \A id \in Used : entityOrder[id] + 1 \in DOMAIN creationOrder
                      /\ creationOrder[entityOrder[id] + 1] = id

\* An id that was removed never comes back, named, drawn or after the counter has
\* wrapped: a mutation enqueued for an entity cannot reach another one.
IdsAreNeverReused == [][\A id \in Used \ active : id \notin active']_vars

\* Nobody has a component who does not exist, however late the mutation that
\* removed or wounded them was applied.
ComponentsAreOwned == \A k \in Kinds : stores[k] \subseteq active

\* Everything enqueued is in exactly one place: waiting, being flushed, applied
\* once, or given up by a throw or by clear.  In particular what a mutation
\* enqueues while the queue is flushed is still there afterwards.
Waiting == Serials(queue)
InFlush(i) == Serials(Left(frames[i]))
Flying == UNION {InFlush(i) : i \in DOMAIN frames}
Done == {applied[i] : i \in DOMAIN applied}
NoMutationIsLost ==
  1 .. issued = Waiting \cup Flying \cup Done \cup dropped

EachAppliedOnce ==
  /\ \A i, j \in DOMAIN applied : applied[i] = applied[j] => i = j
  /\ Done \cap (Waiting \cup Flying) = {}

\* A flush applies what was enqueued before it began and nothing else: an outer
\* flush's mutations are older than those of a flush within it, and what waits in
\* the queue is newer than all of them.
LaterOnesWait ==
  /\ \A i \in DOMAIN frames : \A s \in InFlush(i), t \in Waiting : s < t
  /\ \A i, j \in DOMAIN frames : i < j => \A s \in InFlush(i), t \in InFlush(j) : s < t

=============================================================================
