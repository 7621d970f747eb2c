------------------------------ MODULE EcsWorld ------------------------------
(***************************************************************************)
(* World and ComponentStorage: the life of an entity id.                   *)
(*                                                                         *)
(* An id is used from its creation on and for ever; it is active until the *)
(* entity is removed, which takes its components out of every store.       *)
(* createEntity() draws from a counter of the width of EntityId, which     *)
(* wraps and skips what is used.                                           *)
(***************************************************************************)
EXTENDS Naturals, Sequences, FiniteSets

CONSTANTS
  MaxId,      \* the largest EntityId: 2^32 - 1 in the program
  Kinds       \* the component stores

ASSUME WidthAssumption == MaxId \in Nat \ {0} /\ "alive" \in Kinds

EntityId == 0 .. MaxId
InvalidEntityId == 0

VARIABLES
  nextId,         \* _nextId
  creationOrder,  \* _creationOrder
  entityOrder,    \* _entityOrder: used id -> its place in _creationOrder
  active,         \* _activeEntities
  stores          \* kind -> the ids that have the component

worldVars == << nextId, creationOrder, entityOrder, active, stores >>

WorldInit ==
  /\ nextId = 1 /\ creationOrder = << >> /\ entityOrder = << >>
  /\ active = {} /\ stores = [k \in Kinds |-> {}]

Used == DOMAIN entityOrder

Succ(id) == (id + 1) % (MaxId + 1)

\* A definition named Slip... is the next one with a slip the code could have; no
\* other definition uses it.
SlipFreeUnlessActive(id) == id # InvalidEntityId /\ id \notin active
SlipFreeUnlessUsed(id) == id \notin Used
Free(id) == id # InvalidEntityId /\ id \notin Used

SlipOrdered(id) == [e \in Used \cup {id} |-> IF e = id THEN Cardinality(active) ELSE entityOrder[e]]
Ordered(id) == [e \in Used \cup {id} |-> IF e = id THEN Len(creationOrder) ELSE entityOrder[e]]

\* The insertions of createEntity(id); false, and no step, unless the id is free.
Enter(id) ==
  /\ Free(id)
  /\ entityOrder' = Ordered(id)
  /\ active' = active \cup {id}
  /\ creationOrder' = Append(creationOrder, id)

CreateNamed(id) == Enter(id) /\ nextId' = IF id >= nextId THEN Succ(id) ELSE nextId

\* How far the counter runs from one id to another, and the first free id it meets.
Steps(from, to) == (to + MaxId + 1 - from) % (MaxId + 1)
FirstFree(id) ==
  /\ Free(id)
  /\ \A e \in EntityId : Free(e) => Steps(nextId, id) <= Steps(nextId, e)

\* With every id used the code would search for ever: 2^32 entities.
CreateNext(id) == FirstFree(id) /\ Enter(id) /\ nextId' = Succ(id)

SlipErasedIdle(id) == [k \in Kinds |-> IF k = "alive" THEN stores[k] \ {id} ELSE stores[k]]
Erased(id) == [k \in Kinds |-> stores[k] \ {id}]

RemoveEntity(id) ==
  /\ id \in active
  /\ active' = active \ {id}
  /\ stores' = Erased(id)
  /\ UNCHANGED << nextId, creationOrder, entityOrder >>

With(kinds, id) == [k \in Kinds |-> IF k \in kinds THEN stores[k] \cup {id} ELSE stores[k]]
Without(kinds, id) == [k \in Kinds |-> IF k \in kinds THEN stores[k] \ {id} ELSE stores[k]]

=============================================================================
