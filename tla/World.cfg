SPECIFICATION Spec
CONSTANTS
  MaxId = 3
  Kinds = {"alive", "health"}
  Work <- MCWork
  AfterCommits <- MCAfterCommits
  MaxEnqueued = 4
  MaxDepth = 2
INVARIANTS
  TypeOK
  OrderIsCreation
  ComponentsAreOwned
  NoMutationIsLost
  EachAppliedOnce
  LaterOnesWait
PROPERTIES
  IdsAreNeverReused
