SPECIFICATION Spec
CONSTANTS
  Width = 3
  Height = 2
  Id = {1, 2, 3}
  Kinds <- WorkKinds
  Recipes <- WorkRecipes
  None = None
  SpawnCommands <- WorkSpawns
  MarchCommands <- WorkMarches
  MaxTicks = 2
  MaxInt = 7
INVARIANTS
  MarchIsPending
PROPERTIES
  NothingGoesInCircles
  Finishes
