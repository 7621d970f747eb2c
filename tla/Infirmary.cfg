SPECIFICATION Spec
CONSTANTS
  Width = 3
  Height = 2
  Id = {1, 2, 3}
  Kinds <- HealKinds
  Recipes <- HealRecipes
  None = None
  SpawnCommands <- HealSpawns
  MarchCommands <- HealMarches
  MaxTicks = 3
  MaxInt = 7
INVARIANTS
  NoCorpseBetweenTicks
