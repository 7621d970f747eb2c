SPECIFICATION TraceSpec
CONSTANTS
  Width = 4
  Height = 2
  Id = {1, 2, 3, 4}
  Kinds <- MineKinds
  Recipes <- MineRecipes
  None = None
  SpawnCommands <- MineSpawns
  MarchCommands <- MineMarches
  MaxTicks = 4
  MaxInt = 7
INVARIANTS
  LivingAreShown
  ViewIsAccurate
  DeathsAreReported
