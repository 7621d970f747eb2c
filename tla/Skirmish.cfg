SPECIFICATION Spec
CONSTANTS
  Width = 3
  Height = 2
  Id = {1, 2, 3}
  Kinds <- SkirmishKinds
  Recipes <- SkirmishRecipes
  None = None
  SpawnCommands <- SkirmishSpawns
  MarchCommands <- SkirmishMarches
  MaxTicks = 3
  MaxInt = 7
INVARIANTS
  TypeOK
  OccupancyAgrees
  StoppedMeansStuck
PROPERTIES
  FlightGetsCloser
  FightsBeforeMarching
