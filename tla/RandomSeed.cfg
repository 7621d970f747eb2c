SPECIFICATION Spec
CONSTANTS
  UintSize = 16
  LongSize = 256
  DefaultTicks = 5
  ConfigLines <- MCLines
  Archetypes <- MCArchetypes
  CoreHandlers = {"core.any"}
  BattleHandlers = {"battle.damage", "battle.move"}
  ClassicRecipes <- MCRecipes
  MaxLines = 4
  MaxRecords = 2
INVARIANTS
  RandomIsRandom
