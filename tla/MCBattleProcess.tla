--------------------------- MODULE MCBattleProcess ---------------------------
EXTENDS ProcessProperties

\* An int of four bits: 7 is its largest, 15 is -1, 18 is 2, 256 does not parse.
MCLines ==
  { Feature("battle.basic", TRUE, "absent"), Feature("battle.basic", FALSE, "absent"),
    Feature("units.classic", TRUE, "absent"), Feature("io.legacy", TRUE, "boolean"),
    Feature("io.legacy", FALSE, "absent"), Feature("io.legacy", TRUE, "other"), Feature("other", FALSE, "absent"),
    SeedLine(18), RandomSeedLine, TicksLine(-1), TicksLine(2), TicksLine(15), TicksLine(18), TicksLine(256),
    FileLine("good"), FileLine("unknown handler"), FileLine("missing"), InvalidLine }

MCArchetypes ==
  [f \in {"good", "unknown handler"} |->
     [valid |-> TRUE, id |-> IF f = "good" THEN "Swordsman" ELSE "Duelist",
      handlers |-> IF f = "good" THEN {"core.any", "battle.move"} ELSE {"core.any", "battle.hurt"}]]

MCRecipes == [id \in {"Swordsman"} |-> {"core.any", "battle.damage"}]
=============================================================================
