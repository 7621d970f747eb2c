------------------------------ MODULE MCBattle ------------------------------
(***************************************************************************)
(* Scenarios for TLC.  A cfg picks one by binding Recipes, SpawnCommands   *)
(* and MarchCommands to the definitions of its section.                    *)
(***************************************************************************)
EXTENDS BattleProperties, BattleRefinement, TLC

At(col, row) == [x |-> col, y |-> row]
SpawnAs(id, kind, col, row) == [id |-> id, kind |-> kind, at |-> At(col, row)]
MarchTo(id, col, row) == [id |-> id, to |-> At(col, row)]

-----------------------------------------------------------------------------
\* Skirmish: melee, shots and flight over a 3 x 2 map, with commands the code
\* refuses: invalid id, invalid stats, outside, occupied cell, reused id.
SkirmishKinds == {"swordsman", "hunter", "raven", "ghost"}
SkirmishRecipes ==
  [k \in SkirmishKinds |->
     CASE k = "swordsman" -> Swordsman(2, 1)
       [] k = "hunter" -> Hunter(2, 1, 1, 3)
       [] k = "raven" -> Raven(1, 1)
       [] k = "ghost" -> Raven(0, 1)]
SkirmishSpawns ==
  {SpawnAs(1, "swordsman", 0, 0), SpawnAs(1, "swordsman", 2, 0), SpawnAs(0, "raven", 0, 1),
   SpawnAs(2, "hunter", 2, 1), SpawnAs(2, "hunter", 0, 0),
   SpawnAs(3, "raven", 0, 1), SpawnAs(3, "ghost", 1, 1), SpawnAs(3, "raven", 3, 0)}
SkirmishMarches ==
  {MarchTo(1, 2, 0), MarchTo(1, 1, 1), MarchTo(2, 0, 0), MarchTo(3, 2, 1),
   MarchTo(3, 0, 1), MarchTo(3, 0, 2)}

-----------------------------------------------------------------------------
\* Minefield: two mines within each other's blast, a marching swordsman and a
\* raven; a mine killed by the other may or may not have its turn still to come.
MineKinds == {"mine", "dud", "swordsman", "raven"}
MineRecipes ==
  [k \in MineKinds |->
     CASE k = "mine" -> Mine(1)
       [] k = "dud" -> Mine(0)
       [] k = "swordsman" -> Swordsman(2, 1)
       [] k = "raven" -> Raven(1, 1)]
MineSpawns ==
  {SpawnAs(1, "mine", 0, 0), SpawnAs(2, "mine", 2, 0), SpawnAs(2, "dud", 2, 1),
   SpawnAs(3, "swordsman", 3, 0), SpawnAs(4, "swordsman", 1, 1), SpawnAs(4, "raven", 1, 0)}
MineMarches == {MarchTo(3, 1, 0), MarchTo(4, 3, 1), MarchTo(1, 1, 1)}

\* Infirmary: healers without bounds on what they heal, up to the largest int.
HealKinds == {"healer", "swordsman", "tower", "lancer"}
HealRecipes ==
  [k \in HealKinds |->
     CASE k = "healer" -> Healer(2, 2)
       [] k = "swordsman" -> Swordsman(4, 1)
       [] k = "tower" -> Tower(1, 1)
       [] k = "lancer" -> Lancer(2, 1)]
HealSpawns ==
  {SpawnAs(1, "healer", 0, 0), SpawnAs(2, "swordsman", 1, 0), SpawnAs(2, "tower", 2, 0),
   SpawnAs(3, "swordsman", 2, 1), SpawnAs(3, "lancer", 2, 0), SpawnAs(3, "lancer", 1, 0)}
HealMarches == {MarchTo(1, 2, 1), MarchTo(3, 0, 1)}

\* Workshop: recipes as a JSON archetype may write them.  A brawler has its rules
\* in ascending order and points for three actions, but one rule costs two; a
\* courier takes two steps a move, and none by a rule of a negative step; a martyr
\* spends its whole budget on its own end once somebody is beside it; a statue can
\* neither move nor be attacked.
Brawler ==
  [Swordsman(2, 1) EXCEPT
     !.points = 3,
     !.rules = << MoveRule(1, 1),
                  [DamageRule(5, "battle.adjacent-blocking", "core.literal", 1, 1)
                     EXCEPT !.amount = 1, !.picker = "core.any"],
                  [BlankRule EXCEPT !.condition = "battle.has-march-target",
                                    !.effect = "battle.set-action-state", !.cost = 2] >>]
Courier == [Swordsman(2, 0) EXCEPT !.rules = << MoveRule(0, 2), MoveRule(1, -1) >>]
Martyr ==
  [Tower(1, 1) EXCEPT
     !.blocks = FALSE, !.attackable = FALSE, !.points = 2,
     !.rules = << [BlankRule EXCEPT !.selector = "battle.physical-radius", !.max = 1,
                                    !.picker = "core.all", !.effect = "battle.destroy-self",
                                    !.cost = 2] >>]
Statue == [Swordsman(1, 0) EXCEPT !.mobile = FALSE, !.attackable = FALSE]
WorkKinds == {"brawler", "courier", "martyr", "statue"}
WorkRecipes ==
  [k \in WorkKinds |->
     CASE k = "brawler" -> Brawler
       [] k = "courier" -> Courier
       [] k = "martyr" -> Martyr
       [] k = "statue" -> Statue]
WorkSpawns ==
  {SpawnAs(1, "brawler", 0, 0), SpawnAs(2, "courier", 2, 1), SpawnAs(2, "statue", 1, 0),
   SpawnAs(3, "martyr", 1, 0), SpawnAs(3, "courier", 2, 0)}
WorkMarches == {MarchTo(1, 2, 1), MarchTo(2, 0, 0), MarchTo(3, 0, 0)}

=============================================================================
