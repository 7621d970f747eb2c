----------------------------- MODULE BattleRules ----------------------------
(***************************************************************************)
(* The action-rule DSL and the seven classic archetypes written in it.     *)
(*                                                                         *)
(* A rule is ActionRule with its handler ids spelled as the registry knows *)
(* them.  A recipe is EntityRecipe without its id and position: what a     *)
(* SPAWN command and an archetype fix about a unit for its whole life.     *)
(* Value resolvers name a stat of the acting unit, or "core.literal" for   *)
(* the number written in the rule.                                         *)
(***************************************************************************)
EXTENDS Integers, Sequences, FiniteSets

Conditions == {"core.always", "battle.no-adjacent-blocking", "battle.has-action-state",
               "battle.missing-action-state", "battle.has-march-target"}
Selectors  == {"core.none", "battle.adjacent-blocking", "battle.effective-range",
               "battle.physical-radius"}
Pickers    == {"core.none", "core.any", "core.all", "core.random-one"}
Effects    == {"core.none", "battle.damage", "battle.heal", "battle.move",
               "battle.set-action-state", "battle.destroy-self"}
StatNames  == {"strength", "agility", "range", "spirit", "power"}
Resolvers  == StatNames \cup {"core.literal"}

RuleType ==
  [condition : Conditions, selector : Selectors, picker : Pickers,
   effect : Effects, after : {"core.none", "battle.destroy-self"},
   attackableOnly : BOOLEAN, allowEmpty : BOOLEAN,
   min : Int, max : Int, maxBy : Resolvers,
   amount : Int, amountBy : Resolvers, step : Int,
   stateKey : {"", "armed"}, cost : Int, priority : Int]

\* Every field of a default-constructed ActionRule; absent handlers fall back
\* to core.always and core.none.
BlankRule ==
  [condition |-> "core.always", selector |-> "core.none", picker |-> "core.none",
   effect |-> "core.none", after |-> "core.none",
   attackableOnly |-> FALSE, allowEmpty |-> FALSE,
   min |-> 0, max |-> 0, maxBy |-> "core.literal",
   amount |-> 0, amountBy |-> "core.literal", step |-> 0,
   stateKey |-> "", cost |-> 1, priority |-> 0]

RecipeType ==
  [mobile : BOOLEAN, blocks : BOOLEAN, attackable : BOOLEAN,
   hp : Int, stats : [StatNames -> Int], points : Int, rules : Seq(RuleType)]

Resolve(recipe, by, literal) == IF by = "core.literal" THEN literal ELSE recipe.stats[by]

RuleAmount(recipe, r) == Resolve(recipe, r.amountBy, r.amount)
RuleReach(recipe, r)  == Resolve(recipe, r.maxBy, r.max)

\* BattleSpawnSystem refuses a unit with any other stats.
ValidStats(recipe) == recipe.hp > 0 /\ \A s \in StatNames : recipe.stats[s] >= 0

-----------------------------------------------------------------------------
(***************************************************************************)
(* executeEntity tries the rules of a unit by descending priority, and     *)
(* std::stable_sort keeps the recipe's order between equals: rule j comes  *)
(* after exactly the rules that precede it.  (A definition named Slip...   *)
(* is the next one with a slip; no other definition uses it.)              *)
(***************************************************************************)
SlipPrecedesAscending(rules, i, j) ==
  \/ rules[i].priority < rules[j].priority
  \/ rules[i].priority = rules[j].priority /\ i < j

Precedes(rules, i, j) ==
  \/ rules[i].priority > rules[j].priority
  \/ rules[i].priority = rules[j].priority /\ i < j

Rank(rules, j) == Cardinality({i \in DOMAIN rules : Precedes(rules, i, j)}) + 1

Ordered(rules) ==
  [n \in DOMAIN rules |-> rules[CHOOSE j \in DOMAIN rules : Rank(rules, j) = n]]

-----------------------------------------------------------------------------
DamageRule(priority, selector, amountBy, min, max) ==
  [BlankRule EXCEPT !.selector = selector, !.picker = "core.random-one",
                    !.effect = "battle.damage", !.amountBy = amountBy,
                    !.min = min, !.max = max, !.priority = priority]

MoveRule(priority, step) ==
  [BlankRule EXCEPT !.effect = "battle.move", !.step = step, !.priority = priority]

AttackableOnly(rule) == [rule EXCEPT !.attackableOnly = TRUE]

SwordsmanRules ==
  << DamageRule(20, "battle.adjacent-blocking", "strength", 1, 1), MoveRule(10, 1) >>

LancerRules ==
  << AttackableOnly(DamageRule(30, "battle.effective-range", "strength", 2, 2)),
     DamageRule(20, "battle.adjacent-blocking", "strength", 1, 1), MoveRule(10, 1) >>

HunterRules ==
  << [AttackableOnly(DamageRule(30, "battle.effective-range", "agility", 2, 0))
        EXCEPT !.condition = "battle.no-adjacent-blocking", !.maxBy = "range"],
     DamageRule(20, "battle.adjacent-blocking", "strength", 1, 1), MoveRule(10, 1) >>

TowerRules ==
  << AttackableOnly(DamageRule(10, "battle.effective-range", "power", 2, 5)) >>

RavenRules ==
  << DamageRule(20, "battle.adjacent-blocking", "agility", 1, 1), MoveRule(10, 2) >>

HealerRules ==
  << [AttackableOnly(DamageRule(20, "battle.effective-range", "spirit", 0, 2))
        EXCEPT !.effect = "battle.heal"],
     MoveRule(10, 1) >>

MineRules ==
  << [DamageRule(20, "battle.physical-radius", "power", 0, 3)
        EXCEPT !.condition = "battle.has-action-state", !.picker = "core.all",
               !.after = "battle.destroy-self", !.stateKey = "armed", !.allowEmpty = TRUE],
     [BlankRule EXCEPT !.condition = "battle.missing-action-state",
                       !.selector = "battle.physical-radius", !.picker = "core.any",
                       !.effect = "battle.set-action-state", !.max = 2,
                       !.stateKey = "armed", !.priority = 10] >>

-----------------------------------------------------------------------------
(***************************************************************************)
(* The archetypes: what registerClassicUnitArchetypes fixes, completed     *)
(* with the stats a SPAWN command carries (the others stay zero).          *)
(***************************************************************************)
NoStats == [s \in StatNames |-> 0]

Unit(mobile, blocks, hp, stats, rules) ==
  [mobile |-> mobile, blocks |-> blocks, attackable |-> TRUE,
   hp |-> hp, stats |-> stats, points |-> 1, rules |-> rules]

Swordsman(hp, strength) ==
  Unit(TRUE, TRUE, hp, [NoStats EXCEPT !["strength"] = strength], SwordsmanRules)
Lancer(hp, strength) ==
  Unit(TRUE, TRUE, hp, [NoStats EXCEPT !["strength"] = strength], LancerRules)
Hunter(hp, agility, strength, range) ==
  Unit(TRUE, TRUE, hp,
       [NoStats EXCEPT !["agility"] = agility, !["strength"] = strength, !["range"] = range],
       HunterRules)
Tower(hp, power) ==
  Unit(FALSE, TRUE, hp, [NoStats EXCEPT !["power"] = power], TowerRules)
Raven(hp, agility) ==
  Unit(TRUE, FALSE, hp, [NoStats EXCEPT !["agility"] = agility], RavenRules)
Healer(hp, spirit) ==
  Unit(TRUE, TRUE, hp, [NoStats EXCEPT !["spirit"] = spirit], HealerRules)
Mine(power) ==
  [Unit(FALSE, FALSE, 1, [NoStats EXCEPT !["power"] = power], MineRules)
     EXCEPT !.attackable = FALSE]

=============================================================================
