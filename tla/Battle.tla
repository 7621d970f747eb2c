------------------------------- MODULE Battle -------------------------------
(***************************************************************************)
(* The battle: the setup commands, then EngineRunner driving the systems   *)
(* BattleFeaturePack registers, down to the single rule attempt of one     *)
(* entity in one turn.                                                     *)
(*                                                                         *)
(* The program is one thread.  What is nondeterministic is the scenario    *)
(* (which commands, in which order) and every draw of context.rng(): the   *)
(* random target and the random step among the preferred cells.            *)
(*                                                                         *)
(* A component store is a function on all of Id with a blank value where   *)
(* the component is absent; the blanks are 0, FALSE-like sets, and None.   *)
(***************************************************************************)
EXTENDS BattleGrid, BattleRules

CONSTANTS
  Id,              \* entity ids a scenario may use; 0 is core's invalid id
  Kinds,           \* names of the recipes
  Recipes,         \* the recipe of each kind
  None,            \* absent position, target or recipe
  SpawnCommands,   \* SPAWN commands a scenario may hold: {id, kind, at}
  MarchCommands,   \* MARCH commands a scenario may hold: {id, to}
  MaxTicks,        \* settings.maxTicks
  MaxInt           \* largest int: 2^31 - 1 in the build

ASSUME IdAssumption == Id \subseteq Nat \ {0}
ASSUME NoneAssumption == None \notin Cells \cup Kinds
ASSUME RecipeAssumption ==
  /\ Recipes \in [Kinds -> RecipeType]
  /\ \A k \in Kinds : \A i \in 1..Len(Recipes[k].rules) :
       LET r == Recipes[k].rules[i] IN
         \* after effects only accompany damage, and a march has one target
         /\ r.after = "battle.destroy-self" => r.effect = "battle.damage"
         /\ r.effect = "battle.move" => r.picker # "core.all"
ASSUME CommandAssumption ==
  /\ SpawnCommands \subseteq [id : Id \cup {0}, kind : Kinds, at : Point]
  /\ MarchCommands \subseteq [id : Id \cup {0}, to : Point]
ASSUME NumberAssumption == MaxTicks \in Int /\ MaxInt \in Nat \ {0}

\* A definition named Slip... is the one after it with a slip somebody could have
\* made in the code; none is used, they show what the properties would catch.

VARIABLES
  \* the world and its resources
  mapReady,   \* BattleMapResource exists
  order,      \* World::_creationOrder: every id ever created, never shortened
  active,     \* World::_activeEntities
  unit,       \* the recipe of an existing entity
  pos,        \* PositionComponent
  hp,         \* HealthComponent
  alive,      \* holders of the AliveComponent marker
  march,      \* MarchTargetComponent
  armed,      \* holders of a non-zero "armed" action-state counter
  occ,        \* BattleMapResource::_occupancy, 0 where a cell is free
  \* the engine
  phase,      \* "commands", a scheduler phase, "done", or "aborted"
  stop,       \* EngineRunner::_stopRequested
  ticks,      \* ticksExecuted
  tick,       \* World::_tick
  \* the tick in progress
  turn,       \* index in order of the entity whose turn it is
  rule,       \* index of the rule it tries next; 0 between turns
  budget,     \* remainingBudget
  acted,      \* lastTickActions > 0
  \* the events the last step published
  out

world  == << mapReady, order, active, unit, pos, hp, alive, march, armed, occ >>
engine == << phase, stop, ticks, tick >>
inTick == << turn, rule, budget, acted >>
vars   == << world, engine, inTick, out >>

Phases == {"commands", "Startup", "BeforeTick", "Tick", "AfterTick", "Cleanup",
           "Shutdown", "done", "aborted"}

EventType ==
  [ev : {"MapCreated"}]
  \cup [ev : {"EntityCreated", "MarchEnded"}, id : Id, at : Cells]
  \cup [ev : {"MarchStarted"}, id : Id, at : Cells, target : Cells]
  \cup [ev : {"EntityMoved"}, id : Id, from : Cells, at : Cells]
  \cup [ev : {"Damage", "Heal"}, source : Id, id : Id, hp : Int]
  \cup [ev : {"EntityRemoved"}, id : Id, at : Cells, reason : {"Death", "Destroyed"}]

-----------------------------------------------------------------------------
(* Component access, queries and policies (all at their defaults).         *)

Exists(e)       == e \in active
Recipe(e)       == Recipes[unit[e]]
IsAlive(e)      == Exists(e) /\ hp[e] > 0
IsBlocking(e)   == Exists(e) /\ Recipe(e).blocks
IsAttackable(e) == Exists(e) /\ Recipe(e).attackable

Created == {order[i] : i \in 1..Len(order)}
Amount(e, r) == RuleAmount(Recipe(e), r)
Reach(e, r)  == RuleReach(Recipe(e), r)

\* A 32-bit sum: signed overflow wraps in the code the compiler emits here.
IntAdd(a, b) == IF a + b > MaxInt THEN a + b - 2 * (MaxInt + 1) ELSE a + b

CanPlaceAt(p, blocks) == Inside(p) /\ (blocks => occ[p] = 0)
CanEnterCell(from, p, blocks) == Inside(p) /\ (blocks /\ p # from => occ[p] = 0)

\* The policy lets an entity that died earlier in this tick still take its turn.
SlipCanActAlive(e) == IsAlive(e)
CanActThisTurn(e) == Exists(e)
HasTurn(e) == CanActThisTurn(e) /\ Recipe(e).points > 0 /\ Recipe(e).rules # << >>

SlipHasAnyEntity == active # {}
HasEnoughActiveEntities == Cardinality(active) >= 2
CanContinue == mapReady /\ HasEnoughActiveEntities
ShouldStopAfterNoActions == ~acted

OrderedRules == [k \in Kinds |-> Ordered(Recipes[k].rules)]
RulesOf(e) == OrderedRules[unit[e]]

-----------------------------------------------------------------------------
(* Conditions, selectors and pickers.                                      *)

NextTo(e, t) == Distance(pos[e], pos[t]) = 1

\* A dead unit that still stands on the map blocks the shot as well.
NoAdjacentBlocking(e) == \A t \in active \ {e} : ~(IsBlocking(t) /\ NextTo(e, t))

ConditionHolds(e, r) ==
  CASE r.condition = "core.always" -> TRUE
    [] r.condition = "battle.no-adjacent-blocking" -> NoAdjacentBlocking(e)
    [] r.condition = "battle.has-action-state" -> r.stateKey # "" /\ e \in armed
    [] r.condition = "battle.missing-action-state" -> r.stateKey = "" \/ e \notin armed
    [] r.condition = "battle.has-march-target" -> march[e] # None

\* A unit that does not block its cell counts as one step further away.
EffectiveDistance(e, t) ==
  LET d == Distance(pos[e], pos[t]) IN IF ~IsBlocking(t) /\ d > 0 THEN d + 1 ELSE d

Selects(e, r, t) ==
  CASE r.selector = "core.none" -> FALSE
    [] r.selector = "battle.adjacent-blocking" -> IsBlocking(t) /\ NextTo(e, t)
    [] r.selector = "battle.effective-range" ->
         EffectiveDistance(e, t) >= r.min /\ EffectiveDistance(e, t) <= Reach(e, r)
    [] r.selector = "battle.physical-radius" -> Distance(pos[e], pos[t]) <= Reach(e, r)

Targets(e, r) ==
  {t \in active \ {e} : /\ IsAlive(t)
                        /\ Selects(e, r, t)
                        /\ r.attackableOnly => IsAttackable(t)}

CreationOrder(t) == CHOOSE i \in 1..Len(order) : order[i] = t

\* The sets of targets the picker may return.
Picks(e, r) ==
  LET T == Targets(e, r) IN
  CASE r.picker = "core.none" -> {{}}
    [] r.picker = "core.all" -> {T}
    [] r.picker = "core.any" ->
         {{t \in T : \A u \in T : CreationOrder(t) <= CreationOrder(u)}}
    [] r.picker = "core.random-one" -> IF T = {} THEN {{}} ELSE {{t} : t \in T}

Admits(r, picked) == picked # {} \/ r.selector = "core.none" \/ r.allowEmpty

-----------------------------------------------------------------------------
(* Effects: which of the picked targets an effect reaches.                 *)

SlipHurtInReach(e, r, picked) ==
  {t \in active \ {e} : Distance(pos[e], pos[t]) <= Reach(e, r)}
Hurt(e, r, picked) ==
  {t \in picked : /\ Amount(e, r) > 0
                  /\ Exists(e) /\ Exists(t)
                  /\ hp[t] > 0
                  /\ r.selector # "battle.physical-radius" => IsAttackable(t)}

Healed(e, r, picked) ==
  {t \in picked : Amount(e, r) > 0 /\ Exists(e) /\ Exists(t) /\ hp[t] > 0}

(* The march of BattleMovementSystem: each step goes to a cell closer to   *)
(* the target if one can be entered, else to any that can, and the walk    *)
(* ends early at the target or where there is nowhere to go.               *)
Standable(e) == {c \in Cells : CanEnterCell(pos[e], c, IsBlocking(e))}

SlipStepAnywhere(e, from) == Neighbors8(from) \cap Standable(e)
StepPool(e, from) ==
  LET open == Neighbors8(from) \cap Standable(e)
      preferred == Closer(open, from, march[e])
  IN  IF preferred = {} THEN open ELSE preferred

StepFrom(e, n, from) ==
  IF StepPool(e, from) = {} \/ (n > 1 /\ from = march[e]) THEN {from} ELSE StepPool(e, from)

WalkEnds(e, steps) ==
  {w[steps] : w \in {v \in [0..steps -> Standable(e)] :
                       /\ v[0] = pos[e]
                       /\ \A n \in 1..steps : v[n] \in StepFrom(e, n, v[n - 1])}}

CanMarch(e) ==
  /\ Exists(e) /\ Recipe(e).mobile /\ mapReady
  /\ march[e] # None
  /\ IsBlocking(e) => occ[pos[e]] = e

\* How often the loop of apply goes round: a negative distance is no step.
Strides(r) == IF r.step > 0 THEN r.step ELSE 0

Moves(e, r) == IF CanMarch(e) THEN WalkEnds(e, Strides(r)) \ {pos[e]} ELSE {}
MoveMayFail(e, r) == CanMarch(e) => pos[e] \in WalkEnds(e, Strides(r))

\* The primary effect and the after effect both report that nothing was done.
NothingApplied(e, r, picked) ==
  /\ r.after = "core.none"
  /\ \/ r.effect = "core.none"
     \/ r.effect = "battle.damage" /\ Hurt(e, r, picked) = {}
     \/ r.effect = "battle.heal" /\ Healed(e, r, picked) = {}
     \/ r.effect = "battle.move" /\ MoveMayFail(e, r)
     \/ r.effect = "battle.set-action-state" /\ r.stateKey = ""

-----------------------------------------------------------------------------
(* Removing entities: map cell, alive marker, world and components.        *)

Vacated(S) == {c \in Cells : \E e \in S : IsBlocking(e) /\ pos[e] = c /\ occ[c] = e}

Erased(f, S, blank) == [e \in Id |-> IF e \in S THEN blank ELSE f[e]]

\* h is the health table the removal starts from.
Remove(S, h) ==
  /\ active' = active \ S
  /\ unit' = Erased(unit, S, None)
  /\ pos' = Erased(pos, S, None)
  /\ hp' = Erased(h, S, 0)
  /\ march' = Erased(march, S, None)
  /\ armed' = armed \ S
  /\ occ' = [c \in Cells |-> IF c \in Vacated(S) THEN 0 ELSE occ[c]]

-----------------------------------------------------------------------------
(* Setup commands: a command the code refuses changes nothing.             *)

Init ==
  /\ mapReady = FALSE
  /\ order = << >>
  /\ active = {}
  /\ unit = [e \in Id |-> None]
  /\ pos = [e \in Id |-> None]
  /\ hp = [e \in Id |-> 0]
  /\ alive = {}
  /\ march = [e \in Id |-> None]
  /\ armed = {}
  /\ occ = [c \in Cells |-> 0]
  /\ phase = "commands" /\ stop = FALSE /\ ticks = 0 /\ tick = 1
  /\ turn = 0 /\ rule = 0 /\ budget = 0 /\ acted = FALSE
  /\ out = {}

CreateMap ==
  /\ phase = "commands"
  /\ ~mapReady
  /\ mapReady' = TRUE
  /\ out' = {[ev |-> "MapCreated"]}
  /\ UNCHANGED << order, active, unit, pos, hp, alive, march, armed, occ, engine, inTick >>

Spawn(c) ==
  LET recipe == Recipes[c.kind] IN
  /\ phase = "commands"
  /\ mapReady
  /\ c.id # 0 /\ ValidStats(recipe)
  /\ Inside(c.at) /\ CanPlaceAt(c.at, recipe.blocks)
  /\ c.id \notin Created
  /\ order' = Append(order, c.id)
  /\ active' = active \cup {c.id}
  /\ unit' = [unit EXCEPT ![c.id] = c.kind]
  /\ pos' = [pos EXCEPT ![c.id] = c.at]
  /\ hp' = [hp EXCEPT ![c.id] = recipe.hp]
  /\ alive' = alive \cup {c.id}
  /\ occ' = IF recipe.blocks THEN [occ EXCEPT ![c.at] = c.id] ELSE occ
  /\ out' = {[ev |-> "EntityCreated", id |-> c.id, at |-> c.at]}
  /\ UNCHANGED << mapReady, march, armed, engine, inTick >>

SlipMarchUnbounded(c) ==
  c.id # 0 /\ mapReady /\ Exists(c.id) /\ Recipe(c.id).mobile /\ IsAlive(c.id)
MarchAccepted(c) ==
  /\ c.id # 0 /\ mapReady /\ Inside(c.to)
  /\ Exists(c.id) /\ Recipe(c.id).mobile /\ IsAlive(c.id)

March(c) ==
  LET e == c.id
      started == [ev |-> "MarchStarted", id |-> e, at |-> pos[e], target |-> c.to]
  IN
  /\ phase = "commands"
  /\ MarchAccepted(c)
  /\ IF c.to = pos[e]
       THEN /\ march' = [march EXCEPT ![e] = None]
            /\ out' = {started, [ev |-> "MarchEnded", id |-> e, at |-> pos[e]]}
       ELSE /\ march' = [march EXCEPT ![e] = c.to]
            /\ out' = {started}
  /\ UNCHANGED << mapReady, order, active, unit, pos, hp, alive, armed, occ, engine, inTick >>

\* An unknown command, an unknown archetype or a map without cells throws
\* through main: the process ends before the battle.
ParserThrows ==
  /\ phase = "commands"
  /\ phase' = "aborted" /\ out' = {}
  /\ UNCHANGED << world, stop, ticks, tick, inTick >>

\* The commands are all read and ScenarioRunner calls run().
Run ==
  /\ phase = "commands"
  /\ phase' = "Startup" /\ out' = {}
  /\ UNCHANGED << world, stop, ticks, tick, inTick >>

-----------------------------------------------------------------------------
(* The engine loop and the battle systems registered in its phases.        *)

SlipLoopHeadLate(n) == IF n <= MaxTicks THEN "BeforeTick" ELSE "Shutdown"
LoopHead(n) == IF n < MaxTicks THEN "BeforeTick" ELSE "Shutdown"

Startup ==
  /\ phase = "Startup"
  /\ tick' = IF mapReady THEN 2 ELSE tick
  /\ phase' = LoopHead(ticks) /\ out' = {}
  /\ UNCHANGED << world, stop, ticks, inTick >>

BeforeTick ==
  /\ phase = "BeforeTick"
  /\ IF CanContinue
       THEN phase' = "Tick" /\ turn' = 1 /\ acted' = FALSE /\ UNCHANGED stop
       ELSE phase' = "Shutdown" /\ stop' = TRUE /\ UNCHANGED << turn, acted >>
  /\ out' = {}
  /\ UNCHANGED << world, ticks, tick, rule, budget >>

EndTick ==
  /\ phase = "Tick" /\ rule = 0 /\ turn > Len(order)
  /\ phase' = "AfterTick" /\ turn' = 0 /\ out' = {}
  /\ UNCHANGED << world, stop, ticks, tick, rule, budget, acted >>

SlipDeadButLast == {e \in active : ~IsAlive(e) /\ CreationOrder(e) < Len(order)}
Dead == {e \in active : ~IsAlive(e)}

AfterTick ==
  /\ phase = "AfterTick"
  /\ Remove(Dead, hp)
  /\ alive' = alive \ Dead
  /\ IF ShouldStopAfterNoActions
       THEN phase' = "Shutdown" /\ stop' = TRUE
       ELSE phase' = "Cleanup" /\ UNCHANGED stop
  /\ out' = {}
  /\ UNCHANGED << mapReady, order, ticks, tick, inTick >>

Cleanup ==
  /\ phase = "Cleanup"
  /\ ticks' = ticks + 1
  /\ tick' = tick + 1
  /\ phase' = LoopHead(ticks + 1) /\ out' = {}
  /\ UNCHANGED << world, stop, inTick >>

Shutdown ==
  /\ phase = "Shutdown"
  /\ phase' = "done" /\ out' = {}
  /\ UNCHANGED << world, stop, ticks, tick, inTick >>

-----------------------------------------------------------------------------
(* One entity's turn: executeEntity.                                       *)

Actor == order[turn]
Rule  == RulesOf(Actor)[rule]

BetweenTurns == phase = "Tick" /\ rule = 0 /\ turn <= Len(order)
InTurn == phase = "Tick" /\ rule # 0

BeginTurn ==
  /\ BetweenTurns
  /\ HasTurn(Actor)
  /\ rule' = 1 /\ budget' = Recipe(Actor).points /\ out' = {}
  /\ UNCHANGED << world, engine, turn, acted >>

SlipSkipForgets ==
  /\ BetweenTurns
  /\ ~HasTurn(Actor)
  /\ turn' = turn + 1 /\ acted' = FALSE /\ out' = {}
  /\ UNCHANGED << world, engine, rule, budget >>

SkipTurn ==
  /\ BetweenTurns
  /\ ~HasTurn(Actor)
  /\ turn' = turn + 1 /\ out' = {}
  /\ UNCHANGED << world, engine, rule, budget, acted >>

LeaveTurn == turn' = turn + 1 /\ rule' = 0 /\ budget' = 0

\* A rule that applied is paid for, and the rules are tried again from the top.
SlipPayNothing == acted' = TRUE /\ rule' = 1 /\ UNCHANGED << budget, turn >>
Pay ==
  /\ acted' = TRUE
  /\ IF budget > Rule.cost
       THEN budget' = budget - Rule.cost /\ rule' = 1 /\ UNCHANGED turn
       ELSE LeaveTurn

\* ... unless the rule removed its own entity.
PayAndVanish == acted' = TRUE /\ LeaveTurn

Affordable == Rule.cost > 0 /\ Rule.cost <= budget
Fires == InTurn /\ Affordable /\ ConditionHolds(Actor, Rule)

RuleFails ==
  /\ InTurn
  /\ \/ ~Affordable
     \/ ~ConditionHolds(Actor, Rule)
     \/ \E picked \in Picks(Actor, Rule) :
          ~Admits(Rule, picked) \/ NothingApplied(Actor, Rule, picked)
  /\ IF rule < Len(RulesOf(Actor))
       THEN rule' = rule + 1 /\ UNCHANGED << turn, budget >>
       ELSE LeaveTurn
  /\ out' = {}
  /\ UNCHANGED << world, engine, acted >>

Wounded(hurt, amount) == [t \in Id |-> IF t \in hurt THEN hp[t] - amount ELSE hp[t]]
SlipKilledBelowZero(hurt, amount) == {t \in hurt : hp[t] - amount < 0}
Killed(hurt, amount) == {t \in hurt : hp[t] - amount <= 0}

SlipDamageEventsOnly(e, hurt, amount) ==
  {[ev |-> "Damage", source |-> e, id |-> t, hp |-> hp[t] - amount] : t \in hurt}
DamageEvents(e, hurt, amount) ==
  {[ev |-> "Damage", source |-> e, id |-> t, hp |-> hp[t] - amount] : t \in hurt}
  \cup {[ev |-> "EntityRemoved", id |-> t, at |-> pos[t], reason |-> "Death"]
          : t \in Killed(hurt, amount)}

DestroyedEvent(e) ==
  [ev |-> "EntityRemoved", id |-> e, at |-> pos[e], reason |-> "Destroyed"]

Strike ==
  /\ Fires /\ Rule.effect = "battle.damage" /\ Rule.after = "core.none"
  /\ \E picked \in Picks(Actor, Rule) :
       LET hurt == Hurt(Actor, Rule, picked)
           amount == Amount(Actor, Rule)
       IN  /\ Admits(Rule, picked)
           /\ hurt # {}
           /\ hp' = Wounded(hurt, amount)
           /\ alive' = alive \ Killed(hurt, amount)
           /\ out' = DamageEvents(Actor, hurt, amount)
  /\ Pay
  /\ UNCHANGED << mapReady, order, active, unit, pos, march, armed, occ, engine >>

\* Damage with destroy-self as its after effect, which applies even when
\* there is nobody to damage.
Explode ==
  /\ Fires /\ Rule.effect = "battle.damage" /\ Rule.after = "battle.destroy-self"
  /\ \E picked \in Picks(Actor, Rule) :
       LET hurt == Hurt(Actor, Rule, picked)
           amount == Amount(Actor, Rule)
       IN  /\ Admits(Rule, picked)
           /\ Remove({Actor}, Wounded(hurt, amount))
           /\ alive' = (alive \ Killed(hurt, amount)) \ {Actor}
           /\ out' = DamageEvents(Actor, hurt, amount) \cup {DestroyedEvent(Actor)}
  /\ PayAndVanish
  /\ UNCHANGED << mapReady, order, engine >>

DestroySelf ==
  /\ Fires /\ Rule.effect = "battle.destroy-self"
  /\ \E picked \in Picks(Actor, Rule) : Admits(Rule, picked)
  /\ Remove({Actor}, hp)
  /\ alive' = alive \ {Actor}
  /\ out' = {DestroyedEvent(Actor)}
  /\ PayAndVanish
  /\ UNCHANGED << mapReady, order, engine >>

Heal ==
  /\ Fires /\ Rule.effect = "battle.heal"
  /\ \E picked \in Picks(Actor, Rule) :
       LET healed == Healed(Actor, Rule, picked)
           Gain(t) == IntAdd(hp[t], Amount(Actor, Rule))
       IN  /\ Admits(Rule, picked)
           /\ healed # {}
           /\ hp' = [t \in Id |-> IF t \in healed THEN Gain(t) ELSE hp[t]]
           /\ out' = {[ev |-> "Heal", source |-> Actor, id |-> t, hp |-> Gain(t)] : t \in healed}
  /\ Pay
  /\ UNCHANGED << mapReady, order, active, unit, pos, alive, march, armed, occ, engine >>

\* emplace in place() leaves an entry that is already there.
SlipRelocatedCopy(e, from, to) == [occ EXCEPT ![to] = IF @ = 0 THEN e ELSE @]
Relocated(e, from, to) ==
  LET cleared == [occ EXCEPT ![from] = IF @ = e THEN 0 ELSE @]
  IN  [cleared EXCEPT ![to] = IF @ = 0 THEN e ELSE @]

SlipArrivedBefore(e, to) == pos[e] = march[e]
Arrives(e, to) == to = march[e]

Move ==
  /\ Fires /\ Rule.effect = "battle.move"
  /\ \E picked \in Picks(Actor, Rule) : Admits(Rule, picked)
  /\ \E to \in Moves(Actor, Rule) :
       LET e == Actor
           from == pos[e]
           moved == [ev |-> "EntityMoved", id |-> e, from |-> from, at |-> to]
       IN  /\ pos' = [pos EXCEPT ![e] = to]
           /\ occ' = IF IsBlocking(e) THEN Relocated(e, from, to) ELSE occ
           /\ IF Arrives(e, to)
                THEN /\ march' = [march EXCEPT ![e] = None]
                     /\ out' = {moved, [ev |-> "MarchEnded", id |-> e, at |-> to]}
                ELSE UNCHANGED march /\ out' = {moved}
  /\ Pay
  /\ UNCHANGED << mapReady, order, active, unit, hp, alive, armed, engine >>

SetActionState ==
  /\ Fires /\ Rule.effect = "battle.set-action-state" /\ Rule.stateKey # ""
  /\ \E picked \in Picks(Actor, Rule) : Admits(Rule, picked)
  /\ armed' = armed \cup {Actor}
  /\ out' = {}
  /\ Pay
  /\ UNCHANGED << mapReady, order, active, unit, pos, hp, alive, march, occ, engine >>

-----------------------------------------------------------------------------
Commands ==
  \/ CreateMap
  \/ \E c \in SpawnCommands : Spawn(c)
  \/ \E c \in MarchCommands : March(c)
  \/ ParserThrows
  \/ Run

Turns ==
  \/ BeginTurn \/ SkipTurn \/ RuleFails
  \/ Strike \/ Explode \/ DestroySelf \/ Heal \/ Move \/ SetActionState

EngineStep == Startup \/ BeforeTick \/ Turns \/ EndTick \/ AfterTick \/ Cleanup \/ Shutdown

\* The process has exited.
Exited == phase \in {"done", "aborted"} /\ UNCHANGED vars

Next == Commands \/ EngineStep \/ Exited

\* Once the scenario is read nothing but the loop itself can hold it up.
Spec == Init /\ [][Next]_vars /\ WF_vars(EngineStep)

=============================================================================
