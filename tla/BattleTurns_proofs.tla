------------------------- MODULE BattleTurns_proofs -------------------------
(***************************************************************************)
(* What an entity does in its turn: it flies straight, fights before it    *)
(* marches, burns out if it is armed, and a tick in which nobody did       *)
(* anything leaves nobody who could.                                       *)
(***************************************************************************)
EXTENDS Battle_proofs

-----------------------------------------------------------------------------
\* Every nonempty set of natural numbers has a least element.  A proof by
\* induction is one about the least counterexample.
LEMMA LeastElement ==
  ASSUME NEW T \in SUBSET Nat, T # {}
  PROVE  \E m \in T : \A k \in T : m <= k
<1>1. PICK x \in T : TRUE
  OBVIOUS
<1> DEFINE Prefixes == {S \in SUBSET (0..x) : \E k \in T : k <= x /\ S = 0..k}
           Shorter == StrictSubsetOrdering(0..x)
<1>2. IsFiniteSet(0..x)
  BY <1>1, FS_Interval
<1>3. Prefixes \subseteq FiniteSubsetsOf(0..x)
  BY <1>2, FS_Subset DEF FiniteSubsetsOf
<1>4. Prefixes # {}
  BY <1>1
<1>5. IsWellFoundedOn(Shorter, FiniteSubsetsOf(0..x))
  BY FS_StrictSubsetOrderingWellFounded
<1> HIDE DEF Prefixes, Shorter
<1>6. PICK S \in Prefixes : \A R \in Prefixes : ~(<< R, S >> \in Shorter)
  BY <1>3, <1>4, <1>5, WFMin
<1>7. PICK m \in T : m <= x /\ S = 0..m
  BY <1>6 DEF Prefixes
<1>8. ASSUME NEW k \in T, k < m
      PROVE  FALSE
  <2>1. 0..k \in SUBSET (0..x) /\ 0..m \in SUBSET (0..x)
    BY <1>1, <1>7, <1>8
  <2>2. 0..k \in Prefixes
    BY <1>7, <1>8, <2>1 DEF Prefixes
  <2>3. 0..k \subseteq 0..m /\ m \in 0..m /\ m \notin 0..k
    BY <1>7, <1>8
  <2>4. << 0..k, 0..m >> \in Shorter
    BY <2>1, <2>3 DEF Shorter, StrictSubsetOrdering
  <2> QED BY <1>6, <1>7, <2>2, <2>4
<1>9. \A k \in T : m <= k
  BY <1>7, <1>8
<1> QED BY <1>9

-----------------------------------------------------------------------------
(* Flight.                                                                 *)

LEMMA NeighborsAreCells ==
  ASSUME NEW p \in Cells
  PROVE  Neighbors8(p) \subseteq Cells /\ p \notin Neighbors8(p)
<1>1. p.x \in Int /\ p.y \in Int
  BY SizeAssumption DEF Cells
<1>2. [x : (p.x - 1)..(p.x + 1), y : (p.y - 1)..(p.y + 1)] \subseteq Point
  BY <1>1 DEF Point
<1>3. \A n \in Neighbors8(p) : n \in Point /\ Inside(n) /\ n # p
  BY <1>2 DEF Neighbors8
<1> QED BY <1>3, InsideIsACell

\* A unit that does not block can stand anywhere, so each step of its flight is
\* one to a closer cell as long as it has not arrived.
LEMMA StepOfAFlight ==
  ASSUME TypeOK, NEW e \in active, ~IsBlocking(e), march[e] \in Cells,
         NEW from \in Cells, from # march[e], NEW n \in Nat, NEW to \in StepFrom(e, n, from)
  PROVE  Distance(to, march[e]) < Distance(from, march[e])
<1>1. Standable(e) = Cells
  <2>1. \A c \in Cells : Inside(c)
    BY CellsArePoints, InsideIsACell
  <2> QED BY <2>1 DEF Standable, CanEnterCell
<1>2. Neighbors8(from) \cap Standable(e) = Neighbors8(from)
  BY <1>1, NeighborsAreCells
<1>3. Closer(Neighbors8(from), from, march[e]) # {}
  BY ACloserNeighbourExists
<1>4. StepPool(e, from) = Closer(Neighbors8(from), from, march[e])
  BY <1>2, <1>3 DEF StepPool
<1>5. to \in Closer(Neighbors8(from), from, march[e])
  BY <1>3, <1>4 DEF StepFrom
<1> QED BY <1>5 DEF Closer

\* The whole flight, by its first step that would not be closer than the start.
LEMMA FlightEndsCloser ==
  ASSUME TypeOK, MarchIsPending, NEW e \in active, ~IsBlocking(e), march[e] # None,
         NEW steps \in Nat, steps # 0, NEW to \in WalkEnds(e, steps)
  PROVE  Distance(to, march[e]) < Distance(pos[e], march[e])
<1> DEFINE far(c) == Distance(c, march[e])
<1>1. /\ e \in Id /\ pos[e] \in Cells /\ march[e] \in Cells /\ march[e] # pos[e]
  BY ExistingEntity DEF TypeOK, MarchIsPending
<1>2. PICK w \in [0..steps -> Standable(e)] :
        w[0] = pos[e] /\ to = w[steps] /\ \A n \in 1..steps : w[n] \in StepFrom(e, n, w[n - 1])
  BY DEF WalkEnds
<1>3. \A n \in 0..steps : w[n] \in Cells /\ far(w[n]) \in Nat
  BY <1>1, <1>2, CellsArePoints, DistanceIsANumber DEF Standable
<1> HIDE DEF far
<1> DEFINE T == {n \in 1..steps : ~(far(w[n]) < far(w[0]))}
<1>4. ASSUME T # {} PROVE FALSE
  <2>0. T \in SUBSET Nat
    OBVIOUS
  <2>1. PICK m \in T : \A k \in T : m <= k
    <3> HIDE DEF T
    <3> QED BY <1>4, <2>0, LeastElement
  <2>2. m \in 1..steps /\ m - 1 \in 0..steps /\ w[m] \in StepFrom(e, m, w[m - 1])
    <3>1. m \in 1..steps
      OBVIOUS
    <3> QED BY <1>2, <3>1
  <2>3. CASE w[m - 1] # march[e]
    <3>1. far(w[m]) < far(w[m - 1])
      BY <1>1, <1>3, <2>2, <2>3, StepOfAFlight DEF far
    <3>2. m = 1 \/ (m - 1 \in 1..steps /\ m - 1 \notin T)
      BY <2>1, <2>2
    <3>3. far(w[m - 1]) < far(w[0]) \/ m - 1 = 0
      BY <3>2
    <3> QED BY <1>3, <2>1, <2>2, <3>1, <3>3
  <2>4. CASE w[m - 1] = march[e]
    <3>1. m > 1
      BY <1>1, <1>2, <2>2, <2>4
    <3>2. w[m] = w[m - 1]
      BY <2>2, <2>4, <3>1 DEF StepFrom
    <3>3. m - 1 \in 1..steps /\ m - 1 \notin T
      BY <2>1, <2>2, <3>1
    <3> QED BY <2>1, <3>2, <3>3
  <2> QED BY <2>3, <2>4
<1>5. far(w[steps]) < far(w[0])
  BY <1>4
<1> QED BY <1>2, <1>5 DEF far

\* Without a step there is no walk.
LEMMA NoStepNoWalk ==
  ASSUME NEW e
  PROVE  WalkEnds(e, 0) \subseteq {pos[e]}
BY DEF WalkEnds

\* The only step that carries an entity to another cell is its own move.
LEMMA OnlyMovesTravel ==
  ASSUME TypeOK, [Next]_vars, NEW e \in active, e \in active', pos'[e] # pos[e]
  PROVE  /\ Move /\ InTurn /\ Actor = e
         /\ Rule.effect = "battle.move" /\ Rule \in RuleType
         /\ pos'[e] \in Moves(e, Rule)
<1>0. e \in Id /\ pos \in [Id -> Cells \cup {None}]
  BY ExistingEntity DEF TypeOK
<1>1. ~UNCHANGED pos
  OBVIOUS
<1>2. ASSUME NEW c \in SpawnCommands, Spawn(c)
      PROVE  FALSE
  <2>1. c.id \notin active /\ pos' = [pos EXCEPT ![c.id] = c.at]
    BY <1>2 DEF Spawn, TypeOK
  <2> QED BY <1>0, <2>1
<1>3. ASSUME AfterTick \/ Explode \/ DestroySelf
      PROVE  FALSE
  <2>1. PICK S, h : Remove(S, h)
    BY <1>3 DEF AfterTick, Explode, DestroySelf
  <2>2. active' = active \ S /\ pos' = [x \in Id |-> IF x \in S THEN None ELSE pos[x]]
    BY <2>1 DEF Remove, Erased
  <2> QED BY <1>0, <2>2
<1>4. Move
  BY <1>1, <1>2, <1>3, StepsOfTheWorld
     DEF world, CreateMap, March, Strike, Heal, SetActionState
<1>5. InTurn /\ Rule.effect = "battle.move" /\ Rule \in RuleType /\ Actor \in Id
  BY <1>4, InItsTurn DEF Move, Fires
<1>6. PICK to \in Moves(Actor, Rule) : pos' = [pos EXCEPT ![Actor] = to]
  BY <1>4 DEF Move
<1> QED BY <1>0, <1>4, <1>5, <1>6

\* A flying unit never hovers or strays: whatever is drawn at each step, and
\* however many steps make one move, the move ends closer to the target.
THEOREM FlightIsStraight == Spec => FlightGetsCloser
<1> DEFINE Closing ==
      \A e \in active \cap active' :
        pos'[e] # pos[e] /\ ~Recipes[unit[e]].blocks
          => Distance(pos'[e], march[e]) < Distance(pos[e], march[e])
<1>1. TypeOK /\ MarchIsPending /\ [Next]_vars => [Closing]_vars
  <2> SUFFICES ASSUME TypeOK, MarchIsPending, [Next]_vars,
                      NEW e \in active, e \in active',
                      pos'[e] # pos[e], ~Recipes[unit[e]].blocks
               PROVE  Distance(pos'[e], march[e]) < Distance(pos[e], march[e])
    OBVIOUS
  <2>1. Strides(Rule) \in Nat /\ pos'[e] \in Moves(e, Rule)
    BY OnlyMovesTravel, StridesAreCounted
  <2>2. ~IsBlocking(e)
    BY DEF IsBlocking, Recipe
  <2>3. march[e] # None /\ pos'[e] \in WalkEnds(e, Strides(Rule)) /\ Strides(Rule) # 0
    BY <2>1, NoStepNoWalk DEF Moves, CanMarch
  <2> QED BY <2>1, <2>2, <2>3, FlightEndsCloser
<1> QED
  BY <1>1, TypeCorrect, MarchesStayPending, PTL DEF Spec, FlightGetsCloser

-----------------------------------------------------------------------------
(* What a rule would do depends on the world alone.                        *)

LEMMA SameTargets ==
  ASSUME UNCHANGED world, NEW e, NEW r
  PROVE  /\ Targets(e, r)' = Targets(e, r)
         /\ Picks(e, r)' = Picks(e, r)
<1>1. UNCHANGED << active, unit, pos, hp, order >>
  BY DEF world
<1>2. \A t : /\ IsAlive(t)' <=> IsAlive(t)
             /\ IsBlocking(t)' <=> IsBlocking(t)
             /\ IsAttackable(t)' <=> IsAttackable(t)
             /\ NextTo(e, t)' <=> NextTo(e, t)
             /\ CreationOrder(t)' = CreationOrder(t)
  BY <1>1 DEF IsAlive, IsBlocking, IsAttackable, Exists, Recipe, NextTo, CreationOrder
<1>3. Reach(e, r)' = Reach(e, r)
  BY <1>1 DEF Reach, Recipe
<1>4. \A t : EffectiveDistance(e, t)' = EffectiveDistance(e, t)
  BY <1>1, <1>2 DEF EffectiveDistance
<1>5. \A t : Selects(e, r, t)' <=> Selects(e, r, t)
  BY <1>1, <1>2, <1>3, <1>4 DEF Selects
<1>6. Targets(e, r)' = Targets(e, r)
  BY <1>1, <1>2, <1>5 DEF Targets
<1>7. Picks(e, r)' = Picks(e, r)
  BY <1>2, <1>6 DEF Picks
<1> QED BY <1>6, <1>7

LEMMA SameEffects ==
  ASSUME UNCHANGED world, NEW e, NEW r
  PROVE  /\ \A picked : Hurt(e, r, picked)' = Hurt(e, r, picked)
         /\ \A picked : Healed(e, r, picked)' = Healed(e, r, picked)
         /\ Moves(e, r)' = Moves(e, r)
<1>1. UNCHANGED << mapReady, active, unit, pos, hp, march, occ >>
  BY DEF world
<1>2. \A t : IsAttackable(t)' <=> IsAttackable(t)
  BY <1>1 DEF IsAttackable, Exists, Recipe
<1>3. Amount(e, r)' = Amount(e, r)
  BY <1>1 DEF Amount, Recipe
<1>4. \A picked : /\ Hurt(e, r, picked)' = Hurt(e, r, picked)
                  /\ Healed(e, r, picked)' = Healed(e, r, picked)
  BY <1>1, <1>2, <1>3 DEF Hurt, Healed, Exists
<1>5. Standable(e)' = Standable(e)
  BY <1>1 DEF Standable, CanEnterCell, IsBlocking, Exists, Recipe
<1>6. \A from : StepPool(e, from)' = StepPool(e, from)
  BY <1>1, <1>5 DEF StepPool
<1>7. \A n, from : StepFrom(e, n, from)' = StepFrom(e, n, from)
  BY <1>1, <1>6 DEF StepFrom
<1>8. WalkEnds(e, Strides(r))' = WalkEnds(e, Strides(r))
  BY <1>1, <1>5, <1>7 DEF WalkEnds
<1>9. CanMarch(e)' <=> CanMarch(e)
  BY <1>1 DEF CanMarch, Exists, Recipe, IsBlocking
<1> QED
  BY <1>1, <1>4, <1>8, <1>9 DEF Moves

\* What a picker returns is some of the targets, and somebody if there are any.
LEMMA PicksAreTargets ==
  ASSUME TypeOK, NEW e, NEW r \in RuleType, NEW picked \in Picks(e, r)
  PROVE  /\ picked \subseteq Targets(e, r)
         /\ Targets(e, r) # {} /\ r.picker # "core.none" => picked # {}
<1> DEFINE T == Targets(e, r)
           Oldest == {t \in T : \A u \in T : CreationOrder(t) <= CreationOrder(u)}
<1>1. r.picker \in {"core.none", "core.any", "core.all", "core.random-one"}
  BY DEF RuleType, Pickers
<1>2. ASSUME T # {} PROVE Oldest # {}
  <2>1. \A t \in T : CreationOrder(t) \in Nat
    <3> SUFFICES ASSUME NEW t \in T PROVE CreationOrder(t) \in Nat
      OBVIOUS
    <3>1. t \in active
      BY DEF Targets
    <3>2. \E i \in 1..Len(order) : order[i] = t
      BY <3>1 DEF TypeOK, Created
    <3> QED BY <3>2 DEF CreationOrder
  <2> DEFINE Places == {CreationOrder(t) : t \in T}
  <2>2. Places \in SUBSET Nat /\ Places # {}
    BY <1>2, <2>1
  <2>3. \E m \in Places : \A k \in Places : m <= k
    <3> HIDE DEF Places
    <3> QED BY <2>2, LeastElement
  <2> QED BY <2>3
<1>3. /\ r.picker = "core.none" => picked = {}
      /\ r.picker = "core.all" => picked = T
      /\ r.picker = "core.any" => picked = Oldest
      /\ r.picker = "core.random-one" => IF T = {} THEN picked = {} ELSE \E t \in T : picked = {t}
  BY DEF Picks
<1> HIDE DEF T
<1>4. picked \subseteq T /\ (T # {} /\ r.picker # "core.none" => picked # {})
  BY <1>1, <1>2, <1>3
<1> QED BY <1>4 DEF T

-----------------------------------------------------------------------------
\* A turn goes on to its next rule only where a rule failed; every other step
\* that is part of a turn starts over or leaves it.
LEMMA HowATurnGoesOn ==
  ASSUME TypeOK, [Next]_vars
  PROVE  \/ rule' \in {0, 1}
         \/ UNCHANGED << world, engine, inTick >>
         \/ RuleFails /\ rule' = rule + 1 /\ UNCHANGED << turn, budget >>
<1>1. CASE phase # "Tick" \/ BetweenTurns \/ EndTick
  <2>1. rule = 0
    BY <1>1 DEF TypeOK, InTurn, BetweenTurns, EndTick
  <2>2. ~RuleFails /\ ~Fires
    BY <2>1 DEF RuleFails, Fires, InTurn
  <2>3. UNCHANGED rule \/ BeginTurn
    BY <2>2 DEF Next, Commands, CreateMap, Spawn, March, ParserThrows, Run, EngineStep, Turns,
                Startup, BeforeTick, EndTick, AfterTick, Cleanup, Shutdown, SkipTurn, Strike,
                Explode, DestroySelf, Heal, Move, SetActionState, Exited, vars, inTick
  <2> QED BY <2>1, <2>3 DEF BeginTurn
<1>2. CASE RuleFails
  BY <1>2 DEF RuleFails, LeaveTurn
<1>3. CASE Strike \/ Heal \/ Move \/ SetActionState
  <2>1. Pay
    BY <1>3 DEF Strike, Heal, Move, SetActionState
  <2> QED BY <2>1 DEF Pay, LeaveTurn
<1>4. CASE Explode \/ DestroySelf
  <2>1. PayAndVanish
    BY <1>4 DEF Explode, DestroySelf
  <2> QED BY <2>1 DEF PayAndVanish, LeaveTurn
<1>5. CASE UNCHANGED vars
  BY <1>5 DEF vars
<1> QED
  BY <1>1, <1>2, <1>3, <1>4, <1>5
     DEF Next, Commands, CreateMap, Spawn, March, ParserThrows, Run, EngineStep, Turns, Startup,
         BeforeTick, AfterTick, Cleanup, Shutdown, BeginTurn, SkipTurn, Exited

-----------------------------------------------------------------------------
(* Fighting before marching.                                               *)

IsMelee(r) == r.selector = "battle.adjacent-blocking" /\ r.effect = "battle.damage"

\* What Battle's classic recipes do, and a JSON archetype need not: whoever can
\* march has its blows before the march, unconditional, and no dearer.
FightsFirst(recipe) ==
  \A i, j \in 1..Len(recipe.rules) :
    LET fight == recipe.rules[i]
        move  == recipe.rules[j]
    IN  IsMelee(fight) /\ move.effect = "battle.move" =>
          /\ fight.priority > move.priority
          /\ fight.condition = "core.always" /\ fight.picker # "core.none"
          /\ 0 < fight.cost /\ fight.cost <= move.cost

\* r would strike whomever it picked.
Strikes(e, r) == Targets(e, r) # {} /\ \A t \in Targets(e, r) : t \in Hurt(e, r, {t})

\* An unconditional blow the budget still pays for.
Ready(r) ==
  /\ IsMelee(r) /\ r.condition = "core.always" /\ r.picker # "core.none"
  /\ 0 < r.cost /\ r.cost <= budget

LEMMA SameStrikes ==
  ASSUME UNCHANGED world, NEW e, NEW r, Strikes(e, r)'
  PROVE  Strikes(e, r)
<1>1. Targets(e, r)' = Targets(e, r) /\ \A t : Hurt(e, r, {t})' = Hurt(e, r, {t})
  BY SameTargets, SameEffects
<1> QED BY <1>1 DEF Strikes

\* A blow that was tried in vain has nobody to strike, as long as the turn goes on
\* to the rules after it.
BlowsTriedInVain ==
  \A e \in Id, n \in Nat, r \in RuleType :
    rule # 0 /\ e = Actor /\ n \in 1..(rule - 1) /\ r = RulesOf(e)[n] /\ Ready(r)
      => ~Strikes(e, r)

LEMMA BlowsInVainStep ==
  ASSUME TypeOK, BlowsTriedInVain, [Next]_vars
  PROVE  BlowsTriedInVain'
<1>1. CASE rule' \in {0, 1}
  <2>1. CASE rule' = 0
    BY <2>1 DEF BlowsTriedInVain
  <2>2. CASE rule' = 1
    <3>1. \A n \in Nat : n \notin 1..(1 - 1)
      OBVIOUS
    <3> QED BY <2>2, <3>1 DEF BlowsTriedInVain
  <2> QED BY <1>1, <2>1, <2>2
<1>2. CASE UNCHANGED << world, engine, inTick >>
  <2>0. UNCHANGED << world, unit, order, turn, rule, budget >>
    BY <1>2 DEF world, inTick
  <2> SUFFICES ASSUME NEW e \in Id, NEW n \in Nat, NEW r \in RuleType,
                      rule # 0, e = Actor, n \in 1..(rule - 1),
                      (r = RulesOf(e)[n])', Ready(r)', Strikes(e, r)'
               PROVE  FALSE
    BY <2>0 DEF BlowsTriedInVain, Actor
  <2>1. r = RulesOf(e)[n]
    BY <2>0 DEF RulesOf
  <2>2. Ready(r) /\ Strikes(e, r)
    BY <2>0, SameStrikes DEF Ready
  <2> QED
    BY <2>0, <2>1, <2>2 DEF BlowsTriedInVain
<1>3. CASE RuleFails /\ rule' = rule + 1 /\ UNCHANGED << turn, budget >>
  <2>0. UNCHANGED << world, unit, order, turn, budget >> /\ rule \in Nat
    BY <1>3 DEF RuleFails, TypeOK, world
  <2> SUFFICES ASSUME NEW e \in Id, NEW n \in Nat, NEW r \in RuleType,
                      e = Actor, n \in 1..rule, (r = RulesOf(e)[n])', Ready(r)', Strikes(e, r)'
               PROVE  FALSE
    BY <1>3, <2>0 DEF BlowsTriedInVain, Actor
  <2>1. r = RulesOf(e)[n]
    BY <2>0 DEF RulesOf
  <2>2. Ready(r) /\ Strikes(e, r)
    BY <2>0, SameStrikes DEF Ready
  <2>3. n = rule /\ r = Rule
    BY <1>3, <2>0, <2>1, <2>2 DEF BlowsTriedInVain, Rule, RuleFails, InTurn
  <2>4. Rule \in RuleType /\ ConditionHolds(e, Rule) /\ Affordable
    BY <1>3, <2>2, <2>3, InItsTurn DEF Ready, ConditionHolds, Affordable, RuleFails
  <2>5. PICK picked \in Picks(e, Rule) : ~Admits(Rule, picked) \/ NothingApplied(e, Rule, picked)
    BY <1>3, <2>4 DEF RuleFails
  <2>6. picked # {} /\ picked \subseteq Targets(e, Rule)
    BY <2>2, <2>3, <2>4, PicksAreTargets DEF Ready, Strikes
  <2>7. Hurt(e, Rule, picked) # {}
    BY <2>2, <2>3, <2>6 DEF Strikes, Hurt
  <2>8. Rule.effect = "battle.damage"
    BY <2>2, <2>3 DEF Ready, IsMelee
  <2> QED
    BY <2>5, <2>6, <2>7, <2>8 DEF Admits, NothingApplied
<1> QED
  BY <1>1, <1>2, <1>3, HowATurnGoesOn

\* A unit that can strike somebody beside it never walks away from him, wherever
\* in its recipe the rules stand: by the time a march is tried, every blow with a
\* higher priority was, and in this very world.
THEOREM FightsComeFirst ==
  ASSUME \A k \in Kinds : FightsFirst(Recipes[k])
  PROVE  Spec => FightsBeforeMarching
<1> DEFINE Settled ==
      \A e \in active \cap active' : pos'[e] # pos[e] => ~CanStrikeBeside(e)
<1>1. Init => BlowsTriedInVain
  BY DEF Init, BlowsTriedInVain
<1>2. TypeOK /\ BlowsTriedInVain /\ [Next]_vars => BlowsTriedInVain'
  BY BlowsInVainStep
<1>3. TypeOK /\ BlowsTriedInVain /\ [Next]_vars => [Settled]_vars
  <2> SUFFICES ASSUME TypeOK, BlowsTriedInVain, [Next]_vars,
                      NEW e \in active, e \in active', pos'[e] # pos[e], CanStrikeBeside(e)
               PROVE  FALSE
    OBVIOUS
  <2>1. Move /\ InTurn /\ Actor = e /\ Rule.effect = "battle.move"
    BY OnlyMovesTravel
  <2>2. /\ e \in Id /\ unit[e] \in Kinds /\ rule \in 1..Len(RulesOf(e))
        /\ Rule = RulesOf(e)[rule] /\ Rule.cost <= budget
    BY <2>1, InItsTurn DEF Rule, Move, Fires, Affordable
  <2>3. PICK n \in 1..Len(RulesOf(e)) :
          /\ IsMelee(RulesOf(e)[n])
          /\ Targets(e, RulesOf(e)[n]) # {}
          /\ Targets(e, RulesOf(e)[n])
               = Hurt(e, RulesOf(e)[n], Targets(e, RulesOf(e)[n]))
    BY DEF CanStrikeBeside, IsMelee
  <2> DEFINE r == RulesOf(e)[n]
  <2>4. r \in RuleType
    BY <2>2, RulesTried DEF RulesOf
  <2>5. Strikes(e, r)
    BY <2>3 DEF Strikes, Hurt
  <2>6. /\ r.priority > Rule.priority
        /\ r.condition = "core.always" /\ r.picker # "core.none"
        /\ 0 < r.cost /\ r.cost <= Rule.cost
    <3>1. /\ \E i \in 1..Len(Recipes[unit[e]].rules) : r = Recipes[unit[e]].rules[i]
          /\ \E j \in 1..Len(Recipes[unit[e]].rules) : Rule = Recipes[unit[e]].rules[j]
      BY <2>2, RulesTried DEF RulesOf
    <3> QED BY <2>1, <2>2, <2>3, <3>1 DEF FightsFirst
  <2>7. n < rule
    <3>1. /\ Recipes[unit[e]].rules \in Seq(RuleType)
          /\ RulesOf(e) = Ordered(Recipes[unit[e]].rules)
          /\ Len(RulesOf(e)) = Len(Recipes[unit[e]].rules)
      BY <2>2, RecipeFields, RulesTried DEF RulesOf, OrderedRules
    <3>2. rule < n => Rule.priority >= r.priority
      BY <2>2, <3>1, OrderedIsSorted
    <3>3. r.priority \in Int /\ Rule.priority \in Int
      BY <2>1, <2>4, InItsTurn DEF RuleType
    <3> QED BY <2>2, <2>6, <3>2, <3>3
  <2>8. Ready(r)
    <3>1. r.cost \in Int /\ Rule.cost \in Int /\ budget \in Int
      BY <2>1, <2>4, RuleFields, InItsTurn DEF TypeOK
    <3> QED BY <2>2, <2>3, <2>6, <3>1 DEF Ready
  <2> QED
    BY <2>1, <2>2, <2>4, <2>5, <2>7, <2>8 DEF BlowsTriedInVain, InTurn
<1> QED
  BY <1>1, <1>2, <1>3, TypeCorrect, PTL DEF Spec, FightsBeforeMarching

-----------------------------------------------------------------------------
(* A tick in which nothing was done.                                       *)

\* Whether a rule applies does not hang on the draw: a blow can hurt whomever it
\* can pick, and a march of several steps does not block its cell, so that it
\* cannot come back to it.  The classic recipes are of this kind.
DrawsAlike(recipe) ==
  /\ recipe.blocks => recipe.attackable
  /\ \A i \in 1..Len(recipe.rules) :
       LET r == recipe.rules[i] IN
         /\ r.effect = "battle.damage" =>
              \/ r.attackableOnly
              \/ r.selector \in {"battle.adjacent-blocking", "battle.physical-radius"}
         /\ r.effect = "battle.move" => r.step <= 1 \/ ~recipe.blocks

DrawsAreEqual == \A k \in Kinds : DrawsAlike(Recipes[k])

\* Some draw would let r apply, in a turn whose points are all left.
CouldWork(e, r) ==
  /\ r.cost > 0 /\ r.cost <= Recipe(e).points
  /\ ConditionHolds(e, r)
  /\ \E picked \in Picks(e, r) : Admits(r, picked) /\ CouldApply(e, r, picked)

\* A unit that may stay where it is has nowhere to go.
LEMMA NoMoveToDraw ==
  ASSUME TypeOK, MarchIsPending, NEW e \in active, NEW r \in RuleType,
         r.step <= 1 \/ ~IsBlocking(e), MoveMayFail(e, r)
  PROVE  Moves(e, r) = {}
<1>0. Strides(r) \in Nat /\ (Strides(r) # 0 => Strides(r) = r.step)
  BY StridesAreCounted
<1>1. CASE ~CanMarch(e) \/ Strides(r) = 0
  BY <1>1, NoStepNoWalk DEF Moves
<1>2. CASE CanMarch(e) /\ Strides(r) # 0 /\ ~IsBlocking(e)
  <2>1. pos[e] \in WalkEnds(e, Strides(r)) /\ march[e] # None
    BY <1>2 DEF MoveMayFail, CanMarch
  <2>2. Distance(pos[e], march[e]) < Distance(pos[e], march[e])
    BY <1>0, <1>2, <2>1, FlightEndsCloser
  <2>3. pos[e] \in Point /\ march[e] \in Point
    BY <2>1, ExistingEntity, CellsArePoints DEF TypeOK
  <2> QED BY <2>2, <2>3, DistanceIsANumber
<1>3. CASE CanMarch(e) /\ Strides(r) = 1
  <2>1. pos[e] \in WalkEnds(e, 1)
    BY <1>3 DEF MoveMayFail
  <2>2. \A to \in WalkEnds(e, 1) : to \in StepFrom(e, 1, pos[e])
    BY DEF WalkEnds
  <2>3. pos[e] \notin StepPool(e, pos[e])
    BY DEF StepPool, Neighbors8, Closer
  <2>4. StepFrom(e, 1, pos[e]) = {pos[e]}
    BY <2>1, <2>2, <2>3 DEF StepFrom
  <2> QED BY <1>3, <2>2, <2>4 DEF Moves
<1> QED BY <1>0, <1>1, <1>2, <1>3

\* A rule that failed for what was drawn would have failed for any draw.
LEMMA NoLuckyDraw ==
  ASSUME TypeOK, MarchIsPending, DrawsAreEqual,
         NEW e \in active, NEW n \in 1..Len(RulesOf(e)), NEW r, r = RulesOf(e)[n],
         NEW picked \in Picks(e, r), ~Admits(r, picked) \/ NothingApplied(e, r, picked)
  PROVE  ~CouldWork(e, r)
<1>0. /\ unit[e] \in Kinds /\ r \in RuleType
      /\ \E i \in 1..Len(Recipes[unit[e]].rules) : r = Recipes[unit[e]].rules[i]
  BY ExistingEntity, RulesTried DEF RulesOf
<1> SUFFICES ASSUME NEW q \in Picks(e, r), Admits(r, q), CouldApply(e, r, q)
             PROVE  FALSE
  BY DEF CouldWork
<1>1. /\ picked \subseteq Targets(e, r) /\ q \subseteq Targets(e, r)
      /\ q # {} => picked # {}
  <2>1. r.picker = "core.none" => q = {}
    BY DEF Picks
  <2> QED BY <1>0, <2>1, PicksAreTargets
<1>2. Admits(r, picked)
  BY <1>1 DEF Admits
<1>3. NothingApplied(e, r, picked)
  BY <1>2
<1>4. /\ r.after = "core.none"
      /\ r.effect \in {"battle.damage", "battle.heal", "battle.move"}
      /\ r.effect = "battle.damage" => Hurt(e, r, picked) = {} /\ Hurt(e, r, q) # {}
      /\ r.effect = "battle.heal" => Healed(e, r, picked) = {} /\ Healed(e, r, q) # {}
      /\ r.effect = "battle.move" => MoveMayFail(e, r) /\ Moves(e, r) # {}
  BY <1>3 DEF NothingApplied, CouldApply
<1>5. \A t \in picked : Exists(t) /\ hp[t] > 0
  BY <1>1 DEF Targets, IsAlive
<1>6. CASE r.effect = "battle.heal"
  BY <1>1, <1>4, <1>5, <1>6 DEF Healed
<1>7. CASE r.effect = "battle.damage"
  <2>1. \A t \in picked : r.selector # "battle.physical-radius" => IsAttackable(t)
    <3> SUFFICES ASSUME NEW t \in picked, r.selector # "battle.physical-radius"
                 PROVE  IsAttackable(t)
      OBVIOUS
    <3>1. t \in active /\ unit[t] \in Kinds /\ Selects(e, r, t) /\ (r.attackableOnly => IsAttackable(t))
      BY <1>1, ExistingEntity DEF Targets
    <3>2. r.attackableOnly \/ r.selector = "battle.adjacent-blocking"
      BY <1>0, <1>7 DEF DrawsAreEqual, DrawsAlike
    <3>3. r.selector = "battle.adjacent-blocking" => IsBlocking(t)
      BY <3>1 DEF Selects
    <3> QED
      BY <3>1, <3>2, <3>3 DEF DrawsAreEqual, DrawsAlike, IsBlocking, IsAttackable, Exists, Recipe
  <2> QED
    BY <1>1, <1>4, <1>5, <1>7, <2>1 DEF Hurt
<1>8. CASE r.effect = "battle.move"
  <2>1. r.step <= 1 \/ ~IsBlocking(e)
    BY <1>0, <1>8 DEF DrawsAreEqual, DrawsAlike, IsBlocking, Recipe
  <2> QED BY <1>0, <1>4, <1>8, <2>1, NoMoveToDraw
<1> QED BY <1>4, <1>6, <1>7, <1>8

\* Nothing e could do would come to anything.
Idle(e) ==
  \A n \in Nat, r \in RuleType :
    n \in 1..Len(RulesOf(e)) /\ r = RulesOf(e)[n] => ~CouldWork(e, r)

LEMMA SameCouldWork ==
  ASSUME UNCHANGED world, NEW e, NEW r
  PROVE  CouldWork(e, r)' <=> CouldWork(e, r)
<1>1. UNCHANGED << active, unit, pos, march, armed >>
  BY DEF world
<1>2. \A t : (IsBlocking(t)' <=> IsBlocking(t)) /\ (NextTo(e, t)' <=> NextTo(e, t))
  BY <1>1 DEF IsBlocking, Exists, Recipe, NextTo
<1>3. NoAdjacentBlocking(e)' <=> NoAdjacentBlocking(e)
  BY <1>1, <1>2 DEF NoAdjacentBlocking
<1>4. ConditionHolds(e, r)' <=> ConditionHolds(e, r)
  BY <1>1, <1>3 DEF ConditionHolds
<1>5. Recipe(e)' = Recipe(e) /\ Picks(e, r)' = Picks(e, r)
  BY <1>1, SameTargets DEF Recipe
<1>6. \A picked : CouldApply(e, r, picked)' <=> CouldApply(e, r, picked)
  BY SameEffects DEF CouldApply
<1> QED
  BY <1>4, <1>5, <1>6 DEF CouldWork, Admits

LEMMA SameIdle ==
  ASSUME UNCHANGED world, NEW e
  PROVE  Idle(e)' <=> Idle(e)
<1>1. RulesOf(e)' = RulesOf(e)
  BY DEF RulesOf, world
<1> QED BY <1>1, SameCouldWork DEF Idle

LEMMA IdleCannotAct ==
  ASSUME TypeOK, NEW e \in active, Idle(e)
  PROVE  ~CouldAct(e)
<1>1. \A n \in 1..Len(RulesOf(e)) : n \in Nat /\ RulesOf(e)[n] \in RuleType
  BY ExistingEntity, RulesTried DEF RulesOf
<1>2. \A n \in 1..Len(RulesOf(e)) : ~CouldWork(e, RulesOf(e)[n])
  BY <1>1 DEF Idle
<1> QED BY <1>2 DEF CouldAct, CouldWork

\* As long as a tick has done nothing, nobody is dead, whoever had its turn is
\* idle, and so are the rules the turn in progress has tried; and a battle that
\* stopped while it could have gone on stopped after such a tick.
QuietTick ==
  /\ phase \in {"Tick", "AfterTick"} /\ ~acted => \A e \in active : hp[e] > 0
  /\ phase = "Tick" /\ ~acted =>
       \A e \in Id, i \in Nat :
         i \in 1..(turn - 1) /\ order[i] = e /\ e \in active => Idle(e)
  /\ phase = "Tick" /\ ~acted /\ rule # 0 =>
       \A e \in Id, n \in Nat, r \in RuleType :
         e = Actor => /\ budget = Recipe(e).points
                      /\ n \in 1..(rule - 1) /\ r = RulesOf(e)[n] => ~CouldWork(e, r)
  /\ phase = "AfterTick" /\ ~acted => \A e \in Id : e \in active => Idle(e)
  /\ phase \in {"Shutdown", "done"} /\ stop /\ CanContinue =>
       \A e \in Id : e \in active => Idle(e)

\* A rule tried in vain could not have worked in this tick.
LEMMA FailuresAreFinal ==
  ASSUME TypeOK, MarchIsPending, DrawsAreEqual, RuleFails, budget = Recipe(Actor).points
  PROVE  ~CouldWork(Actor, Rule)
<1>1. /\ Actor \in active /\ rule \in 1..Len(RulesOf(Actor)) /\ Rule = RulesOf(Actor)[rule]
      /\ Rule.cost \in Int
  BY InItsTurn DEF RuleFails, Rule
<1>2. CASE ~Affordable \/ ~ConditionHolds(Actor, Rule)
  BY <1>1, <1>2 DEF CouldWork, Affordable
<1>3. CASE \E picked \in Picks(Actor, Rule) :
             ~Admits(Rule, picked) \/ NothingApplied(Actor, Rule, picked)
  BY <1>1, <1>3, NoLuckyDraw
<1> QED BY <1>2, <1>3 DEF RuleFails

\* So does a turn that is left after its last rule failed.
LEMMA QuietTurnStep ==
  ASSUME TypeOK, MarchIsPending, DrawsAreEqual, QuietTick, ~acted,
         BeginTurn \/ SkipTurn \/ RuleFails
  PROVE  QuietTick'
<1>0. /\ UNCHANGED << world, unit, active, order, hp, phase, acted >> /\ phase = "Tick"
      /\ turn \in Nat /\ turn # 0 /\ rule \in Nat
  BY DEF BeginTurn, SkipTurn, RuleFails, BetweenTurns, InTurn, TypeOK, world, engine
<1>1. /\ \A e : Idle(e)' <=> Idle(e)
      /\ \A e, r : CouldWork(e, r)' <=> CouldWork(e, r)
      /\ \A e : RulesOf(e)' = RulesOf(e) /\ Recipe(e)' = Recipe(e)
  BY <1>0, SameIdle, SameCouldWork DEF RulesOf, Recipe
<1>2. /\ \A e \in active : hp[e] > 0
      /\ \A e \in Id, i \in Nat : i \in 1..(turn - 1) /\ order[i] = e /\ e \in active => Idle(e)
  BY <1>0 DEF QuietTick
<1>3. CASE BeginTurn
  <2>1. turn' = turn /\ rule' = 1 /\ budget' = Recipe(Actor).points /\ Actor' = Actor
    BY <1>0, <1>3 DEF BeginTurn, Actor
  <2>2. \A e \in Id : (e = Actor)' => (budget = Recipe(e).points)'
    BY <1>1, <2>1
  <2>3. \A n \in Nat : n \notin 1..(1 - 1)
    OBVIOUS
  <2> QED BY <1>0, <1>1, <1>2, <2>1, <2>2, <2>3 DEF QuietTick
<1>4. ASSUME turn' = turn + 1, rule' = 0,
             \A e \in Id : e = Actor /\ e \in active => Idle(e)
      PROVE  QuietTick'
  <2>1. \A i \in Nat : i \in 1..(turn' - 1) => i = turn \/ i \in 1..(turn - 1)
    BY <1>0, <1>4
  <2>2. \A e \in Id, i \in Nat : i \in 1..(turn' - 1) /\ order[i] = e /\ e \in active => Idle(e)
    BY <1>2, <1>4, <2>1 DEF Actor
  <2> QED BY <1>0, <1>1, <1>2, <1>4, <2>2 DEF QuietTick
<1>5. CASE SkipTurn
  <2>1. turn' = turn + 1 /\ rule' = 0
    BY <1>5 DEF SkipTurn, BetweenTurns
  <2>2. ASSUME NEW e \in Id, e = Actor, e \in active PROVE Idle(e)
    <3>1. ~(Recipe(e).points > 0) \/ Recipe(e).rules = << >>
      BY <1>5, <2>2 DEF SkipTurn, HasTurn, CanActThisTurn, Exists
    <3>2. unit[e] \in Kinds /\ Recipe(e).points \in Int
      BY <2>2, ExistingEntity, RecipeFields DEF Recipe
    <3>3. Recipe(e).rules = << >> => Len(RulesOf(e)) = 0
      BY <3>2, RulesTried DEF RulesOf, Recipe
    <3>4. \A r \in RuleType : r.cost \in Int
      BY RuleFields
    <3> QED BY <3>1, <3>2, <3>3, <3>4 DEF Idle, CouldWork
  <2> QED BY <1>4, <2>1, <2>2
<1>6. CASE RuleFails
  <2>1. /\ Actor \in Id /\ Actor \in active /\ unit[Actor] \in Kinds
        /\ rule \in 1..Len(RulesOf(Actor)) /\ rule # 0 /\ Rule = RulesOf(Actor)[rule]
        /\ Rule \in RuleType
    BY <1>6, InItsTurn DEF RuleFails, Rule, InTurn
  <2>2. /\ budget = Recipe(Actor).points
        /\ \A n \in Nat, r \in RuleType :
             n \in 1..(rule - 1) /\ r = RulesOf(Actor)[n] => ~CouldWork(Actor, r)
    BY <1>0, <2>1 DEF QuietTick
  <2>3. ~CouldWork(Actor, Rule)
    BY <1>6, <2>2, FailuresAreFinal
  <2>4. \A n \in Nat, r \in RuleType :
          n \in 1..rule /\ r = RulesOf(Actor)[n] => ~CouldWork(Actor, r)
    <3>1. \A n \in Nat : n \in 1..rule => n = rule \/ n \in 1..(rule - 1)
      BY <1>0
    <3> QED BY <2>1, <2>2, <2>3, <3>1
  <2>5. CASE rule < Len(RulesOf(Actor))
    <3>1. /\ rule' = rule + 1 /\ rule' - 1 = rule /\ turn' = turn /\ budget' = budget
          /\ Actor' = Actor
      BY <1>0, <1>6, <2>5 DEF RuleFails, Actor
    <3> QED BY <1>0, <1>1, <1>2, <2>2, <2>4, <3>1 DEF QuietTick
  <2>6. CASE ~(rule < Len(RulesOf(Actor)))
    <3>1. turn' = turn + 1 /\ rule' = 0
      BY <1>6, <2>6 DEF RuleFails, LeaveTurn
    <3>2. Len(RulesOf(Actor)) = rule
      BY <1>0, <2>1, <2>6, RulesTried DEF RulesOf
    <3>3. Idle(Actor)
      BY <2>4, <3>2 DEF Idle
    <3> QED BY <1>4, <3>1, <3>3
  <2> QED BY <2>5, <2>6
<1> QED BY <1>3, <1>5, <1>6

LEMMA QuietTickStep ==
  ASSUME TypeOK, MarchIsPending, LoopFacts, AllAliveOutsideTicks, DrawsAreEqual,
         QuietTick, [Next]_vars
  PROVE  QuietTick'
<1>0. turn \in Nat /\ (phase # "Tick" => rule = 0) /\ active \subseteq Id
  BY ExistingEntity DEF TypeOK, InTurn
<1>1. CASE Commands \/ Startup \/ Cleanup
  <2>1. CASE Commands
    <3>1. phase' \in {"commands", "aborted", "Startup"}
      BY <2>1 DEF Commands, CreateMap, Spawn, March, ParserThrows, Run, engine
    <3> QED BY <3>1 DEF QuietTick
  <2>2. CASE Startup \/ Cleanup
    <3>1. phase' \in {"BeforeTick", "Shutdown"} /\ ~stop'
      BY <2>2 DEF Startup, Cleanup, LoopHead, LoopFacts
    <3> QED BY <3>1 DEF QuietTick
  <2> QED BY <1>1, <2>1, <2>2
<1>2. CASE BeforeTick
  <2>1. UNCHANGED << world, active, hp, mapReady >> /\ rule' = 0
    BY <1>0, <1>2 DEF BeforeTick, world
  <2>2. CASE CanContinue
    <3>1. phase' = "Tick" /\ turn' = 1
      BY <1>2, <2>2 DEF BeforeTick
    <3>2. \A e \in active : hp[e] > 0
      BY <1>2 DEF BeforeTick, AllAliveOutsideTicks
    <3>3. \A i \in Nat : i \notin 1..(1 - 1)
      OBVIOUS
    <3> QED BY <2>1, <3>1, <3>2, <3>3 DEF QuietTick
  <2>3. CASE ~CanContinue
    <3>1. phase' = "Shutdown" /\ ~CanContinue'
      BY <1>2, <2>1, <2>3 DEF BeforeTick, CanContinue, HasEnoughActiveEntities
    <3> QED BY <3>1 DEF QuietTick
  <2> QED BY <2>2, <2>3
<1>3. CASE EndTick
  <2>1. /\ phase = "Tick" /\ phase' = "AfterTick" /\ turn > Len(order)
        /\ UNCHANGED << world, active, hp, acted >>
    BY <1>3 DEF EndTick, world
  <2>2. \A e \in Id : Idle(e)' <=> Idle(e)
    BY <2>1, SameIdle
  <2>3. ASSUME ~acted, NEW e \in Id, e \in active PROVE Idle(e)
    <3>1. Len(order) \in Nat
      BY DEF TypeOK
    <3>2. PICK i \in 1..Len(order) : order[i] = e
      BY <2>3 DEF TypeOK, Created
    <3>3. i \in Nat /\ i \in 1..(turn - 1)
      BY <1>0, <2>1, <3>1, <3>2
    <3> QED BY <2>1, <2>3, <3>2, <3>3 DEF QuietTick
  <2> QED BY <2>1, <2>2, <2>3 DEF QuietTick
<1>4. CASE AfterTick
  <2>1. CASE acted
    BY <1>4, <2>1 DEF AfterTick, ShouldStopAfterNoActions, LoopFacts, QuietTick
  <2>2. CASE ~acted
    <3>1. phase = "AfterTick" /\ phase' = "Shutdown"
      BY <1>4, <2>2 DEF AfterTick, ShouldStopAfterNoActions
    <3>2. (\A e \in active : hp[e] > 0) /\ \A e \in Id : e \in active => Idle(e)
      BY <2>2, <3>1 DEF QuietTick
    <3>3. Dead = {}
      BY <3>2 DEF Dead, IsAlive, Exists
    <3>4. Remove({}, hp) /\ alive' = alive /\ UNCHANGED << mapReady, order >>
      BY <1>4, <3>3 DEF AfterTick
    <3>5. UNCHANGED world
      <4>1. /\ unit' = [e \in Id |-> unit[e]] /\ pos' = [e \in Id |-> pos[e]]
            /\ hp' = [e \in Id |-> hp[e]] /\ march' = [e \in Id |-> march[e]]
            /\ active' = active /\ armed' = armed /\ occ' = [c \in Cells |-> occ[c]]
        BY <3>4 DEF Remove, Erased, Vacated
      <4>2. /\ unit = [e \in Id |-> unit[e]] /\ pos = [e \in Id |-> pos[e]]
            /\ hp = [e \in Id |-> hp[e]] /\ march = [e \in Id |-> march[e]]
            /\ occ = [c \in Cells |-> occ[c]]
        BY DEF TypeOK
      <4> QED BY <3>4, <4>1, <4>2 DEF world
    <3>6. \A e \in Id : Idle(e)' <=> Idle(e)
      BY <3>5, SameIdle
    <3>7. active' = active
      BY <3>5 DEF world
    <3> QED BY <3>1, <3>2, <3>6, <3>7 DEF QuietTick
  <2> QED BY <2>1, <2>2
<1>5. CASE Shutdown \/ Exited \/ UNCHANGED vars
  <2>1. /\ UNCHANGED << world, active, order, unit, hp, mapReady, inTick, stop, acted, turn, rule, budget >>
        /\ \/ UNCHANGED phase
           \/ phase = "Shutdown" /\ phase' = "done"
    BY <1>5 DEF Shutdown, Exited, vars, world, engine, inTick
  <2>2. /\ \A e \in Id : Idle(e)' <=> Idle(e)
        /\ \A e \in Id, r \in RuleType : CouldWork(e, r)' <=> CouldWork(e, r)
        /\ \A e \in Id : RulesOf(e)' = RulesOf(e) /\ Recipe(e)' = Recipe(e)
    BY <2>1, SameIdle, SameCouldWork DEF RulesOf, Recipe
  <2>3. CanContinue' <=> CanContinue
    BY <2>1 DEF CanContinue, HasEnoughActiveEntities
  <2>4. Actor' = Actor
    BY <2>1 DEF Actor
  <2> QED BY <2>1, <2>2, <2>3, <2>4 DEF QuietTick
<1>6. CASE BeginTurn \/ SkipTurn \/ RuleFails
  <2>1. phase' = "Tick" /\ acted' = acted
    BY <1>6 DEF BeginTurn, SkipTurn, RuleFails, BetweenTurns, InTurn, engine
  <2> QED BY <1>6, <2>1, QuietTurnStep DEF QuietTick
<1>7. CASE Strike \/ Explode \/ DestroySelf \/ Heal \/ Move \/ SetActionState
  <2>1. phase' = "Tick" /\ acted'
    BY <1>7 DEF Strike, Explode, DestroySelf, Heal, Move, SetActionState, Fires, InTurn,
                engine, Pay, PayAndVanish
  <2> QED BY <2>1 DEF QuietTick
<1> QED
  BY <1>1, <1>2, <1>3, <1>4, <1>5, <1>6, <1>7 DEF Next, EngineStep, Turns

\* The no-action stop never cuts a battle short: nobody left could have done
\* anything in one more tick.  It hangs on DrawsAreEqual; without it a tick may be
\* quiet by bad luck.
THEOREM QuietBattleIsOver ==
  ASSUME DrawsAreEqual
  PROVE  Spec => []StoppedMeansStuck
<1>1. Init => LoopFacts /\ AllAliveOutsideTicks /\ QuietTick
  BY DEF Init, LoopFacts, AllAliveOutsideTicks, QuietTick
<1>2. (/\ TypeOK /\ MarchIsPending
       /\ LoopFacts /\ AllAliveOutsideTicks /\ QuietTick /\ [Next]_vars)
         => LoopFacts' /\ AllAliveOutsideTicks' /\ QuietTick'
  BY DrawsAreEqual, LoopFactsStep, CleanupStep, QuietTickStep
<1>3. TypeOK /\ QuietTick => StoppedMeansStuck
  BY IdleCannotAct, ExistingEntity DEF QuietTick, StoppedMeansStuck
<1> QED
  BY <1>1, <1>2, <1>3, TypeCorrect, MarchesStayPending, PTL DEF Spec

-----------------------------------------------------------------------------
(* The fuse of a mine.                                                     *)

Arms(r) == r.effect = "battle.set-action-state"

\* It destroys its entity once that is armed, whether or not anybody is near.
Burns(r) ==
  /\ r.condition = "battle.has-action-state" /\ r.stateKey # ""
  /\ r.after = "battle.destroy-self" /\ r.allowEmpty

\* What a recipe that can arm itself needs, and the mine's has: arming takes the
\* whole turn, and the rule that burns down is affordable and tried first.
Fused(recipe) ==
  (\E i \in 1..Len(recipe.rules) : Arms(recipe.rules[i])) =>
    /\ \A i \in 1..Len(recipe.rules) :
         Arms(recipe.rules[i]) => recipe.rules[i].cost >= recipe.points
    /\ \E b \in 1..Len(recipe.rules) :
         /\ Burns(recipe.rules[b])
         /\ 0 < recipe.rules[b].cost /\ recipe.rules[b].cost <= recipe.points
         /\ \A j \in 1..Len(recipe.rules) :
              j # b => recipe.rules[b].priority > recipe.rules[j].priority

CanArm(k) == \E i \in 1..Len(Recipes[k].rules) : Arms(Recipes[k].rules[i])

\* Sorting puts the rule that burns down in front.
LEMMA FuseIsTriedFirst ==
  ASSUME NEW k \in Kinds, Fused(Recipes[k]), CanArm(k)
  PROVE  /\ 1 \in 1..Len(OrderedRules[k])
         /\ Burns(OrderedRules[k][1])
         /\ 0 < OrderedRules[k][1].cost /\ OrderedRules[k][1].cost <= Recipes[k].points
<1> DEFINE rules == Recipes[k].rules
           sorted == Ordered(rules)
<1>1. rules \in Seq(RuleType) /\ OrderedRules[k] = sorted
  BY RecipeFields DEF OrderedRules
<1>2. PICK b \in 1..Len(rules) :
        /\ Burns(rules[b]) /\ 0 < rules[b].cost /\ rules[b].cost <= Recipes[k].points
        /\ \A j \in 1..Len(rules) : j # b => rules[b].priority > rules[j].priority
  BY DEF Fused, CanArm
<1>3. Len(rules) \in Nat /\ Len(sorted) = Len(rules) /\ 1 \in 1..Len(rules)
  BY <1>1, OrderedIsSorted
<1>4. PICK n \in 1..Len(rules) : sorted[n] = rules[b]
  BY <1>1, OrderedIsSorted
<1>5. PICK j \in 1..Len(rules) : sorted[1] = rules[j]
  BY <1>1, <1>3, OrderedIsSorted
<1>6. sorted[1] = rules[b]
  <2>1. CASE n = 1
    BY <1>4, <2>1
  <2>2. CASE n # 1
    <3>1. sorted[1].priority >= sorted[n].priority
      <4>1. 1 < n
        BY <1>3, <2>2
      <4> QED BY <1>1, <1>3, <4>1, OrderedIsSorted
    <3>2. rules[b].priority \in Int /\ rules[j].priority \in Int
      BY <1>1, PriorityIsANumber
    <3>3. ~(rules[b].priority > rules[j].priority)
      BY <1>4, <1>5, <3>1, <3>2
    <3> QED BY <1>2, <1>5, <3>3
  <2> QED BY <2>1, <2>2
<1> QED BY <1>1, <1>2, <1>3, <1>6

\* Whoever is armed can arm itself; it comes to its turn armed, and then with all
\* its points and at its first rule.
FuseIsLit ==
  /\ \A e \in Id : e \in armed => CanArm(unit[e])
  /\ \A e \in Id : rule # 0 /\ e = Actor => budget <= Recipe(e).points
  /\ \A e \in Id : rule # 0 /\ e = Actor /\ e \in armed
                     => rule = 1 /\ budget = Recipe(e).points

\* What an armed entity does in its turn is to explode.
LEMMA OnlyTheFuseBurns ==
  ASSUME TypeOK, FuseIsLit, \A k \in Kinds : Fused(Recipes[k]),
         InTurn, Actor \in armed
  PROVE  /\ ~RuleFails
         /\ Rule.effect = "battle.damage" /\ Rule.after = "battle.destroy-self"
<1>1. /\ Actor \in Id /\ unit[Actor] \in Kinds /\ CanArm(unit[Actor])
      /\ rule = 1 /\ budget = Recipes[unit[Actor]].points
  BY InItsTurn DEF FuseIsLit, InTurn, Recipe
<1>2. /\ Rule = OrderedRules[unit[Actor]][1]
      /\ Burns(Rule) /\ 0 < Rule.cost /\ Rule.cost <= budget
  BY <1>1, FuseIsTriedFirst DEF Rule, RulesOf
<1>3. Rule.cost \in Int
  BY InItsTurn
<1>4. Affordable /\ ConditionHolds(Actor, Rule) /\ Rule.after # "core.none" /\ Rule.allowEmpty
  BY <1>2, <1>3 DEF Affordable, ConditionHolds, Burns
<1>5. ~RuleFails
  BY <1>4 DEF RuleFails, Admits, NothingApplied
<1>6. \E i \in 1..Len(Recipes[unit[Actor]].rules) : Rule = Recipes[unit[Actor]].rules[i]
  BY <1>1, <1>2, FuseIsTriedFirst, RulesTried
<1> QED BY <1>1, <1>2, <1>5, <1>6, RecipeAssumption DEF Burns

LEMMA FuseStep ==
  ASSUME TypeOK, \A k \in Kinds : Fused(Recipes[k]), FuseIsLit, [Next]_vars
  PROVE  FuseIsLit'
<1>0. /\ armed \subseteq active /\ active \subseteq Id
      /\ phase # "Tick" => rule = 0
  BY ExistingEntity DEF TypeOK, InTurn
<1>1. CASE rule' = 0 /\ \A e \in armed' : e \in armed /\ unit'[e] = unit[e]
  BY <1>0, <1>1 DEF FuseIsLit, TypeOK
<1>2. CASE UNCHANGED << world, engine, inTick >>
  <2>1. UNCHANGED << armed, unit, order, turn, rule, budget >>
    BY <1>2 DEF world, inTick
  <2> QED BY <2>1 DEF FuseIsLit, Actor, Recipe
<1>3. CASE Commands
  <2>1. rule' = 0
    BY <1>0, <1>3 DEF Commands, CreateMap, Spawn, March, ParserThrows, Run, inTick
  <2>2. ASSUME NEW c \in SpawnCommands, Spawn(c)
        PROVE  armed' = armed /\ \A e \in armed : unit'[e] = unit[e]
    <3>1. c.id \notin active
      BY <2>2 DEF Spawn, TypeOK
    <3> QED BY <1>0, <2>2, <3>1 DEF Spawn, TypeOK
  <2>3. armed' = armed /\ \A e \in armed : unit'[e] = unit[e]
    BY <1>3, <2>2 DEF Commands, CreateMap, March, ParserThrows, Run, world
  <2> QED BY <1>1, <2>1, <2>3
<1>4. CASE Startup \/ BeforeTick \/ EndTick \/ Cleanup \/ Shutdown \/ SkipTurn
  <2>1. rule' = 0 /\ armed' = armed /\ unit' = unit
    BY <1>0, <1>4 DEF Startup, BeforeTick, EndTick, Cleanup, Shutdown, SkipTurn, BetweenTurns,
                      world, inTick
  <2> QED BY <1>1, <2>1
<1>5. CASE AfterTick \/ Explode \/ DestroySelf
  <2>1. PICK S, h : Remove(S, h)
    BY <1>5 DEF AfterTick, Explode, DestroySelf
  <2>2. rule' = 0
    BY <1>0, <1>5 DEF AfterTick, Explode, DestroySelf, PayAndVanish, LeaveTurn, inTick
  <2>3. \A e \in armed' : e \in armed /\ unit'[e] = unit[e]
    BY <1>0, <2>1 DEF Remove, Erased
  <2> QED BY <1>1, <2>2, <2>3
<1>6. CASE BeginTurn
  <2>1. /\ UNCHANGED << armed, unit, Actor >>
        /\ rule' = 1 /\ budget' = Recipe(Actor).points /\ Actor \in active
    BY <1>6 DEF BeginTurn, world, Actor, HasTurn, CanActThisTurn, Exists
  <2>2. Recipe(Actor).points \in Int
    BY <2>1, ExistingEntity, RecipeFields DEF Recipe
  <2> QED BY <2>1, <2>2 DEF FuseIsLit, Recipe
<1>7. CASE RuleFails
  <2>1. /\ InTurn /\ Actor \notin armed
        /\ UNCHANGED << armed, unit, order >>
    BY <1>7, OnlyTheFuseBurns DEF RuleFails, world
  <2>2. rule' = 0 \/ (UNCHANGED << turn, budget, Actor >>)
    BY <1>7, <2>1 DEF RuleFails, LeaveTurn, Actor
  <2> QED BY <1>1, <2>1, <2>2 DEF FuseIsLit, Recipe, InTurn
<1>8. CASE Strike \/ Heal \/ Move \/ SetActionState
  <2>1. /\ InTurn /\ Pay /\ Affordable /\ UNCHANGED << unit, order >>
        /\ Actor \notin armed
        /\ armed' = armed \/ (SetActionState /\ armed' = armed \cup {Actor})
    <3>1. ~(Rule.effect = "battle.damage" /\ Rule.after = "battle.destroy-self")
      BY <1>8 DEF Strike, Heal, Move, SetActionState
    <3> QED
      BY <1>8, <3>1, OnlyTheFuseBurns DEF Strike, Heal, Move, SetActionState, Fires
  <2>2. /\ Actor \in Id /\ unit[Actor] \in Kinds
        /\ Rule.cost \in Int /\ budget \in Int /\ Recipe(Actor).points \in Int
        /\ Rule.cost > 0 /\ budget <= Recipe(Actor).points
    BY <2>1, InItsTurn, RecipeFields DEF TypeOK, FuseIsLit, Affordable, InTurn, Recipe
  <2>3. SetActionState => CanArm(unit[Actor]) /\ rule' = 0
    <3> SUFFICES ASSUME SetActionState PROVE CanArm(unit[Actor]) /\ rule' = 0
      OBVIOUS
    <3>1. PICK i \in 1..Len(Recipes[unit[Actor]].rules) : Rule = Recipes[unit[Actor]].rules[i]
      <4>1. rule \in 1..Len(OrderedRules[unit[Actor]]) /\ Rule = OrderedRules[unit[Actor]][rule]
        BY <2>1, InItsTurn DEF Rule, RulesOf
      <4> QED BY <2>2, <4>1, RulesTried
    <3>2. Arms(Rule)
      BY DEF SetActionState, Arms
    <3>3. CanArm(unit[Actor])
      BY <3>1, <3>2 DEF CanArm
    <3>4. Rule.cost >= Recipe(Actor).points
      BY <2>2, <3>1, <3>2 DEF Fused, Recipe
    <3>5. ~(budget > Rule.cost)
      BY <2>2, <3>4
    <3> QED BY <2>1, <3>3, <3>5 DEF Pay, LeaveTurn
  <2>4. \A e \in Id : e \in armed' => CanArm(unit'[e])
    BY <2>1, <2>3 DEF FuseIsLit
  <2>5. CASE rule' = 0
    BY <2>4, <2>5 DEF FuseIsLit
  <2>6. CASE rule' # 0
    <3>1. UNCHANGED << turn, armed, Actor >> /\ budget' = budget - Rule.cost
      BY <2>1, <2>3, <2>6 DEF Pay, LeaveTurn, Actor
    <3>2. budget' <= Recipe(Actor).points
      BY <2>2, <3>1
    <3> QED BY <2>1, <2>4, <3>1, <3>2 DEF FuseIsLit, Recipe
  <2> QED BY <2>5, <2>6
<1>9. CASE Exited \/ UNCHANGED vars
  BY <1>2, <1>9 DEF Exited, vars
<1> QED
  BY <1>3, <1>4, <1>5, <1>6, <1>7, <1>8, <1>9 DEF Next, EngineStep, Turns

\* An armed entity has a turn, and leaves it dead: none of its rules fails, it is
\* not passed over, and the only rule that applies destroys it.
THEOREM FusesBurnOut ==
  ASSUME \A k \in Kinds : Fused(Recipes[k])
  PROVE  Spec => FuseBurnsOut
<1> DEFINE BurnsOut ==
      \A e \in armed :
        phase = "Tick" /\ turn <= Len(order) /\ Actor = e /\ turn' # turn => e \notin active'
<1>1. Init => FuseIsLit
  BY DEF Init, FuseIsLit
<1>2. TypeOK /\ FuseIsLit /\ [Next]_vars => FuseIsLit'
  BY FuseStep
<1>3. TypeOK /\ FuseIsLit /\ [Next]_vars => [BurnsOut]_vars
  <2> SUFFICES ASSUME TypeOK, FuseIsLit, [Next]_vars,
                      phase = "Tick", turn <= Len(order), Actor \in armed, turn' # turn,
                      Actor \in active'
               PROVE  FALSE
    OBVIOUS
  <2>1. turn \in Nat /\ Len(order) \in Nat /\ Actor \in active /\ Actor \in Id
    BY ExistingEntity DEF TypeOK
  <2>2. HasTurn(Actor)
    <3>1. CanArm(unit[Actor]) /\ unit[Actor] \in Kinds
      BY <2>1, ExistingEntity DEF FuseIsLit
    <3>2. \E b \in 1..Len(Recipe(Actor).rules) :
            0 < Recipe(Actor).rules[b].cost /\ Recipe(Actor).rules[b].cost <= Recipe(Actor).points
      BY <3>1 DEF Fused, CanArm, Recipe
    <3>3. Recipe(Actor).rules # << >>
      BY <3>2
    <3>4. PICK b \in 1..Len(Recipe(Actor).rules) :
            0 < Recipe(Actor).rules[b].cost /\ Recipe(Actor).rules[b].cost <= Recipe(Actor).points
      BY <3>2
    <3>5. Recipe(Actor).rules[b].cost \in Int /\ Recipe(Actor).points \in Int
      <4>1. Recipe(Actor).rules \in Seq(RuleType) /\ Recipe(Actor).points \in Int
        BY <3>1, RecipeFields DEF Recipe
      <4>2. Recipe(Actor).rules[b] \in RuleType
        BY <4>1
      <4> QED BY <4>1, <4>2, RuleFields
    <3> QED BY <2>1, <3>3, <3>4, <3>5 DEF HasTurn, CanActThisTurn, Exists
  <2>3. InTurn /\ (RuleFails \/ Strike \/ Heal \/ Move \/ SetActionState \/ Explode \/ DestroySelf)
    <3>1. ~Commands
      BY DEF Commands, CreateMap, Spawn, March, ParserThrows, Run
    <3>2. ~(Startup \/ BeforeTick \/ EndTick \/ AfterTick \/ Cleanup \/ Shutdown)
      BY <2>1 DEF Startup, BeforeTick, EndTick, AfterTick, Cleanup, Shutdown
    <3>3. ~(BeginTurn \/ SkipTurn \/ Exited \/ UNCHANGED vars)
      BY <2>2 DEF BeginTurn, SkipTurn, Exited, vars, inTick
    <3>4. RuleFails \/ Strike \/ Heal \/ Move \/ SetActionState \/ Explode \/ DestroySelf
      BY <3>1, <3>2, <3>3 DEF Next, EngineStep, Turns
    <3>5. InTurn
      BY <3>4 DEF RuleFails, Strike, Heal, Move, SetActionState, Explode, DestroySelf, Fires
    <3> QED BY <3>4, <3>5
  <2>4. Explode \/ DestroySelf
    BY <2>3, OnlyTheFuseBurns DEF Strike, Heal, Move, SetActionState
  <2>5. active' = active \ {Actor}
    BY <2>4 DEF Explode, DestroySelf, Remove
  <2> QED BY <2>5
<1> QED
  BY <1>1, <1>2, <1>3, TypeCorrect, PTL DEF Spec, FuseBurnsOut

-----------------------------------------------------------------------------
(* The classic archetypes, with whatever stats a SPAWN command gives them.  *)

ClassicRecipes ==
  {Swordsman(h, s) : h \in Int, s \in Int}
  \cup {Lancer(h, s) : h \in Int, s \in Int}
  \cup {Hunter(h, a, s, r) : h \in Int, a \in Int, s \in Int, r \in Int}
  \cup {Tower(h, p) : h \in Int, p \in Int}
  \cup {Raven(h, a) : h \in Int, a \in Int}
  \cup {Healer(h, s) : h \in Int, s \in Int}
  \cup {Mine(p) : p \in Int}

\* What the classic recipes fix whatever the stats.
LEMMA ClassicFields ==
  ASSUME NEW recipe \in ClassicRecipes
  PROVE  /\ recipe.points = 1
         /\ \/ recipe.rules \in {SwordsmanRules, LancerRules, HunterRules, TowerRules, HealerRules}
               /\ recipe.attackable
            \/ recipe.rules = RavenRules /\ recipe.attackable /\ ~recipe.blocks
            \/ recipe.rules = MineRules /\ ~recipe.blocks
<1>1. CASE \E h, s \in Int : recipe = Swordsman(h, s)
  BY <1>1 DEF Swordsman, Unit
<1>2. CASE \E h, s \in Int : recipe = Lancer(h, s)
  BY <1>2 DEF Lancer, Unit
<1>3. CASE \E h, a, s, r \in Int : recipe = Hunter(h, a, s, r)
  BY <1>3 DEF Hunter, Unit
<1>4. CASE \E h, p \in Int : recipe = Tower(h, p)
  BY <1>4 DEF Tower, Unit
<1>5. CASE \E h, a \in Int : recipe = Raven(h, a)
  BY <1>5 DEF Raven, Unit
<1>6. CASE \E h, s \in Int : recipe = Healer(h, s)
  BY <1>6 DEF Healer, Unit
<1>7. CASE \E p \in Int : recipe = Mine(p)
  BY <1>7 DEF Mine, Unit
<1> QED
  BY <1>1, <1>2, <1>3, <1>4, <1>5, <1>6, <1>7 DEF ClassicRecipes

\* The rules the classic recipes are built from, field by field.
LEMMA Blows ==
  ASSUME NEW by, NEW r, r = DamageRule(20, "battle.adjacent-blocking", by, 1, 1)
  PROVE  /\ r.condition = "core.always" /\ r.selector = "battle.adjacent-blocking"
         /\ r.picker = "core.random-one" /\ r.effect = "battle.damage"
         /\ r.cost = 1 /\ r.priority = 20
BY DEF DamageRule, BlankRule

LEMMA Shots ==
  ASSUME NEW p, NEW by, NEW lo, NEW hi, NEW r,
         r = AttackableOnly(DamageRule(p, "battle.effective-range", by, lo, hi))
  PROVE  /\ r.selector = "battle.effective-range" /\ r.effect = "battle.damage"
         /\ r.attackableOnly
BY DEF AttackableOnly, DamageRule, BlankRule

LEMMA HuntersShot ==
  ASSUME NEW r,
         r = [AttackableOnly(DamageRule(30, "battle.effective-range", "agility", 2, 0))
                EXCEPT !.condition = "battle.no-adjacent-blocking", !.maxBy = "range"]
  PROVE  /\ r.selector = "battle.effective-range" /\ r.effect = "battle.damage"
         /\ r.attackableOnly
BY DEF AttackableOnly, DamageRule, BlankRule

LEMMA Healing ==
  ASSUME NEW r,
         r = [AttackableOnly(DamageRule(20, "battle.effective-range", "spirit", 0, 2))
                EXCEPT !.effect = "battle.heal"]
  PROVE  r.effect = "battle.heal"
BY DEF AttackableOnly, DamageRule, BlankRule

LEMMA Steps ==
  ASSUME NEW n, NEW r, r = MoveRule(10, n)
  PROVE  r.selector = "core.none" /\ r.effect = "battle.move" /\ r.step = n /\ r.priority = 10
         /\ r.cost = 1
BY DEF MoveRule, BlankRule

Bang ==
  [DamageRule(20, "battle.physical-radius", "power", 0, 3)
     EXCEPT !.condition = "battle.has-action-state", !.picker = "core.all",
            !.after = "battle.destroy-self", !.stateKey = "armed", !.allowEmpty = TRUE]
Arming ==
  [BlankRule EXCEPT !.condition = "battle.missing-action-state",
                    !.selector = "battle.physical-radius", !.picker = "core.any",
                    !.effect = "battle.set-action-state", !.max = 2,
                    !.stateKey = "armed", !.priority = 10]

LEMMA MinesRules ==
  /\ Burns(Bang) /\ Bang.effect = "battle.damage" /\ Bang.cost = 1
  /\ Bang.selector = "battle.physical-radius" /\ Bang.priority = 20
  /\ Arming.effect = "battle.set-action-state" /\ Arming.cost = 1 /\ Arming.priority = 10
BY DEF Bang, Arming, Burns, DamageRule, BlankRule

\* The rules of the classic recipes, as far as the theorems above ask.
LEMMA ClassicRules ==
  ASSUME NEW recipe \in ClassicRecipes
  PROVE  FightsFirst(recipe) /\ DrawsAlike(recipe) /\ Fused(recipe)
<1> DEFINE Rules == recipe.rules
<1>1. CASE Rules = SwordsmanRules /\ recipe.attackable
  <2>0. 1..Len(Rules) = {1, 2}
    BY <1>1 DEF SwordsmanRules
  <2>1. /\ Rules[1] = DamageRule(20, "battle.adjacent-blocking", "strength", 1, 1)
        /\ Rules[2] = MoveRule(10, 1)
    BY <1>1 DEF SwordsmanRules
  <2>2. /\ Rules[1].condition = "core.always" /\ Rules[1].selector = "battle.adjacent-blocking"
        /\ Rules[1].picker = "core.random-one" /\ Rules[1].effect = "battle.damage"
        /\ Rules[1].cost = 1 /\ Rules[1].priority = 20
    BY <2>1, Blows
  <2>3. /\ Rules[2].selector = "core.none" /\ Rules[2].effect = "battle.move"
        /\ Rules[2].step = 1 /\ Rules[2].cost = 1
        /\ Rules[2].priority = 10
    BY <2>1, Steps
  <2> HIDE DEF Rules
  <2>4. FightsFirst(recipe) /\ Fused(recipe)
    BY <2>0, <2>2, <2>3 DEF Rules, FightsFirst, IsMelee, Fused, Arms
  <2>5. DrawsAlike(recipe)
    BY <1>1, <2>0, <2>2, <2>3 DEF Rules, DrawsAlike
  <2> QED BY <2>4, <2>5
<1>2. CASE Rules = LancerRules /\ recipe.attackable
  <2>0. 1..Len(Rules) = {1, 2, 3}
    BY <1>2 DEF LancerRules
  <2>1. /\ Rules[1] = AttackableOnly(DamageRule(30, "battle.effective-range", "strength", 2, 2))
        /\ Rules[2] = DamageRule(20, "battle.adjacent-blocking", "strength", 1, 1)
        /\ Rules[3] = MoveRule(10, 1)
    BY <1>2 DEF LancerRules
  <2>2. /\ Rules[1].selector = "battle.effective-range" /\ Rules[1].effect = "battle.damage"
        /\ Rules[1].attackableOnly
    BY <2>1, Shots
  <2>3. /\ Rules[2].condition = "core.always" /\ Rules[2].selector = "battle.adjacent-blocking"
        /\ Rules[2].picker = "core.random-one" /\ Rules[2].effect = "battle.damage"
        /\ Rules[2].cost = 1 /\ Rules[2].priority = 20
    BY <2>1, Blows
  <2>4. /\ Rules[3].selector = "core.none" /\ Rules[3].effect = "battle.move"
        /\ Rules[3].step = 1 /\ Rules[3].cost = 1
        /\ Rules[3].priority = 10
    BY <2>1, Steps
  <2> HIDE DEF Rules
  <2>5. FightsFirst(recipe) /\ Fused(recipe)
    BY <2>0, <2>2, <2>3, <2>4 DEF Rules, FightsFirst, IsMelee, Fused, Arms
  <2>6. DrawsAlike(recipe)
    BY <1>2, <2>0, <2>2, <2>3, <2>4 DEF Rules, DrawsAlike
  <2> QED BY <2>5, <2>6
<1>3. CASE Rules = HunterRules /\ recipe.attackable
  <2>0. 1..Len(Rules) = {1, 2, 3}
    BY <1>3 DEF HunterRules
  <2>1. /\ Rules[1] = [AttackableOnly(DamageRule(30, "battle.effective-range", "agility", 2, 0))
                        EXCEPT !.condition = "battle.no-adjacent-blocking", !.maxBy = "range"]
        /\ Rules[2] = DamageRule(20, "battle.adjacent-blocking", "strength", 1, 1)
        /\ Rules[3] = MoveRule(10, 1)
    BY <1>3 DEF HunterRules
  <2>2. /\ Rules[1].selector = "battle.effective-range" /\ Rules[1].effect = "battle.damage"
        /\ Rules[1].attackableOnly
    BY <2>1, HuntersShot
  <2>3. /\ Rules[2].condition = "core.always" /\ Rules[2].selector = "battle.adjacent-blocking"
        /\ Rules[2].picker = "core.random-one" /\ Rules[2].effect = "battle.damage"
        /\ Rules[2].cost = 1 /\ Rules[2].priority = 20
    BY <2>1, Blows
  <2>4. /\ Rules[3].selector = "core.none" /\ Rules[3].effect = "battle.move"
        /\ Rules[3].step = 1 /\ Rules[3].cost = 1
        /\ Rules[3].priority = 10
    BY <2>1, Steps
  <2> HIDE DEF Rules
  <2>5. FightsFirst(recipe) /\ Fused(recipe)
    BY <2>0, <2>2, <2>3, <2>4 DEF Rules, FightsFirst, IsMelee, Fused, Arms
  <2>6. DrawsAlike(recipe)
    BY <1>3, <2>0, <2>2, <2>3, <2>4 DEF Rules, DrawsAlike
  <2> QED BY <2>5, <2>6
<1>4. CASE Rules = TowerRules /\ recipe.attackable
  <2>0. 1..Len(Rules) = {1}
    BY <1>4 DEF TowerRules
  <2>1. /\ Rules[1] = AttackableOnly(DamageRule(10, "battle.effective-range", "power", 2, 5))
    BY <1>4 DEF TowerRules
  <2>2. /\ Rules[1].selector = "battle.effective-range" /\ Rules[1].effect = "battle.damage"
        /\ Rules[1].attackableOnly
    BY <2>1, Shots
  <2> HIDE DEF Rules
  <2>3. FightsFirst(recipe) /\ Fused(recipe)
    BY <2>0, <2>2 DEF Rules, FightsFirst, IsMelee, Fused, Arms
  <2>4. DrawsAlike(recipe)
    BY <1>4, <2>0, <2>2 DEF Rules, DrawsAlike
  <2> QED BY <2>3, <2>4
<1>5. CASE Rules = HealerRules /\ recipe.attackable
  <2>0. 1..Len(Rules) = {1, 2}
    BY <1>5 DEF HealerRules
  <2>1. /\ Rules[1] = [AttackableOnly(DamageRule(20, "battle.effective-range", "spirit", 0, 2))
                        EXCEPT !.effect = "battle.heal"]
        /\ Rules[2] = MoveRule(10, 1)
    BY <1>5 DEF HealerRules
  <2>2. /\ Rules[1].effect = "battle.heal"
    BY <2>1, Healing
  <2>3. /\ Rules[2].selector = "core.none" /\ Rules[2].effect = "battle.move"
        /\ Rules[2].step = 1 /\ Rules[2].cost = 1
        /\ Rules[2].priority = 10
    BY <2>1, Steps
  <2> HIDE DEF Rules
  <2>4. FightsFirst(recipe) /\ Fused(recipe)
    BY <2>0, <2>2, <2>3 DEF Rules, FightsFirst, IsMelee, Fused, Arms
  <2>5. DrawsAlike(recipe)
    BY <1>5, <2>0, <2>2, <2>3 DEF Rules, DrawsAlike
  <2> QED BY <2>4, <2>5
<1>6. CASE Rules = RavenRules /\ recipe.attackable /\ ~recipe.blocks
  <2>0. 1..Len(Rules) = {1, 2}
    BY <1>6 DEF RavenRules
  <2>1. /\ Rules[1] = DamageRule(20, "battle.adjacent-blocking", "agility", 1, 1)
        /\ Rules[2] = MoveRule(10, 2)
    BY <1>6 DEF RavenRules
  <2>2. /\ Rules[1].condition = "core.always" /\ Rules[1].selector = "battle.adjacent-blocking"
        /\ Rules[1].picker = "core.random-one" /\ Rules[1].effect = "battle.damage"
        /\ Rules[1].cost = 1 /\ Rules[1].priority = 20
    BY <2>1, Blows
  <2>3. /\ Rules[2].selector = "core.none" /\ Rules[2].effect = "battle.move"
        /\ Rules[2].step = 2 /\ Rules[2].cost = 1
        /\ Rules[2].priority = 10
    BY <2>1, Steps
  <2> HIDE DEF Rules
  <2>4. FightsFirst(recipe) /\ Fused(recipe)
    BY <2>0, <2>2, <2>3 DEF Rules, FightsFirst, IsMelee, Fused, Arms
  <2>5. DrawsAlike(recipe)
    BY <1>6, <2>0, <2>2, <2>3 DEF Rules, DrawsAlike
  <2> QED BY <2>4, <2>5
<1>7. CASE Rules = MineRules /\ ~recipe.blocks
  <2>1. /\ 1..Len(Rules) = {1, 2}
        /\ Rules[1] = Bang /\ Rules[2] = Arming
    BY <1>7 DEF MineRules, Bang, Arming
  <2>2. recipe.points = 1
    BY ClassicFields
  <2> HIDE DEF Rules
  <2>3. FightsFirst(recipe) /\ Fused(recipe)
    BY <2>1, <2>2, MinesRules DEF Rules, FightsFirst, IsMelee, Fused, Arms
  <2>4. DrawsAlike(recipe)
    BY <1>7, <2>1, MinesRules DEF Rules, DrawsAlike
  <2> QED BY <2>3, <2>4
<1> QED
  BY <1>1, <1>2, <1>3, <1>4, <1>5, <1>6, <1>7, ClassicFields

\* Every battle of classic units: blows come before marches, mines burn down, and
\* a battle that stops for want of action is over.
THEOREM ClassicBattles ==
  ASSUME \A k \in Kinds : Recipes[k] \in ClassicRecipes
  PROVE  Spec => FightsBeforeMarching /\ FuseBurnsOut /\ []StoppedMeansStuck
<1>1. \A k \in Kinds : FightsFirst(Recipes[k]) /\ DrawsAlike(Recipes[k]) /\ Fused(Recipes[k])
  BY ClassicRules
<1>2. Spec => FightsBeforeMarching
  BY <1>1, FightsComeFirst
<1>3. Spec => FuseBurnsOut
  BY <1>1, FusesBurnOut
<1>4. Spec => []StoppedMeansStuck
  BY <1>1, QuietBattleIsOver DEF DrawsAreEqual
<1> QED BY <1>2, <1>3, <1>4

-----------------------------------------------------------------------------
(* Every battle makes progress.                                            *)

LEMMA TurnsMakeProgress ==
  ASSUME TypeOK, Turns
  PROVE  NearerTheEnd
<1>0. phase = "Tick" /\ turn \in Nat /\ Len(order) \in Nat /\ UNCHANGED << ticks, phase, order >>
  <2>1. turn \in Nat /\ Len(order) \in Nat
    BY DEF TypeOK
  <2>2. phase = "Tick"
    BY DEF Turns, BeginTurn, SkipTurn, RuleFails, Strike, Explode, DestroySelf, Heal, Move,
           SetActionState, BetweenTurns, InTurn, Fires
  <2>3. CASE BeginTurn \/ SkipTurn \/ RuleFails
    BY <2>1, <2>2, <2>3 DEF BeginTurn, SkipTurn, RuleFails, world, engine
  <2>4. CASE Strike \/ Explode \/ DestroySelf \/ Heal \/ Move \/ SetActionState
    BY <2>1, <2>2, <2>4 DEF Strike, Explode, DestroySelf, Heal, Move, SetActionState, engine
  <2> QED BY <2>3, <2>4 DEF Turns
<1>1. CASE BeginTurn
  <2>1. 0 < Recipe(Actor).points
    <3>1. Recipe(Actor).points > 0 /\ Actor \in active
      BY <1>1 DEF BeginTurn, HasTurn, CanActThisTurn, Exists
    <3>2. Recipe(Actor).points \in Int
      BY <3>1, ExistingEntity, RecipeFields DEF Recipe
    <3> QED BY <3>1, <3>2
  <2> QED BY <1>0, <1>1, <2>1 DEF BeginTurn, BetweenTurns, NearerTheEnd
<1>2. ASSUME turn <= Len(order), turn' = turn + 1 PROVE NearerTheEnd
  BY <1>0, <1>2 DEF NearerTheEnd
<1>3. CASE SkipTurn
  BY <1>2, <1>3 DEF SkipTurn, BetweenTurns
<1>4. CASE InTurn
  <2>1. /\ turn <= Len(order) /\ rule \in Nat /\ rule # 0
        /\ Rule.cost \in Int /\ budget \in Int
        /\ Len(RulesOf(Actor)) \in Nat
    BY <1>4, InItsTurn, RulesTried DEF InTurn, TypeOK, RulesOf
  <2>2. CASE RuleFails
    <3>1. CASE rule < Len(RulesOf(Actor))
      <4>1. rule' = rule + 1 /\ UNCHANGED << turn, budget >>
        BY <2>2, <3>1 DEF RuleFails
      <4> QED BY <1>0, <2>1, <3>1, <4>1 DEF NearerTheEnd
    <3>2. CASE ~(rule < Len(RulesOf(Actor)))
      BY <1>2, <2>1, <2>2, <3>2 DEF RuleFails, LeaveTurn
    <3> QED BY <3>1, <3>2
  <2>3. CASE Pay /\ Affordable
    <3>1. CASE budget > Rule.cost
      <4>1. budget' = budget - Rule.cost /\ rule' = 1 /\ turn' = turn /\ Rule.cost > 0
        BY <2>3, <3>1 DEF Pay, Affordable
      <4> QED BY <1>0, <2>1, <3>1, <4>1 DEF NearerTheEnd
    <3>2. CASE ~(budget > Rule.cost)
      BY <1>2, <2>1, <2>3, <3>2 DEF Pay, LeaveTurn
    <3> QED BY <3>1, <3>2
  <2>4. CASE PayAndVanish
    BY <1>2, <2>1, <2>4 DEF PayAndVanish, LeaveTurn
  <2>5. RuleFails \/ (Pay /\ Affordable) \/ PayAndVanish
    <3>1. ~BeginTurn /\ ~SkipTurn
      BY <1>4 DEF BeginTurn, SkipTurn, BetweenTurns, InTurn
    <3> QED
      BY <3>1 DEF Turns, Strike, Explode, DestroySelf, Heal, Move, SetActionState, Fires
  <2> QED BY <2>2, <2>3, <2>4, <2>5
<1> QED
  BY <1>1, <1>3, <1>4 DEF Turns, RuleFails, Strike, Explode, DestroySelf, Heal, Move,
                          SetActionState, Fires

LEMMA PhasesMakeProgress ==
  ASSUME TypeOK, LoopFacts,
         Startup \/ BeforeTick \/ EndTick \/ AfterTick \/ Cleanup \/ Shutdown
  PROVE  NearerTheEnd
<1>0. ticks \in Nat /\ MaxTicks \in Int
  BY NumberAssumption DEF TypeOK
<1>1. CASE Cleanup
  <2>1. ticks' = ticks + 1 /\ ticks < MaxTicks
    BY <1>1 DEF Cleanup, LoopFacts
  <2> QED BY <1>0, <2>1 DEF NearerTheEnd
<1>2. /\ PhasesInOrder[1] = "Startup" /\ PhasesInOrder[2] = "BeforeTick"
      /\ PhasesInOrder[3] = "Tick" /\ PhasesInOrder[4] = "AfterTick"
      /\ PhasesInOrder[5] = "Cleanup" /\ PhasesInOrder[6] = "Shutdown"
      /\ PhasesInOrder[7] = "done"
  BY DEF PhasesInOrder
<1>3. ASSUME ticks' = ticks, NEW m \in 1..7, NEW n \in 1..7, m < n,
             phase = PhasesInOrder[m], phase' = PhasesInOrder[n]
      PROVE  NearerTheEnd
  BY <1>3 DEF NearerTheEnd
<1>4. CASE Startup
  <2>1. ticks' = ticks /\ phase = "Startup" /\ phase' \in {"BeforeTick", "Shutdown"}
    BY <1>4 DEF Startup, LoopHead
  <2> QED BY <1>2, <1>3, <2>1
<1>5. CASE BeforeTick
  <2>1. ticks' = ticks /\ phase = "BeforeTick" /\ phase' \in {"Tick", "Shutdown"}
    BY <1>5 DEF BeforeTick
  <2> QED BY <1>2, <1>3, <2>1
<1>6. CASE EndTick
  <2>1. ticks' = ticks /\ phase = "Tick" /\ phase' = "AfterTick"
    BY <1>6 DEF EndTick
  <2> QED BY <1>2, <1>3, <2>1
<1>7. CASE AfterTick
  <2>1. ticks' = ticks /\ phase = "AfterTick" /\ phase' \in {"Cleanup", "Shutdown"}
    BY <1>7 DEF AfterTick
  <2> QED BY <1>2, <1>3, <2>1
<1>8. CASE Shutdown
  <2>1. ticks' = ticks /\ phase = "Shutdown" /\ phase' = "done"
    BY <1>8 DEF Shutdown
  <2> QED BY <1>2, <1>3, <2>1
<1> QED BY <1>1, <1>4, <1>5, <1>6, <1>7, <1>8

\* The variant of the engine loop, the turns of a tick and the rules of a turn:
\* no recipe, map or tick limit makes a battle repeat itself.
THEOREM ProgressIsMade == Spec => NothingGoesInCircles
<1> DEFINE Onward == phase \notin {"commands", "done", "aborted"} => NearerTheEnd
<1>1. Init => LoopFacts
  BY DEF Init, LoopFacts
<1>2. TypeOK /\ LoopFacts /\ [Next]_vars => LoopFacts'
  BY LoopFactsStep
<1>3. TypeOK /\ LoopFacts /\ [Next]_vars => [Onward]_vars
  <2> SUFFICES ASSUME TypeOK, LoopFacts, Next, phase \notin {"commands", "done", "aborted"}
               PROVE  NearerTheEnd
    OBVIOUS
  <2>1. ~Commands
    BY DEF Commands, CreateMap, Spawn, March, ParserThrows, Run
  <2>2. ~Exited
    BY DEF Exited
  <2> QED
    BY <2>1, <2>2, TurnsMakeProgress, PhasesMakeProgress DEF Next, EngineStep
<1> QED
  BY <1>1, <1>2, <1>3, TypeCorrect, PTL DEF Spec, NothingGoesInCircles

=============================================================================
