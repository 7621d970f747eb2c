-------------------------- MODULE BattleProperties --------------------------
(***************************************************************************)
(* What the battle must never do, and what it must eventually do.          *)
(***************************************************************************)
EXTENDS Battle

\* Every variable holds a value of its type; a component is blank exactly
\* where its entity does not exist, only created entities exist, and the rule
\* being tried is one of the rules of an existing entity whose turn it is.
TypeOK ==
  /\ mapReady \in BOOLEAN
  /\ order \in Seq(Id)
  /\ active \subseteq Created
  /\ unit \in [Id -> Kinds \cup {None}]
  /\ pos \in [Id -> Cells \cup {None}]
  /\ \A e \in Id : (e \in active <=> unit[e] # None) /\ (e \in active <=> pos[e] # None)
  /\ hp \in [Id -> Int]
  /\ alive \subseteq active
  /\ march \in [Id -> Cells \cup {None}]
  /\ armed \subseteq active
  /\ occ \in [Cells -> Id \cup {0}]
  /\ phase \in Phases
  /\ stop \in BOOLEAN
  /\ ticks \in Nat /\ tick \in Nat
  /\ turn \in 0..(Len(order) + 1) /\ (phase = "Tick" => turn # 0)
  /\ rule \in Nat /\ budget \in Int
  /\ rule # 0 => InTurn /\ turn <= Len(order) /\ Actor \in active
                        /\ rule <= Len(RulesOf(Actor))
  /\ acted \in BOOLEAN
  /\ out \subseteq EventType

-----------------------------------------------------------------------------
\* The occupancy table of the map and the components of the entities are two
\* copies of one fact, changed by spawns, marches, explosions and the cleanup:
\* a cell's entry is the entity that blocks and stands there, always.
OccupancyAgrees ==
  \A c \in Cells, e \in Id :
    occ[c] = e <=> (e \in active /\ Recipes[unit[e]].blocks /\ pos[e] = c)

\* A march target belongs to an existing mobile entity that is not there yet:
\* a reached, refused or orphaned target never lingers.
MarchIsPending ==
  \A e \in Id : march[e] # None => /\ e \in active
                                   /\ Recipes[unit[e]].mobile
                                   /\ march[e] # pos[e]

\* The alive marker of the entity store and its hit points tell the same story
\* at every moment, in the middle of a tick too.
MarkerAgreesWithHealth ==
  \A e \in Id : e \in alive <=> (e \in active /\ hp[e] > 0)

\* The dead may finish the tick they died in and no other: whenever a new tick
\* may begin, nobody dead is left in the world.
NoCorpseBetweenTicks ==
  phase \in {"Startup", "BeforeTick", "Cleanup"} => \A e \in active : hp[e] > 0

-----------------------------------------------------------------------------
\* Would some rule of e still apply, given a lucky draw?
CouldApply(e, r, picked) ==
  \/ r.after # "core.none"
  \/ r.effect = "battle.damage" /\ Hurt(e, r, picked) # {}
  \/ r.effect = "battle.heal" /\ Healed(e, r, picked) # {}
  \/ r.effect = "battle.move" /\ Moves(e, r) # {}
  \/ r.effect = "battle.set-action-state" /\ r.stateKey # ""
  \/ r.effect = "battle.destroy-self"

CouldAct(e) ==
  \E i \in 1..Len(RulesOf(e)) :
    LET r == RulesOf(e)[i] IN
      /\ r.cost > 0 /\ r.cost <= Recipe(e).points
      /\ ConditionHolds(e, r)
      /\ \E picked \in Picks(e, r) : Admits(r, picked) /\ CouldApply(e, r, picked)

\* A battle called off because a tick executed nothing is really over: no entity
\* left could do anything in another tick, so the stop never cuts one short.
StoppedMeansStuck ==
  phase \in {"Shutdown", "done"} /\ stop /\ CanContinue
    => \A e \in active : ~CouldAct(e)

-----------------------------------------------------------------------------
\* Death is final: a dead entity is neither hurt nor healed again while its body
\* waits for the cleanup, and a removed one never comes back.
DeathIsFinal ==
  [][/\ \A e \in active : hp[e] <= 0 => hp'[e] = hp[e] \/ e \notin active'
     /\ \A e \in Created : e \notin active => e \notin active']_vars

\* A flying (non-blocking) unit can always get closer, so every one of its moves
\* does: it never hovers or strays, even when several steps make one move.
FlightGetsCloser ==
  [][\A e \in active \cap active' :
       pos'[e] # pos[e] /\ ~Recipes[unit[e]].blocks
         => Distance(pos'[e], march[e]) < Distance(pos[e], march[e])]_vars

\* A unit that can strike somebody beside it fights before it marches: whatever
\* the order of its rules in the recipe, it never walks away from such a target.
CanStrikeBeside(e) ==
  \E i \in 1..Len(RulesOf(e)) :
    LET r == RulesOf(e)[i] IN
      /\ r.selector = "battle.adjacent-blocking" /\ r.effect = "battle.damage"
      /\ Targets(e, r) # {} /\ Targets(e, r) = Hurt(e, r, Targets(e, r))

FightsBeforeMarching ==
  [][\A e \in active \cap active' : pos'[e] # pos[e] => ~CanStrikeBeside(e)]_vars

\* An armed mine never outlives its next turn: it goes off there, whoever is in
\* reach, and also when another explosion killed it earlier in the tick.
FuseBurnsOut ==
  [][\A e \in armed :
       phase = "Tick" /\ turn <= Len(order) /\ Actor = e /\ turn' # turn
         => e \notin active']_vars

\* Every step of a started battle brings its end nearer, whatever the recipes hold:
\* a tick more of those allowed, else a later phase, else a later turn, else, in one
\* turn, points spent, else a rule further down.
PhasesInOrder == << "Startup", "BeforeTick", "Tick", "AfterTick", "Cleanup", "Shutdown", "done" >>

NearerTheEnd ==
  \/ ticks < ticks' /\ ticks' <= MaxTicks
  \/ /\ ticks' = ticks
     /\ \E m, n \in 1..7 : m < n /\ phase = PhasesInOrder[m] /\ phase' = PhasesInOrder[n]
  \/ UNCHANGED << ticks, phase >> /\ turn < turn' /\ turn' <= Len(order) + 1
  \/ /\ UNCHANGED << ticks, phase, turn >>
     /\ \/ rule = 0 /\ rule' = 1 /\ 0 < budget'
        \/ rule # 0 /\ rule' # 0 /\ 0 < budget' /\ budget' < budget
        \/ UNCHANGED budget /\ rule < rule' /\ rule' <= Len(RulesOf(Actor))

NothingGoesInCircles ==
  [][phase \notin {"commands", "done", "aborted"} => NearerTheEnd]_vars

\* A battle that has started ends: the process always reaches its exit.
Finishes == (phase = "Startup") ~> (phase = "done")

=============================================================================
