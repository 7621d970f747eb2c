------------------------------ MODULE TurnLoop ------------------------------
(***************************************************************************)
(* What a battle promises as a whole: BattleTurnSystem::run, the loop the  *)
(* code keeps beside the scheduled one, with a tick's turns reduced to     *)
(* which entities survive it and whether anything was done.  Battle, where *)
(* the same loop is spread over the scheduler's phases, implements it.     *)
(***************************************************************************)
EXTENDS Naturals, FiniteSets

CONSTANTS
  Entity,     \* entity ids
  MaxTicks    \* settings.maxTicks

VARIABLES
  stage,      \* "idle" before run(), "check" at the loop head, "turns", "done"
  mapReady,   \* BattleMapResource exists
  active,     \* entities in the world
  acted,      \* tickActions > 0
  ticks,      \* result.ticksExecuted
  tick        \* the world's tick

vars == << stage, mapReady, active, acted, ticks, tick >>

CanContinue == mapReady /\ Cardinality(active) >= 2

Init ==
  /\ stage = "idle" /\ mapReady = FALSE /\ active = {}
  /\ acted = FALSE /\ ticks = 0 /\ tick = 1

\* Before the loop the scenario makes the map once and adds entities to it.
MakeMap ==
  /\ stage = "idle" /\ ~mapReady
  /\ mapReady' = TRUE
  /\ UNCHANGED << stage, active, acted, ticks, tick >>

Create(e) ==
  /\ stage = "idle" /\ mapReady
  /\ active' = active \cup {e}
  /\ UNCHANGED << stage, mapReady, acted, ticks, tick >>

\* Without a map the loop returns an empty result and the tick stays 1.
Enter ==
  /\ stage = "idle"
  /\ IF mapReady
       THEN stage' = "check" /\ tick' = 2
       ELSE stage' = "done" /\ UNCHANGED tick
  /\ UNCHANGED << mapReady, active, acted, ticks >>

Check ==
  /\ stage = "check"
  /\ IF CanContinue /\ ticks < MaxTicks
       THEN stage' = "turns" /\ acted' = FALSE
       ELSE stage' = "done" /\ UNCHANGED acted
  /\ UNCHANGED << mapReady, active, ticks, tick >>

\* An action may remove its own entity; nothing is ever added during a tick.
Act ==
  /\ stage = "turns"
  /\ acted' = TRUE
  /\ \/ UNCHANGED active
     \/ \E e \in active : active' = active \ {e}
  /\ UNCHANGED << stage, mapReady, ticks, tick >>

\* The cleanup, then the check for a tick in which nothing was done.
FinishTick ==
  /\ stage = "turns"
  /\ active' \in SUBSET active
  /\ IF acted
       THEN stage' = "check" /\ ticks' = ticks + 1 /\ tick' = tick + 1
       ELSE stage' = "done" /\ UNCHANGED << ticks, tick >>
  /\ UNCHANGED << mapReady, acted >>

Next ==
  \/ MakeMap
  \/ \E e \in Entity : Create(e)
  \/ Enter \/ Check \/ Act \/ FinishTick

Spec == Init /\ [][Next]_vars /\ WF_vars(Check) /\ WF_vars(FinishTick)

=============================================================================
