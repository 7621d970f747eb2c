----------------------------- MODULE BattleTrace -----------------------------
(***************************************************************************)
(* The event trace of a battle and the replay viewer that reads it.        *)
(*                                                                         *)
(* JsonTraceWriter writes every published event; the viewer knows the      *)
(* battle from these records alone and applies them one by one to a copy   *)
(* of each unit.  view is that copy after the records written so far; the  *)
(* events one step of Battle publishes about one unit are applied          *)
(* together, in the order the code publishes them.                         *)
(***************************************************************************)
EXTENDS Battle

VARIABLES
  view,       \* the viewer's unit: {at, hp, alive, marchTarget}; None if unseen
  deaths      \* how many UNIT_DIED records name the entity

Unseen == [at |-> None, hp |-> None, alive |-> FALSE, marchTarget |-> None]

About(e, kinds) == {ev \in out' : ev.ev \in kinds /\ ev.id = e}
TheOne(events) == CHOOSE ev \in events : TRUE

\* updateUnit on the records that carry the unit's position.
SlipSeenAtSpawn(e) ==
  LET placed == About(e, {"EntityCreated", "MarchStarted", "MarchEnded"})
  IN  IF placed = {} THEN view[e].at ELSE TheOne(placed).at

SeenAt(e) ==
  LET placed == About(e, {"EntityCreated", "MarchStarted", "MarchEnded", "EntityMoved"})
  IN  IF placed = {} THEN view[e].at ELSE TheOne(placed).at

SeenHp(e) ==
  LET changed == About(e, {"Damage", "Heal"})
  IN  IF About(e, {"EntityCreated"}) # {} THEN None
      ELSE IF changed = {} THEN view[e].hp ELSE TheOne(changed).hp

\* A death record is published after the damage that caused it.
SeenAlive(e) ==
  /\ About(e, {"EntityRemoved"}) = {}
  /\ view[e].alive \/ About(e, {"EntityCreated", "Heal"}) # {}

\* UNIT_MOVED clears the target as MARCH_ENDED does.
SeenTarget(e) ==
  LET started == About(e, {"MarchStarted"})
      cleared == About(e, {"EntityCreated", "MarchEnded", "EntityMoved", "EntityRemoved"})
  IN  IF cleared # {} THEN None
      ELSE IF started # {} THEN TheOne(started).target ELSE view[e].marchTarget

ApplyEvents ==
  view' = [e \in Id |-> [at |-> SeenAt(e), hp |-> SeenHp(e),
                         alive |-> SeenAlive(e), marchTarget |-> SeenTarget(e)]]

CountDeaths == deaths' = [e \in Id |-> deaths[e] + Cardinality(About(e, {"EntityRemoved"}))]

TraceInit == Init /\ view = [e \in Id |-> Unseen] /\ deaths = [e \in Id |-> 0]
TraceNext == Next /\ ApplyEvents /\ CountDeaths

traceVars == << vars, view, deaths >>
TraceSpec == TraceInit /\ [][TraceNext]_traceVars

-----------------------------------------------------------------------------
\* Nobody fades from the world unseen: the cleanup publishes nothing, so a unit
\* the viewer still shows alive must be alive in the world, and the other way
\* round, after every step of a tick.
LivingAreShown == \A e \in Id : view[e].alive <=> IsAlive(e)

\* Where and how healthy the viewer shows a unit is where and how healthy it is,
\* for the living and for the dead that still stand on the map; the viewer knows
\* no hit points before the first blow or healing.
ViewIsAccurate ==
  \A e \in active :
    /\ view[e].at = pos[e]
    /\ \/ view[e].hp = hp[e]
       \/ view[e].hp = None /\ hp[e] = Recipe(e).hp

\* Every entity that left the world died in the trace, at least once and, a mine
\* that is killed and still goes off in the same tick, at most twice; nobody who
\* is alive did.
DeathsAreReported ==
  \A e \in Id :
    /\ e \in Created /\ ~IsAlive(e) => deaths[e] \in {1, 2}
    /\ IsAlive(e) => deaths[e] = 0
    /\ deaths[e] = 2 => e \notin active

\* The viewer shows a unit's march target for as long as it marches.
MarchesAreShown == \A e \in active : IsAlive(e) => view[e].marchTarget = march[e]

=============================================================================
