------------------------- MODULE BattleTrace_proofs -------------------------
(***************************************************************************)
(* Proofs about the trace and the viewer, for every map, every set of      *)
(* recipes and every scenario.                                             *)
(*                                                                         *)
(* A step of the battle is, to somebody who reads its records, one of five *)
(* things: it says nothing, a unit is born, goes somewhere, is healed, or  *)
(* some are struck and perhaps their attacker is gone.  Each invariant is  *)
(* shown of these five.                                                    *)
(***************************************************************************)
EXTENDS BattleTrace, Battle_proofs

-----------------------------------------------------------------------------
(* What a step tells its reader *)

\* Nothing, while only bodies disappear.
Silent ==
  /\ \A ev \in out' : ev.ev = "MapCreated"
  /\ active' \subseteq active
  /\ \A e \in active : IsAlive(e) => e \in active'
  /\ \A e \in active' : pos'[e] = pos[e] /\ hp'[e] = hp[e] /\ unit'[e] = unit[e]
  /\ order' = order

\* A birth.
Born(c) ==
  /\ out' = {[ev |-> "EntityCreated", id |-> c.id, at |-> c.at]}
  /\ c.id \in Id \ Created
  /\ active' = active \cup {c.id} /\ Created' = Created \cup {c.id}
  /\ pos'[c.id] = c.at /\ unit'[c.id] = c.kind
  /\ hp'[c.id] = Recipes[c.kind].hp /\ hp'[c.id] > 0
  /\ \A e \in active : pos'[e] = pos[e] /\ hp'[e] = hp[e] /\ unit'[e] = unit[e]

\* A march ordered, continued or ended: every record says where the unit is.
Goes(m) ==
  /\ m \in active /\ out' # {}
  /\ \A ev \in out' : /\ ev.ev \in {"MarchStarted", "MarchEnded", "EntityMoved"}
                      /\ ev.id = m /\ ev.at = pos'[m]
  /\ \A e \in active \ {m} : pos'[e] = pos[e]
  /\ UNCHANGED << order, active, unit, hp >>

\* Healings, each with the hit points it led to.
Heals(healed) ==
  /\ \A ev \in out' : ev.ev = "Heal" /\ ev.id \in healed /\ ev.hp = hp'[ev.id]
  /\ \A t \in healed : hp[t] > 0 /\ \E ev \in out' : ev.id = t
  /\ \A e \in active \ healed : hp'[e] = hp[e]
  /\ UNCHANGED << order, active, unit, pos >>

\* Blows, and perhaps the end of the attacker, who does not strike itself.
Strikes(a, hurt, amount, gone) ==
  /\ a \in active /\ hurt \in SUBSET (active \ {a}) /\ gone \in {{}, {a}} /\ amount \in Int
  /\ hurt # {} => amount > 0
  /\ \A t \in hurt : hp[t] > 0
  /\ out' = DamageEvents(a, hurt, amount) \cup {DestroyedEvent(e) : e \in gone}
  /\ active' = active \ gone /\ order' = order
  /\ \A e \in active' : /\ pos'[e] = pos[e] /\ unit'[e] = unit[e]
                        /\ hp'[e] = IF e \in hurt THEN hp[e] - amount ELSE hp[e]

\* A process that has ended has nothing more to say.
Ended == phase \in {"done", "aborted"} => out = {}

LEMMA EndedStep == ASSUME Ended, [Next]_vars PROVE Ended'
<1>1. CASE Exited \/ UNCHANGED vars BY <1>1 DEF Exited, Ended, vars, engine
<1>2. CASE Commands
  BY <1>2 DEF Ended, Commands, CreateMap, Spawn, March, ParserThrows, Run, engine
<1>3. CASE Startup \/ BeforeTick \/ EndTick \/ AfterTick \/ Cleanup \/ Shutdown
  BY <1>3 DEF Ended, Startup, BeforeTick, EndTick, AfterTick, Cleanup, Shutdown
<1>4. CASE Turns
  <2>1. phase' = "Tick"
    BY <1>4 DEF Turns, BeginTurn, SkipTurn, RuleFails, Strike, Explode, DestroySelf, Heal, Move,
                SetActionState, Fires, InTurn, BetweenTurns, engine
  <2> QED BY <2>1 DEF Ended
<1> QED BY <1>1, <1>2, <1>3, <1>4 DEF Next, EngineStep

-----------------------------------------------------------------------------
(* Every step is one of the five *)

\* The pickers pick among the targets, and nobody is its own target.
LEMMA OthersArePicked ==
  ASSUME NEW e, NEW r \in RuleType, NEW picked \in Picks(e, r)
  PROVE  picked \subseteq active \ {e}
<1>1. r.picker \in Pickers BY DEF RuleType
<1>2. Targets(e, r) \subseteq active \ {e} BY DEF Targets
<1> QED BY <1>1, <1>2 DEF Picks, Pickers

LEMMA AfterTickIsSilent == ASSUME TypeOK, AfterTick PROVE Silent
<1>1. Remove(Dead, hp) /\ out' = {} /\ order' = order BY DEF AfterTick
<1>2. active' = active \ Dead BY <1>1 DEF Remove
<1>3. ASSUME NEW e \in active' PROVE pos'[e] = pos[e] /\ hp'[e] = hp[e] /\ unit'[e] = unit[e]
  BY <1>1, <1>2, ExistingEntity DEF Remove, Erased
<1> QED BY <1>1, <1>2, <1>3 DEF Silent, Dead

LEMMA SpawnIsABirth == ASSUME TypeOK, NEW c \in SpawnCommands, Spawn(c) PROVE Born(c)
<1>1. c.id \in Id /\ c.kind \in Kinds /\ c.at \in Cells BY CommandFields DEF Spawn
<1>2. Created' = Created \cup {c.id} BY <1>1 DEF TypeOK, Spawn, Created
<1>3. Recipes[c.kind].hp > 0 BY DEF Spawn, ValidStats
<1>4. \A e \in active : e \in Id /\ e # c.id
  BY ExistingEntity DEF Spawn, TypeOK
<1>5. /\ pos' = [pos EXCEPT ![c.id] = c.at] /\ unit' = [unit EXCEPT ![c.id] = c.kind]
      /\ hp' = [hp EXCEPT ![c.id] = Recipes[c.kind].hp] /\ active' = active \cup {c.id}
      /\ out' = {[ev |-> "EntityCreated", id |-> c.id, at |-> c.at]} /\ c.id \notin Created
  BY DEF Spawn
<1>6. /\ pos \in [Id -> Cells \cup {None}] /\ unit \in [Id -> Kinds \cup {None}]
      /\ hp \in [Id -> Int]
  BY DEF TypeOK
<1>7. pos'[c.id] = c.at /\ unit'[c.id] = c.kind /\ hp'[c.id] = Recipes[c.kind].hp
  BY <1>1, <1>5, <1>6
<1>8. \A e \in active : pos'[e] = pos[e] /\ hp'[e] = hp[e] /\ unit'[e] = unit[e]
  BY <1>4, <1>5, <1>6
<1> QED BY <1>1, <1>2, <1>3, <1>5, <1>7, <1>8 DEF Born

LEMMA MarchGoes == ASSUME TypeOK, NEW c \in MarchCommands, March(c) PROVE Goes(c.id)
<1>1. /\ out' # {}
      /\ out' \subseteq {[ev |-> "MarchStarted", id |-> c.id, at |-> pos[c.id], target |-> c.to],
                         [ev |-> "MarchEnded", id |-> c.id, at |-> pos[c.id]]}
  BY DEF March
<1>2. c.id \in active /\ UNCHANGED << order, active, unit, pos, hp >>
  BY DEF March, MarchAccepted, Exists
<1> QED BY <1>1, <1>2 DEF Goes

LEMMA MoveGoes == ASSUME TypeOK, Move PROVE Goes(Actor)
<1>1. PICK to \in Moves(Actor, Rule) :
        /\ pos' = [pos EXCEPT ![Actor] = to] /\ out' # {}
        /\ out' \subseteq {[ev |-> "EntityMoved", id |-> Actor, from |-> pos[Actor], at |-> to],
                           [ev |-> "MarchEnded", id |-> Actor, at |-> to]}
  BY DEF Move
<1>2. Actor \in active /\ Actor \in Id BY InItsTurn DEF Move, Fires
<1>3. pos'[Actor] = to /\ \A e \in active \ {Actor} : pos'[e] = pos[e]
  BY <1>1, <1>2, ExistingEntity DEF TypeOK
<1>4. UNCHANGED << order, active, unit, hp >> BY DEF Move
<1> QED BY <1>1, <1>2, <1>3, <1>4 DEF Goes

LEMMA HealHeals == ASSUME TypeOK, Heal PROVE \E healed \in SUBSET active : Heals(healed)
<1>1. PICK picked \in Picks(Actor, Rule) :
        /\ hp' = [t \in Id |-> IF t \in Healed(Actor, Rule, picked)
                                 THEN IntAdd(hp[t], Amount(Actor, Rule)) ELSE hp[t]]
        /\ out' = {[ev |-> "Heal", source |-> Actor, id |-> t,
                    hp |-> IntAdd(hp[t], Amount(Actor, Rule))] : t \in Healed(Actor, Rule, picked)}
  BY DEF Heal
<1> DEFINE healed == Healed(Actor, Rule, picked)
           gain(t) == IntAdd(hp[t], Amount(Actor, Rule))
<1>2. healed \in SUBSET active /\ \A t \in healed : hp[t] > 0 BY DEF Healed, Exists
<1>3. \A e \in active : e \in Id BY ExistingEntity
<1>4. UNCHANGED << order, active, unit, pos >> BY DEF Heal
<1>5. /\ hp' = [t \in Id |-> IF t \in healed THEN gain(t) ELSE hp[t]]
      /\ out' = {[ev |-> "Heal", source |-> Actor, id |-> t, hp |-> gain(t)] : t \in healed}
  BY <1>1
<1> HIDE DEF healed, gain
<1>6. \A t \in healed : t \in Id /\ hp'[t] = gain(t) BY <1>2, <1>3, <1>5
<1>7. \A ev \in out' : ev.ev = "Heal" /\ ev.id \in healed /\ ev.hp = hp'[ev.id]
  BY <1>5, <1>6
<1>8. ASSUME NEW t \in healed PROVE \E ev \in out' : ev.id = t
  <2>1. [ev |-> "Heal", source |-> Actor, id |-> t, hp |-> gain(t)] \in out' BY <1>5
  <2> QED BY <2>1
<1>9. \A e \in active \ healed : hp'[e] = hp[e] BY <1>3, <1>5
<1>10. Heals(healed) BY <1>2, <1>4, <1>7, <1>8, <1>9 DEF Heals
<1> QED BY <1>2, <1>10

LEMMA BlowsStrike ==
  ASSUME TypeOK, Strike \/ Explode \/ DestroySelf
  PROVE  \E a, hurt, amount, gone : Strikes(a, hurt, amount, gone)
<1>1. /\ Actor \in active /\ Rule \in RuleType /\ Amount(Actor, Rule) \in Int
      /\ \A e \in active : e \in Id
  BY InItsTurn, AmountIsANumber, ExistingEntity DEF Strike, Explode, DestroySelf, Fires
<1>2. ASSUME NEW picked \in Picks(Actor, Rule), NEW hurt, hurt = Hurt(Actor, Rule, picked)
      PROVE  /\ hurt \in SUBSET (active \ {Actor}) /\ \A t \in hurt : hp[t] > 0
             /\ hurt # {} => Amount(Actor, Rule) > 0
  BY <1>1, <1>2, OthersArePicked DEF Hurt
<1>3. CASE Strike
  <2>1. PICK picked \in Picks(Actor, Rule) :
          /\ hp' = Wounded(Hurt(Actor, Rule, picked), Amount(Actor, Rule))
          /\ out' = DamageEvents(Actor, Hurt(Actor, Rule, picked), Amount(Actor, Rule))
    BY <1>3 DEF Strike
  <2>2. UNCHANGED << order, active, unit, pos >> BY <1>3 DEF Strike
  <2> DEFINE hurt == Hurt(Actor, Rule, picked)
             amount == Amount(Actor, Rule)
  <2>3. /\ hurt \in SUBSET (active \ {Actor}) /\ \A t \in hurt : hp[t] > 0
        /\ hurt # {} => amount > 0
    BY <1>2
  <2>4. hp' = Wounded(hurt, amount) /\ out' = DamageEvents(Actor, hurt, amount) /\ amount \in Int
    BY <1>1, <2>1
  <2> HIDE DEF hurt, amount
  <2>5. \A e \in active' : hp'[e] = IF e \in hurt THEN hp[e] - amount ELSE hp[e]
    BY <1>1, <2>2, <2>4 DEF Wounded
  <2>6. out' = DamageEvents(Actor, hurt, amount) \cup {DestroyedEvent(e) : e \in {}} BY <2>4
  <2>7. Strikes(Actor, hurt, amount, {}) BY <1>1, <2>2, <2>3, <2>4, <2>5, <2>6 DEF Strikes
  <2> QED BY <2>7
<1>4. ASSUME NEW h \in [Id -> Int], Remove({Actor}, h)
      PROVE  /\ active' = active \ {Actor}
             /\ \A e \in active' : pos'[e] = pos[e] /\ unit'[e] = unit[e] /\ hp'[e] = h[e]
  BY <1>1, <1>4 DEF Remove, Erased
<1>5. CASE Explode
  <2>1. PICK picked \in Picks(Actor, Rule) :
          /\ Remove({Actor}, Wounded(Hurt(Actor, Rule, picked), Amount(Actor, Rule)))
          /\ out' = DamageEvents(Actor, Hurt(Actor, Rule, picked), Amount(Actor, Rule))
                      \cup {DestroyedEvent(Actor)}
    BY <1>5 DEF Explode
  <2> DEFINE hurt == Hurt(Actor, Rule, picked)
             amount == Amount(Actor, Rule)
  <2>2. /\ hurt \in SUBSET (active \ {Actor}) /\ \A t \in hurt : hp[t] > 0
        /\ hurt # {} => amount > 0
    BY <1>2
  <2>3. /\ Remove({Actor}, Wounded(hurt, amount)) /\ amount \in Int
        /\ out' = DamageEvents(Actor, hurt, amount) \cup {DestroyedEvent(Actor)}
    BY <1>1, <2>1
  <2>4. order' = order BY <1>5 DEF Explode
  <2> HIDE DEF hurt, amount
  <2>5. Wounded(hurt, amount) \in [Id -> Int] BY <2>3 DEF TypeOK, Wounded
  <2>6. /\ active' = active \ {Actor}
        /\ \A e \in active' : /\ pos'[e] = pos[e] /\ unit'[e] = unit[e]
                              /\ hp'[e] = Wounded(hurt, amount)[e]
    BY <1>4, <2>3, <2>5
  <2>7. \A e \in active' : hp'[e] = IF e \in hurt THEN hp[e] - amount ELSE hp[e]
    BY <1>1, <2>6 DEF Wounded
  <2>8. out' = DamageEvents(Actor, hurt, amount) \cup {DestroyedEvent(e) : e \in {Actor}} BY <2>3
  <2>9. Strikes(Actor, hurt, amount, {Actor})
    BY <1>1, <2>2, <2>3, <2>4, <2>6, <2>7, <2>8 DEF Strikes
  <2> QED BY <2>9
<1>6. CASE DestroySelf
  <2>1. Remove({Actor}, hp) /\ out' = {DestroyedEvent(Actor)} /\ order' = order
    BY <1>6 DEF DestroySelf
  <2>2. hp \in [Id -> Int] BY DEF TypeOK
  <2>3. /\ active' = active \ {Actor}
        /\ \A e \in active' : pos'[e] = pos[e] /\ unit'[e] = unit[e] /\ hp'[e] = hp[e]
    BY <1>4, <2>1, <2>2
  <2>4. out' = DamageEvents(Actor, {}, 0) \cup {DestroyedEvent(e) : e \in {Actor}}
    BY <2>1 DEF DamageEvents, Killed
  <2>5. Strikes(Actor, {}, 0, {Actor}) BY <1>1, <2>1, <2>3, <2>4 DEF Strikes
  <2> QED BY <2>5
<1> QED BY <1>3, <1>5, <1>6

\* What a reader may see happen in one step.
LEMMA StepsAsRead ==
  ASSUME TypeOK, Ended, Next
  PROVE  \/ Silent
         \/ \E c \in SpawnCommands : Born(c)
         \/ \E m : Goes(m)
         \/ Heal /\ \E healed \in SUBSET active : Heals(healed)
         \/ \E a, hurt, amount, gone : Strikes(a, hurt, amount, gone)
<1>1. CASE Exited
  BY <1>1 DEF Exited, Ended, Silent, vars, world
<1>2. CASE \E c \in SpawnCommands : Spawn(c) BY <1>2, SpawnIsABirth
<1>3. CASE \E c \in MarchCommands : March(c) BY <1>3, MarchGoes
<1>4. CASE Move BY <1>4, MoveGoes
<1>5. CASE Heal BY <1>5, HealHeals
<1>6. CASE Strike \/ Explode \/ DestroySelf BY <1>6, BlowsStrike
<1>7. CASE AfterTick BY <1>7, AfterTickIsSilent
<1>8. CASE \/ CreateMap \/ ParserThrows \/ Run \/ Startup \/ BeforeTick \/ EndTick \/ Cleanup
           \/ Shutdown \/ BeginTurn \/ SkipTurn \/ RuleFails \/ SetActionState
  <2>1. out' \subseteq {[ev |-> "MapCreated"]}
    BY <1>8 DEF CreateMap, ParserThrows, Run, Startup, BeforeTick, EndTick, Cleanup, Shutdown,
                BeginTurn, SkipTurn, RuleFails, SetActionState
  <2>2. UNCHANGED << order, active, unit, pos, hp >>
    BY <1>8 DEF CreateMap, ParserThrows, Run, Startup, BeforeTick, EndTick, Cleanup, Shutdown,
                BeginTurn, SkipTurn, RuleFails, SetActionState, world
  <2> QED BY <2>1, <2>2 DEF Silent
<1> QED
  BY <1>1, <1>2, <1>3, <1>4, <1>5, <1>6, <1>7, <1>8 DEF Next, Commands, EngineStep, Turns

-----------------------------------------------------------------------------
(* What the viewer makes of it *)

Placing == {"EntityCreated", "MarchStarted", "MarchEnded", "EntityMoved"}
Changing == {"Damage", "Heal"}

\* Is there a record of these kinds about e, and what do they all say?
Says(e, kinds) == \E ev \in out' : ev.ev \in kinds /\ ev.id = e

LEMMA OneOfThem == ASSUME NEW S, S # {} PROVE TheOne(S) \in S
  BY DEF TheOne

LEMMA AboutMeansSays ==
  ASSUME NEW e, NEW kinds
  PROVE  /\ About(e, kinds) # {} <=> Says(e, kinds)
         /\ Says(e, kinds) => /\ TheOne(About(e, kinds)) \in out'
                              /\ TheOne(About(e, kinds)).ev \in kinds
                              /\ TheOne(About(e, kinds)).id = e
<1>1. About(e, kinds) # {} <=> Says(e, kinds) BY DEF About, Says
<1>2. ASSUME Says(e, kinds) PROVE TheOne(About(e, kinds)) \in About(e, kinds)
  BY <1>1, <1>2, OneOfThem
<1> QED BY <1>1, <1>2 DEF About

LEMMA Fields ==
  ASSUME ApplyEvents, NEW e \in Id
  PROVE  /\ view'[e].at = SeenAt(e) /\ view'[e].hp = SeenHp(e)
         /\ view'[e].alive = SeenAlive(e)
  BY DEF ApplyEvents

\* A field stays as it was without a record that carries it; with records that
\* agree it is what they say.
LEMMA PlaceRead ==
  ASSUME ApplyEvents, NEW e \in Id
  PROVE  /\ ~Says(e, Placing) => view'[e].at = view[e].at
         /\ \A p : /\ Says(e, Placing)
                   /\ \A ev \in out' : ev.ev \in Placing /\ ev.id = e => ev.at = p
                   => view'[e].at = p
<1>1. view'[e].at = IF About(e, Placing) = {} THEN view[e].at ELSE TheOne(About(e, Placing)).at
  BY Fields DEF SeenAt, Placing
<1> QED BY <1>1, AboutMeansSays

LEMMA HealthRead ==
  ASSUME ApplyEvents, NEW e \in Id
  PROVE  /\ Says(e, {"EntityCreated"}) => view'[e].hp = None
         /\ ~Says(e, {"EntityCreated"}) =>
              /\ ~Says(e, Changing) => view'[e].hp = view[e].hp
              /\ \A n : /\ Says(e, Changing)
                        /\ \A ev \in out' : ev.ev \in Changing /\ ev.id = e => ev.hp = n
                        => view'[e].hp = n
<1>1. view'[e].hp = IF About(e, {"EntityCreated"}) # {} THEN None
                    ELSE IF About(e, Changing) = {} THEN view[e].hp
                    ELSE TheOne(About(e, Changing)).hp
  BY Fields DEF SeenHp, Changing
<1> QED BY <1>1, AboutMeansSays

LEMMA LifeRead ==
  ASSUME ApplyEvents, NEW e \in Id
  PROVE  view'[e].alive <=> /\ ~Says(e, {"EntityRemoved"})
                            /\ view[e].alive \/ Says(e, {"EntityCreated", "Heal"})
<1>1. SeenAlive(e) <=> /\ ~Says(e, {"EntityRemoved"})
                       /\ view[e].alive \/ Says(e, {"EntityCreated", "Heal"})
  <2>1. /\ About(e, {"EntityRemoved"}) = {} <=> ~Says(e, {"EntityRemoved"})
        /\ About(e, {"EntityCreated", "Heal"}) # {} <=> Says(e, {"EntityCreated", "Heal"})
    BY AboutMeansSays
  <2> QED BY <2>1, Zenon DEF SeenAlive
<1>2. view'[e].alive = SeenAlive(e) BY Fields
<1> QED BY <1>1, <1>2, Zenon

\* The records of blows.
LEMMA StrikesSay ==
  ASSUME NEW a, NEW hurt, NEW amount, NEW gone, Strikes(a, hurt, amount, gone), NEW e \in Id
  PROVE  /\ ~Says(e, Placing) /\ ~Says(e, {"EntityCreated"}) /\ ~Says(e, {"EntityCreated", "Heal"})
         /\ Says(e, Changing) <=> e \in hurt
         /\ \A ev \in out' : ev.ev \in Changing => ev.hp = hp[ev.id] - amount
         /\ Says(e, {"EntityRemoved"}) <=> e \in Killed(hurt, amount) \cup gone
<1> DEFINE blow(t) == [ev |-> "Damage", source |-> a, id |-> t, hp |-> hp[t] - amount]
           death(t) == [ev |-> "EntityRemoved", id |-> t, at |-> pos[t], reason |-> "Death"]
           end(t) == [ev |-> "EntityRemoved", id |-> t, at |-> pos[t], reason |-> "Destroyed"]
<1>1. out' = {blow(t) : t \in hurt} \cup {death(t) : t \in Killed(hurt, amount)}
               \cup {end(t) : t \in gone}
  BY DEF Strikes, DamageEvents, DestroyedEvent
<1>2. \A ev \in out' : \/ \E t \in hurt : ev = blow(t)
                       \/ \E t \in Killed(hurt, amount) : ev = death(t)
                       \/ \E t \in gone : ev = end(t)
  BY <1>1
<1>3. ASSUME NEW t PROVE /\ t \in hurt => blow(t) \in out'
                         /\ t \in Killed(hurt, amount) => death(t) \in out'
                         /\ t \in gone => end(t) \in out'
  BY <1>1
<1>4. \A t : /\ blow(t).ev = "Damage" /\ blow(t).id = t /\ blow(t).hp = hp[t] - amount
             /\ death(t).ev = "EntityRemoved" /\ death(t).id = t
             /\ end(t).ev = "EntityRemoved" /\ end(t).id = t
  OBVIOUS
<1> HIDE DEF blow, death, end
<1>5. \A ev \in out' : ev.ev \in {"Damage", "EntityRemoved"} BY <1>2, <1>4
<1>6. /\ ~Says(e, Placing) /\ ~Says(e, {"EntityCreated"}) /\ ~Says(e, {"EntityCreated", "Heal"})
  BY <1>5 DEF Says, Placing
<1>7. \A ev \in out' : ev.ev \in Changing => \E t \in hurt : ev = blow(t)
  BY <1>2, <1>4 DEF Changing
<1>8. Says(e, Changing) <=> e \in hurt
  BY <1>3, <1>4, <1>7 DEF Says, Changing
<1>9. \A ev \in out' : ev.ev \in Changing => ev.hp = hp[ev.id] - amount
  BY <1>4, <1>7
<1>10. Says(e, {"EntityRemoved"}) <=> e \in Killed(hurt, amount) \cup gone
  BY <1>2, <1>3, <1>4 DEF Says
<1> QED BY <1>6, <1>8, <1>9, <1>10

-----------------------------------------------------------------------------
(* Where and how healthy *)

LEMMA ViewStep ==
  ASSUME TypeOK, Ended, ViewIsAccurate, Next, ApplyEvents
  PROVE  ViewIsAccurate'
<1>1. \A e \in active : e \in Id BY ExistingEntity
<1>2. CASE Silent
  <2>1. \A e \in Id : ~Says(e, Placing) /\ ~Says(e, {"EntityCreated"}) /\ ~Says(e, Changing)
    BY <1>2 DEF Silent, Says, Placing, Changing
  <2>2. \A e \in active : view'[e].at = view[e].at /\ view'[e].hp = view[e].hp
    BY <1>1, <2>1, PlaceRead, HealthRead
  <2> QED BY <1>2, <2>2 DEF Silent, ViewIsAccurate, Recipe
<1>3. ASSUME NEW c \in SpawnCommands, Born(c) PROVE ViewIsAccurate'
  <2>1. \A e \in Id \ {c.id} : /\ ~Says(e, Placing) /\ ~Says(e, {"EntityCreated"})
                               /\ ~Says(e, Changing)
    BY <1>3 DEF Born, Says
  <2>2. \A e \in active : e \in Id \ {c.id} BY <1>1, <1>3 DEF Born, TypeOK
  <2>3. \A e \in active : view'[e].at = view[e].at /\ view'[e].hp = view[e].hp
    BY <2>1, <2>2, PlaceRead, HealthRead
  <2>4. /\ Says(c.id, Placing) /\ Says(c.id, {"EntityCreated"})
        /\ \A ev \in out' : ev.at = c.at
    BY <1>3 DEF Born, Says, Placing
  <2>5. c.id \in Id BY <1>3 DEF Born
  <2>6. view'[c.id].at = c.at /\ view'[c.id].hp = None
    BY <2>4, <2>5, PlaceRead, HealthRead
  <2> QED BY <1>3, <2>3, <2>6 DEF Born, ViewIsAccurate, Recipe
<1>4. ASSUME NEW m, Goes(m) PROVE ViewIsAccurate'
  <2>1. \A e \in Id : ~Says(e, {"EntityCreated"}) /\ ~Says(e, Changing)
    BY <1>4 DEF Goes, Says, Changing
  <2>2. \A e \in Id \ {m} : ~Says(e, Placing) BY <1>4 DEF Goes, Says
  <2>3. Says(m, Placing) /\ \A ev \in out' : ev.at = pos'[m]
    BY <1>4 DEF Goes, Says, Placing
  <2>4. m \in Id BY <1>1, <1>4 DEF Goes
  <2>5. view'[m].at = pos'[m] BY <2>3, <2>4, PlaceRead
  <2>6. \A e \in active : /\ view'[e].hp = view[e].hp
                          /\ e # m => view'[e].at = view[e].at
    BY <1>1, <2>1, <2>2, PlaceRead, HealthRead
  <2> QED BY <1>4, <2>5, <2>6 DEF Goes, ViewIsAccurate, Recipe
<1>5. ASSUME NEW healed \in SUBSET active, Heals(healed) PROVE ViewIsAccurate'
  <2>1. \A e \in Id : ~Says(e, Placing) /\ ~Says(e, {"EntityCreated"})
    BY <1>5 DEF Heals, Says, Placing
  <2>2. /\ \A e \in Id \ healed : ~Says(e, Changing)
        /\ \A e \in healed : /\ Says(e, Changing)
                             /\ \A ev \in out' : ev.id = e => ev.hp = hp'[e]
    BY <1>5 DEF Heals, Says, Changing
  <2>3. \A e \in healed : view'[e].hp = hp'[e]
    BY <1>1, <2>1, <2>2, HealthRead
  <2>4. \A e \in active \ healed : view'[e].hp = view[e].hp
    BY <1>1, <2>1, <2>2, HealthRead
  <2>5. \A e \in active : view'[e].at = view[e].at BY <1>1, <2>1, PlaceRead
  <2> QED BY <1>5, <2>3, <2>4, <2>5 DEF Heals, ViewIsAccurate, Recipe
<1>6. ASSUME NEW a, NEW hurt, NEW amount, NEW gone, Strikes(a, hurt, amount, gone)
      PROVE  ViewIsAccurate'
  <2>1. \A e \in active : view'[e].at = view[e].at
    BY <1>1, <1>6, StrikesSay, PlaceRead
  <2>2. \A e \in active \ hurt : view'[e].hp = view[e].hp
    BY <1>1, <1>6, StrikesSay, HealthRead
  <2>3. \A e \in hurt : view'[e].hp = hp[e] - amount
    <3> SUFFICES ASSUME NEW e \in hurt PROVE view'[e].hp = hp[e] - amount OBVIOUS
    <3>1. e \in Id BY <1>1, <1>6 DEF Strikes
    <3>2. /\ Says(e, Changing) /\ ~Says(e, {"EntityCreated"})
          /\ \A ev \in out' : ev.ev \in Changing /\ ev.id = e => ev.hp = hp[e] - amount
      BY <1>6, <3>1, StrikesSay
    <3> QED BY <3>1, <3>2, HealthRead
  <2> QED BY <1>6, <2>1, <2>2, <2>3 DEF Strikes, ViewIsAccurate, Recipe
<1> QED BY <1>2, <1>3, <1>4, <1>5, <1>6, StepsAsRead

-----------------------------------------------------------------------------
(* Who is alive, and whose death was told: as long as no healing overflows *)

\* Healings told to the reader, none of which wraps anybody's hit points.
FitHeals(healed) ==
  Heals(healed) /\ \A t \in active : hp'[t] > 0 <=> hp[t] > 0

LEMMA StepsAsReadIfFit ==
  ASSUME TypeOK, Ended, Next, [HealingFits]_vars
  PROVE  \/ Silent
         \/ \E c \in SpawnCommands : Born(c)
         \/ \E m : Goes(m)
         \/ \E healed \in SUBSET active : FitHeals(healed)
         \/ \E a, hurt, amount, gone : Strikes(a, hurt, amount, gone)
<1>1. ASSUME Heal, NEW healed \in SUBSET active, Heals(healed) PROVE FitHeals(healed)
  BY <1>1, HealingKeepsAlive DEF FitHeals
<1> QED BY <1>1, StepsAsRead

LEMMA LivingStep ==
  ASSUME TypeOK, Ended, LivingAreShown, Next, ApplyEvents, [HealingFits]_vars
  PROVE  LivingAreShown'
<1>1. \A e \in active : e \in Id /\ hp[e] \in Int BY HitPointsAreNumbers
<1>2. CASE Silent
  <2>1. \A e \in Id : ~Says(e, {"EntityRemoved"}) /\ ~Says(e, {"EntityCreated", "Heal"})
    BY <1>2 DEF Silent, Says
  <2>2. \A e \in Id : view'[e].alive <=> view[e].alive BY <2>1, LifeRead
  <2>3. \A e \in Id : IsAlive(e)' <=> IsAlive(e) BY <1>2 DEF Silent, IsAlive, Exists
  <2> QED BY <2>2, <2>3 DEF LivingAreShown
<1>3. ASSUME NEW c \in SpawnCommands, Born(c) PROVE LivingAreShown'
  <2>1. \A e \in Id : /\ ~Says(e, {"EntityRemoved"})
                      /\ Says(e, {"EntityCreated", "Heal"}) <=> e = c.id
    BY <1>3 DEF Born, Says
  <2>2. \A e \in Id : view'[e].alive <=> view[e].alive \/ e = c.id BY <2>1, LifeRead
  <2>3. \A e \in Id : IsAlive(e)' <=> IsAlive(e) \/ e = c.id
    BY <1>3 DEF Born, IsAlive, Exists, TypeOK
  <2> QED BY <2>2, <2>3 DEF LivingAreShown
<1>4. ASSUME NEW m, Goes(m) PROVE LivingAreShown'
  <2>1. \A e \in Id : ~Says(e, {"EntityRemoved"}) /\ ~Says(e, {"EntityCreated", "Heal"})
    BY <1>4 DEF Goes, Says
  <2>2. \A e \in Id : view'[e].alive <=> view[e].alive BY <2>1, LifeRead
  <2>3. \A e \in Id : IsAlive(e)' <=> IsAlive(e) BY <1>4 DEF Goes, IsAlive, Exists
  <2> QED BY <2>2, <2>3 DEF LivingAreShown
<1>5. ASSUME NEW healed \in SUBSET active, FitHeals(healed) PROVE LivingAreShown'
  <2>1. \A e \in Id : /\ ~Says(e, {"EntityRemoved"})
                      /\ Says(e, {"EntityCreated", "Heal"}) <=> e \in healed
    BY <1>5 DEF FitHeals, Heals, Says
  <2>2. \A e \in healed : e \in Id /\ IsAlive(e)
    BY <1>1, <1>5 DEF FitHeals, Heals, IsAlive, Exists
  <2>3. \A e \in Id : view'[e].alive <=> view[e].alive BY <2>1, <2>2, LifeRead DEF LivingAreShown
  <2>4. \A e \in Id : IsAlive(e)' <=> IsAlive(e)
    BY <1>5 DEF FitHeals, Heals, IsAlive, Exists
  <2> QED BY <2>3, <2>4 DEF LivingAreShown
<1>6. ASSUME NEW a, NEW hurt, NEW amount, NEW gone, Strikes(a, hurt, amount, gone)
      PROVE  LivingAreShown'
  <2>1. \A e \in Id : view'[e].alive <=> view[e].alive /\ e \notin Killed(hurt, amount) \cup gone
    BY <1>6, StrikesSay, LifeRead
  <2>2. \A e \in Id : IsAlive(e)' <=> IsAlive(e) /\ e \notin Killed(hurt, amount) \cup gone
    BY <1>1, <1>6 DEF Strikes, IsAlive, Exists, Killed
  <2> QED BY <2>1, <2>2 DEF LivingAreShown
<1> QED BY <1>2, <1>3, <1>4, <1>5, <1>6, StepsAsReadIfFit

\* One record each for those a blow kills, and one for an attacker that is gone.
LEMMA StrikesCount ==
  ASSUME TypeOK, NEW a, NEW hurt, NEW amount, NEW gone, Strikes(a, hurt, amount, gone), NEW e \in Id
  PROVE  Cardinality(About(e, {"EntityRemoved"})) =
           IF e \in Killed(hurt, amount) \cup gone THEN 1 ELSE 0
<1> DEFINE blow(t) == [ev |-> "Damage", source |-> a, id |-> t, hp |-> hp[t] - amount]
           death(t) == [ev |-> "EntityRemoved", id |-> t, at |-> pos[t], reason |-> "Death"]
           end(t) == [ev |-> "EntityRemoved", id |-> t, at |-> pos[t], reason |-> "Destroyed"]
           dead == Killed(hurt, amount)
           told == About(e, {"EntityRemoved"})
<1>1. out' = {blow(t) : t \in hurt} \cup {death(t) : t \in dead} \cup {end(t) : t \in gone}
  BY DEF Strikes, DamageEvents, DestroyedEvent
<1>2. dead \cap gone = {} BY DEF Strikes, Killed
<1>3. \A t : /\ blow(t).ev = "Damage"
             /\ death(t).ev = "EntityRemoved" /\ death(t).id = t
             /\ end(t).ev = "EntityRemoved" /\ end(t).id = t
  OBVIOUS
<1> HIDE DEF blow, death, end, dead
<1>4. told = {ev \in out' : ev.ev = "EntityRemoved" /\ ev.id = e} BY DEF About
<1>5. CASE e \in dead
  <2>1. told = {death(e)} BY <1>1, <1>2, <1>3, <1>4, <1>5
  <2> QED BY <1>5, <2>1, FS_Singleton DEF dead
<1>6. CASE e \in gone
  <2>1. told = {end(e)} BY <1>1, <1>2, <1>3, <1>4, <1>6
  <2> QED BY <1>6, <2>1, FS_Singleton
<1>7. CASE e \notin dead \cup gone
  <2>1. told = {} BY <1>1, <1>3, <1>4, <1>7
  <2> QED BY <1>7, <2>1, FS_EmptySet DEF dead
<1> QED BY <1>5, <1>6, <1>7

\* Nobody who was not born or is alive has a death record; the dead that still stand
\* on the map have one.
DeathsOK ==
  /\ deaths \in [Id -> Nat]
  /\ \A e \in Id : /\ e \notin Created => deaths[e] = 0
                   /\ IsAlive(e) => deaths[e] = 0
                   /\ e \in active /\ ~IsAlive(e) => deaths[e] = 1
                   /\ e \in Created \ active => deaths[e] \in {1, 2}

LEMMA DeathsOKMeansReported == TypeOK /\ DeathsOK => DeathsAreReported
  BY DEF TypeOK, DeathsOK, DeathsAreReported, IsAlive, Exists

LEMMA DeathsStep ==
  ASSUME TypeOK, Ended, DeathsOK, Next, CountDeaths, [HealingFits]_vars
  PROVE  DeathsOK'
<1>1. \A e \in active : e \in Id /\ hp[e] \in Int BY HitPointsAreNumbers
<1>2. active \subseteq Created BY DEF TypeOK
<1>4. \A e \in Id : deaths'[e] = deaths[e] + Cardinality(About(e, {"EntityRemoved"}))
  BY DEF CountDeaths
<1>5. ASSUME \A e \in Id : ~Says(e, {"EntityRemoved"}) PROVE deaths' = deaths
  <2>1. \A e \in Id : Cardinality(About(e, {"EntityRemoved"})) = 0
    BY <1>5, AboutMeansSays, FS_EmptySet
  <2>2. deaths' = [e \in Id |-> deaths[e] + Cardinality(About(e, {"EntityRemoved"}))]
    BY DEF CountDeaths
  <2> QED BY <2>1, <2>2 DEF DeathsOK
<1>6. CASE Silent
  <2>1. deaths' = deaths BY <1>5, <1>6 DEF Silent, Says
  <2> QED BY <1>6, <2>1 DEF Silent, DeathsOK, Created, IsAlive, Exists
<1>7. ASSUME NEW c \in SpawnCommands, Born(c) PROVE DeathsOK'
  <2>1. deaths' = deaths BY <1>5, <1>7 DEF Born, Says
  <2>2. \A e \in Id : IsAlive(e)' <=> IsAlive(e) \/ e = c.id
    BY <1>2, <1>7 DEF Born, IsAlive, Exists
  <2> QED BY <1>2, <1>7, <2>1, <2>2 DEF Born, DeathsOK
<1>8. ASSUME NEW m, Goes(m) PROVE DeathsOK'
  <2>1. deaths' = deaths BY <1>5, <1>8 DEF Goes, Says
  <2> QED BY <1>8, <2>1 DEF Goes, DeathsOK, Created, IsAlive, Exists
<1>9. ASSUME NEW a, NEW hurt, NEW amount, NEW gone, Strikes(a, hurt, amount, gone)
      PROVE  DeathsOK'
  <2> DEFINE told == Killed(hurt, amount) \cup gone
  <2>1. \A e \in Id : deaths'[e] = deaths[e] + IF e \in told THEN 1 ELSE 0
    BY <1>4, <1>9, StrikesCount
  <2>2. deaths' \in [Id -> Nat]
    <3>1. DOMAIN deaths' = Id /\ deaths' = [e \in Id |-> deaths'[e]] BY DEF CountDeaths
    <3>2. \A e \in Id : deaths'[e] \in Nat BY <2>1 DEF DeathsOK
    <3> QED BY <3>1, <3>2
  <2>3. \A e \in Id : IsAlive(e)' <=> IsAlive(e) /\ e \notin told
    BY <1>1, <1>9 DEF Strikes, IsAlive, Exists, Killed
  <2>4. active' = active \ gone /\ Created' = Created /\ gone \subseteq active
    BY <1>9 DEF Strikes, Created
  <2>5. \A e \in Killed(hurt, amount) : IsAlive(e) /\ e \in active \ gone
    BY <1>9 DEF Strikes, Killed, IsAlive, Exists
  <2> QED BY <1>2, <2>1, <2>2, <2>3, <2>4, <2>5 DEF DeathsOK
<1>10. ASSUME NEW healed \in SUBSET active, FitHeals(healed) PROVE DeathsOK'
  <2>1. deaths' = deaths BY <1>5, <1>10 DEF FitHeals, Heals, Says
  <2>2. UNCHANGED << order, active >> BY <1>10 DEF FitHeals, Heals
  <2>3. \A e \in Id : IsAlive(e)' <=> IsAlive(e)
    BY <1>10 DEF FitHeals, Heals, IsAlive, Exists
  <2> QED BY <2>1, <2>2, <2>3 DEF DeathsOK, Created
<1> QED BY <1>6, <1>7, <1>8, <1>9, <1>10, StepsAsReadIfFit

-----------------------------------------------------------------------------
(* The theorems *)

LEMMA TraceStarts == TraceInit => TypeOK /\ Ended /\ ViewIsAccurate /\ LivingAreShown /\ DeathsOK
<1> SUFFICES ASSUME TraceInit
             PROVE  TypeOK /\ Ended /\ ViewIsAccurate /\ LivingAreShown /\ DeathsOK
  OBVIOUS
<1>1. TypeOK BY InitTypes DEF TraceInit
<1>2. active = {} /\ order = << >> /\ phase = "commands" BY DEF TraceInit, Init
<1>3. Created = {} BY <1>2 DEF Created
<1>4. (\A e \in Id : ~view[e].alive) /\ deaths = [e \in Id |-> 0] BY DEF TraceInit, Unseen
<1> QED
  BY <1>1, <1>2, <1>3, <1>4 DEF Ended, ViewIsAccurate, LivingAreShown, DeathsOK, IsAlive, Exists

LEMMA TraceTypes == TypeOK /\ Ended /\ [TraceNext]_traceVars => TypeOK' /\ Ended'
<1> SUFFICES ASSUME TypeOK, Ended, [TraceNext]_traceVars PROVE TypeOK' /\ Ended'
  OBVIOUS
<1>1. [Next]_vars BY DEF TraceNext, traceVars
<1>2. WorldOK' /\ LoopOK' /\ (out \subseteq EventType)'
  BY <1>1, WorldTypes, LoopTypes, EventTypes
<1> QED BY <1>1, <1>2, EndedStep DEF WorldOK, LoopOK, TypeOK

LEMMA TraceIsTyped == TraceSpec => [](TypeOK /\ Ended)
  BY TraceStarts, TraceTypes, PTL DEF TraceSpec

\* The viewer shows every unit where it is and as healthy as it is, the dead that still
\* stand on the map included: applyEvent keeps up with every way a unit is placed,
\* moved, struck and healed.
THEOREM ViewTheorem == TraceSpec => []ViewIsAccurate
<1>1. TypeOK /\ Ended /\ ViewIsAccurate /\ [TraceNext]_traceVars => ViewIsAccurate'
  <2> SUFFICES ASSUME TypeOK, Ended, ViewIsAccurate, [TraceNext]_traceVars PROVE ViewIsAccurate'
    OBVIOUS
  <2>1. CASE TraceNext BY <2>1, ViewStep DEF TraceNext
  <2>2. CASE UNCHANGED traceVars
    BY <2>2 DEF traceVars, vars, world, ViewIsAccurate, Recipe
  <2> QED BY <2>1, <2>2
<1> QED BY <1>1, TraceStarts, TraceIsTyped, PTL DEF TraceSpec

\* Whoever the viewer shows alive is, and nobody else, although the cleanup publishes
\* nothing.  A healing that wraps hit points is a death without a record, so none may.
THEOREM LivingTheorem ==
  TraceSpec /\ [][HealingFits]_vars => []LivingAreShown
<1>1. TypeOK /\ Ended /\ LivingAreShown /\ [TraceNext]_traceVars /\ [HealingFits]_vars
      => LivingAreShown'
  <2> SUFFICES ASSUME TypeOK, Ended, LivingAreShown, [TraceNext]_traceVars, [HealingFits]_vars
               PROVE  LivingAreShown'
    OBVIOUS
  <2>1. CASE TraceNext BY <2>1, LivingStep DEF TraceNext
  <2>2. CASE UNCHANGED traceVars
    BY <2>2 DEF traceVars, vars, world, LivingAreShown, IsAlive, Exists
  <2> QED BY <2>1, <2>2
<1> QED BY <1>1, TraceStarts, TraceIsTyped, PTL DEF TraceSpec

\* Whoever left the world has a death record, and two only if it went off after it had
\* been killed; again as long as no healing wraps hit points.
THEOREM DeathsTheorem ==
  TraceSpec /\ [][HealingFits]_vars => []DeathsAreReported
<1>1. TypeOK /\ Ended /\ DeathsOK /\ [TraceNext]_traceVars /\ [HealingFits]_vars
      => DeathsOK'
  <2> SUFFICES ASSUME TypeOK, Ended, DeathsOK, [TraceNext]_traceVars, [HealingFits]_vars
               PROVE  DeathsOK'
    OBVIOUS
  <2>1. CASE TraceNext BY <2>1, DeathsStep DEF TraceNext
  <2>2. CASE UNCHANGED traceVars
    BY <2>2 DEF traceVars, vars, world, DeathsOK, Created, IsAlive, Exists
  <2> QED BY <2>1, <2>2
<1> QED BY <1>1, TraceStarts, TraceIsTyped, DeathsOKMeansReported, PTL DEF TraceSpec

=============================================================================
