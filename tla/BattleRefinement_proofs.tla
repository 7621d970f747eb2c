----------------------- MODULE BattleRefinement_proofs -----------------------
(***************************************************************************)
(* Battle, with its loop spread over the scheduler's phases, implements    *)
(* TurnLoop, and runs on Engine: initial states map to initial states and  *)
(* every step to a step or a stutter, for both.                            *)
(***************************************************************************)
EXTENDS BattleRefinement, Battle_proofs

\* The stage of the abstract loop a state stands for.
Stage ==
  CASE phase \in {"commands", "Startup", "aborted"} -> "idle"
    [] phase \in {"Tick", "AfterTick"} -> "turns"
    [] phase \in {"BeforeTick", "Cleanup"} /\ mapReady -> "check"
    [] phase = "Shutdown" /\ mapReady /\ ~stop -> "check"
    [] OTHER -> "done"

LEMMA StageOfAPhase ==
  /\ phase \in {"commands", "Startup", "aborted"} => Stage = "idle"
  /\ phase \in {"Tick", "AfterTick"} => Stage = "turns"
  /\ phase \in {"BeforeTick", "Cleanup"} => Stage = IF mapReady THEN "check" ELSE "done"
  /\ phase = "Shutdown" => Stage = IF mapReady /\ ~stop THEN "check" ELSE "done"
  /\ phase = "done" => Stage = "done"
BY DEF Stage

LEMMA LoopInit == Init => AsLoop!Init /\ LoopFacts
BY DEF Init, AsLoop!Init, LoopFacts

\* The abstract loop's check is the battle's.
LEMMA SameCheck == AsLoop!CanContinue <=> CanContinue
BY DEF CanContinue, HasEnoughActiveEntities, AsLoop!CanContinue, Cardinality, AsLoop!Cardinality

\* One step of the abstract loop or none.
LoopStep == AsLoop!Next \/ UNCHANGED AsLoop!vars

LEMMA LoopSimulation ==
  ASSUME TypeOK, LoopFacts, [Next]_vars
  PROVE  LoopStep
<1>1. CASE CreateMap
  <2>1. /\ phase = "commands" /\ phase' = "commands" /\ ~mapReady /\ mapReady'
        /\ UNCHANGED << active, acted, ticks, tick >>
    BY <1>1 DEF CreateMap, engine, inTick
  <2>2. AsLoop!MakeMap
    BY <2>1 DEF AsLoop!MakeMap
  <2> QED BY <2>2 DEF LoopStep, AsLoop!Next
<1>2. ASSUME NEW c \in SpawnCommands, Spawn(c)
      PROVE  LoopStep
  <2>1. /\ phase = "commands" /\ phase' = "commands" /\ mapReady /\ c.id \in Id
        /\ active' = active \cup {c.id}
        /\ UNCHANGED << mapReady, acted, ticks, tick >>
    BY <1>2, CommandFields DEF Spawn, engine, inTick
  <2>2. AsLoop!Create(c.id)
    BY <2>1 DEF AsLoop!Create
  <2> QED BY <2>1, <2>2 DEF LoopStep, AsLoop!Next
<1>3. ASSUME NEW c \in MarchCommands, March(c)
      PROVE  LoopStep
  <2>1. UNCHANGED << phase, stop, mapReady, active, acted, ticks, tick >>
    BY <1>3 DEF March, engine, inTick
  <2> QED BY <2>1 DEF LoopStep, AsLoop!vars
<1>4. CASE ParserThrows \/ Run
  <2>1. /\ phase = "commands" /\ phase' \in {"aborted", "Startup"}
        /\ UNCHANGED << mapReady, active, acted, ticks, tick >>
    BY <1>4 DEF ParserThrows, Run, world, inTick
  <2> QED BY <2>1 DEF LoopStep, AsLoop!vars
<1>5. CASE Startup
  <2>1. /\ phase = "Startup" /\ phase' \in {"BeforeTick", "Shutdown"} /\ ~stop /\ ~stop'
        /\ tick' = IF mapReady THEN 2 ELSE tick
        /\ UNCHANGED << mapReady, active, acted, ticks >>
    BY <1>5 DEF LoopFacts, Startup, LoopHead, world, inTick
  <2>2. AsLoop!Enter
    BY <2>1 DEF AsLoop!Enter
  <2> QED BY <2>2 DEF LoopStep, AsLoop!Next
<1>6. CASE BeforeTick
  <2>1. phase = "BeforeTick" /\ ~stop /\ ticks < MaxTicks
        /\ UNCHANGED << mapReady, active, ticks, tick >>
    BY <1>6 DEF LoopFacts, BeforeTick, world
  <2>2. CASE CanContinue
    <3>1. phase' = "Tick" /\ acted' = FALSE /\ mapReady /\ AsLoop!CanContinue
      BY <1>6, <2>2, SameCheck DEF BeforeTick, CanContinue
    <3>2. AsLoop!Check
      BY <2>1, <3>1 DEF AsLoop!Check
    <3> QED BY <3>2 DEF LoopStep, AsLoop!Next
  <2>3. CASE ~CanContinue
    <3>1. phase' = "Shutdown" /\ stop' /\ UNCHANGED acted
      BY <1>6, <2>3 DEF BeforeTick
    <3>2. CASE mapReady
      <4>1. ~AsLoop!CanContinue
        BY <2>3, SameCheck
      <4>2. AsLoop!Check
        BY <2>1, <3>1, <3>2, <4>1 DEF AsLoop!Check
      <4> QED BY <4>2 DEF LoopStep, AsLoop!Next
    <3>3. CASE ~mapReady
      BY <2>1, <3>1, <3>3 DEF LoopStep, AsLoop!vars
    <3> QED BY <3>2, <3>3
  <2> QED BY <2>2, <2>3
<1>7. CASE EndTick \/ BeginTurn \/ SkipTurn \/ RuleFails
  <2>1. /\ phase = "Tick" /\ phase' \in {"Tick", "AfterTick"}
        /\ UNCHANGED << mapReady, active, acted, ticks, tick >>
    BY <1>7 DEF EndTick, BeginTurn, SkipTurn, RuleFails, BetweenTurns, InTurn, world, engine
  <2> QED BY <2>1 DEF LoopStep, AsLoop!vars
<1>8. CASE Strike \/ Explode \/ DestroySelf \/ Heal \/ Move \/ SetActionState
  <2>1. /\ phase = "Tick" /\ phase' = "Tick" /\ acted' = TRUE /\ Actor \in active
        /\ UNCHANGED << mapReady, ticks, tick >>
    BY <1>8, InItsTurn DEF Strike, Explode, DestroySelf, Heal, Move, SetActionState, Fires, InTurn,
                           Pay, PayAndVanish, engine
  <2>2. active' = active \/ active' = active \ {Actor}
    BY <1>8 DEF Strike, Explode, DestroySelf, Heal, Move, SetActionState, Remove
  <2>3. AsLoop!Act
    BY <2>1, <2>2 DEF AsLoop!Act
  <2> QED BY <2>3 DEF LoopStep, AsLoop!Next
<1>9. CASE AfterTick
  <2>1. /\ phase = "AfterTick" /\ mapReady /\ active' \in SUBSET active
        /\ UNCHANGED << mapReady, acted, ticks, tick >>
    BY <1>9 DEF LoopFacts, AfterTick, Remove, inTick
  <2>2. IF acted THEN phase' = "Cleanup" ELSE phase' = "Shutdown" /\ stop'
    BY <1>9 DEF AfterTick, ShouldStopAfterNoActions
  <2>3. AsLoop!FinishTick
    BY <2>1, <2>2 DEF AsLoop!FinishTick
  <2> QED BY <2>3 DEF LoopStep, AsLoop!Next
<1>10. CASE Cleanup
  <2>1. /\ phase = "Cleanup" /\ phase' \in {"BeforeTick", "Shutdown"} /\ mapReady
        /\ ~stop /\ ~stop' /\ ticks' = ticks + 1 /\ tick' = tick + 1
        /\ UNCHANGED << mapReady, active, acted >>
    BY <1>10 DEF LoopFacts, Cleanup, LoopHead, world, inTick
  <2> QED BY <2>1 DEF LoopStep, AsLoop!vars
<1>11. CASE Shutdown
  <2>1. /\ phase = "Shutdown" /\ phase' = "done"
        /\ UNCHANGED << mapReady, active, acted, ticks, tick, stop >>
    BY <1>11 DEF Shutdown, world, inTick
  <2>2. CASE mapReady /\ ~stop
    <3>1. ~(ticks < MaxTicks)
      BY <2>1, <2>2, NumberAssumption DEF LoopFacts, TypeOK
    <3>2. AsLoop!Check
      BY <2>1, <2>2, <3>1 DEF AsLoop!Check
    <3> QED BY <3>2 DEF LoopStep, AsLoop!Next
  <2>3. CASE ~(mapReady /\ ~stop)
    BY <2>1, <2>3 DEF LoopStep, AsLoop!vars
  <2> QED BY <2>2, <2>3
<1>12. CASE Exited \/ UNCHANGED vars
  <2>1. UNCHANGED << phase, stop, mapReady, active, acted, ticks, tick >>
    BY <1>12 DEF Exited, vars, world, engine, inTick
  <2> QED BY <2>1 DEF LoopStep, AsLoop!vars
<1> QED
  BY <1>1, <1>2, <1>3, <1>4, <1>5, <1>6, <1>7, <1>8, <1>9, <1>10, <1>11, <1>12
     DEF Next, Commands, EngineStep, Turns

\* The scheduled battle does nothing BattleTurnSystem::run could not do: the same
\* ticks over the same entities, ended for the same reasons.
THEOREM BattleImplementsTheLoop ==
  Spec => AsLoop!Init /\ [][AsLoop!Next]_(AsLoop!vars)
<1>1. Init => AsLoop!Init /\ LoopFacts
  BY LoopInit
<1>2. TypeOK /\ LoopFacts /\ [Next]_vars => LoopFacts'
  BY LoopFactsStep
<1>3. TypeOK /\ LoopFacts /\ [Next]_vars => [AsLoop!Next]_(AsLoop!vars)
  BY LoopSimulation DEF LoopStep
<1> QED
  BY <1>1, <1>2, <1>3, TypeCorrect, PTL DEF Spec

-----------------------------------------------------------------------------
(* The engine.                                                             *)

\* Before the run nothing was counted.
FreshStart == phase = "commands" => ticks = 0 /\ tick = 1

LEMMA FreshStartStep ==
  ASSUME FreshStart, [Next]_vars
  PROVE  FreshStart'
<1>1. phase' = "commands" => phase = "commands" /\ UNCHANGED << ticks, tick >>
  BY DEF Next, Commands, EngineStep, Turns, Exited, vars, engine, CreateMap, Spawn, March,
         ParserThrows, Run, Startup, BeforeTick, EndTick, AfterTick, Cleanup, Shutdown,
         LoopHead, BeginTurn, SkipTurn, RuleFails, Strike, Explode, DestroySelf, Heal, Move,
         SetActionState, Fires, InTurn, BetweenTurns
<1> QED
  BY <1>1 DEF FreshStart

\* A limit below zero is no tick at all, as std::max(0, ...) makes it.
LEMMA OneLimit ==
  /\ (IF MaxTicks < 0 THEN 0 ELSE MaxTicks) \in {AsEngine!AtLeastZero(n) : n \in {MaxTicks}}
  /\ \E n \in {MaxTicks} : (IF MaxTicks < 0 THEN 0 ELSE MaxTicks) = AsEngine!AtLeastZero(n)
BY DEF AsEngine!AtLeastZero

LEMMA EngineInit == Init => AsEngine!Init /\ FreshStart
BY OneLimit DEF Init, AsEngine!Init, FreshStart

\* One step of the engine or none.
EngineMove == AsEngine!Next \/ UNCHANGED AsEngine!vars

LEMMA SystemsOfABattle ==
  /\ \A p \in {"Startup", "BeforeTick", "Tick", "AfterTick"} : BattleSystems[p] = 1
  /\ \A p \in {"Cleanup", "Shutdown"} : BattleSystems[p] = 0
BY DEF BattleSystems

\* The two loop heads agree, whatever the limit.
LEMMA EngineLoopHead ==
  \A n \in Nat :
    AsEngine!LoopHead(FALSE, n) = IF n < MaxTicks THEN "BeforeTick" ELSE "Shutdown"
BY NumberAssumption DEF AsEngine!LoopHead

LEMMA EngineSimulation ==
  ASSUME TypeOK, LoopFacts, FreshStart, [Next]_vars
  PROVE  EngineMove
<1>0. ticks \in Nat /\ tick \in Nat /\ MaxTicks \in Int /\ stop \in BOOLEAN
  BY NumberAssumption DEF TypeOK
<1>0a. phase \notin {"Shutdown", "done"} => stop = FALSE
  BY <1>0 DEF LoopFacts
<1>1. ASSUME UNCHANGED << phase, stop, ticks, tick >>
      PROVE  EngineMove
  BY <1>1 DEF EngineMove, AsEngine!vars
<1>2. CASE ParserThrows
  BY <1>2 DEF ParserThrows, EngineMove, AsEngine!vars
<1>3. CASE Run
  <2>1. /\ phase = "commands" /\ phase' = "Startup" /\ ticks = 0 /\ tick = 1
        /\ UNCHANGED << stop, ticks, tick >>
    BY <1>3 DEF Run, FreshStart
  <2>2. AsEngine!Run
    BY <2>1, OneLimit DEF AsEngine!Run
  <2> QED BY <2>2 DEF EngineMove, AsEngine!Next
<1>4. CASE Startup
  <2>1. /\ phase = "Startup" /\ stop = FALSE /\ stop' = FALSE /\ tick' \in {tick} \cup {2} /\ ticks' = ticks
        /\ phase' = IF ticks < MaxTicks THEN "BeforeTick" ELSE "Shutdown"
    BY <1>4, <1>0a DEF Startup, LoopHead
  <2>2. PICK now \in {tick} \cup {2} : tick' = now
    BY <2>1
  <2>3. PICK answer \in BOOLEAN : answer = FALSE
    OBVIOUS
  <2>4. AsEngine!EndPhase(answer, now)
    <3>1. AsEngine!Stops(answer) = FALSE
      BY <2>1, <2>3 DEF AsEngine!Stops
    <3>2. AsEngine!LoopHead(FALSE, ticks) = phase'
      BY <1>0, <2>1, EngineLoopHead
    <3> QED
      BY <1>0, <2>1, <2>2, <3>1, <3>2 DEF AsEngine!EndPhase, AsEngine!After
  <2>5. AsEngine!RunSystem(answer)
    BY <2>1, <2>4, SystemsOfABattle DEF AsEngine!RunSystem
  <2> QED BY <2>5 DEF EngineMove, AsEngine!Next
<1>5. CASE BeforeTick
  <2>1. phase = "BeforeTick" /\ stop = FALSE /\ UNCHANGED << ticks, tick >>
    BY <1>5, <1>0a DEF BeforeTick
  <2>2. PICK answer \in BOOLEAN : stop' = answer /\ phase' = IF answer THEN "Shutdown" ELSE "Tick"
    <3>1. CASE CanContinue
      <4>1. stop' = FALSE /\ phase' = "Tick"
        BY <1>5, <2>1, <3>1 DEF BeforeTick
      <4> QED BY <4>1
    <3>2. CASE ~CanContinue
      <4>1. stop' = TRUE /\ phase' = "Shutdown"
        BY <1>5, <3>2 DEF BeforeTick
      <4> QED BY <4>1
    <3> QED BY <3>1, <3>2
  <2>3. AsEngine!EndPhase(answer, tick)
    BY <1>0, <2>1, <2>2 DEF AsEngine!EndPhase, AsEngine!Stops, AsEngine!After
  <2>4. AsEngine!RunSystem(answer)
    BY <2>1, <2>3, SystemsOfABattle DEF AsEngine!RunSystem
  <2> QED BY <2>4 DEF EngineMove, AsEngine!Next
<1>6. CASE EndTick
  <2>1. /\ phase = "Tick" /\ phase' = "AfterTick" /\ stop = FALSE /\ stop' = FALSE
        /\ UNCHANGED << ticks, tick >>
    BY <1>6, <1>0a DEF EndTick
  <2>2. PICK answer \in BOOLEAN : answer = FALSE
    OBVIOUS
  <2>3. AsEngine!EndPhase(answer, tick)
    BY <1>0, <2>1, <2>2 DEF AsEngine!EndPhase, AsEngine!Stops, AsEngine!After
  <2>4. AsEngine!RunSystem(answer)
    BY <2>1, <2>3, SystemsOfABattle DEF AsEngine!RunSystem
  <2> QED BY <2>4 DEF EngineMove, AsEngine!Next
<1>7. CASE AfterTick
  <2>1. phase = "AfterTick" /\ stop = FALSE /\ UNCHANGED << ticks, tick >>
    BY <1>7, <1>0a DEF AfterTick
  <2>2. PICK answer \in BOOLEAN : stop' = answer /\ phase' = IF answer THEN "Shutdown" ELSE "Cleanup"
    <3>1. CASE ShouldStopAfterNoActions
      <4>1. stop' = TRUE /\ phase' = "Shutdown"
        BY <1>7, <3>1 DEF AfterTick
      <4> QED BY <4>1
    <3>2. CASE ~ShouldStopAfterNoActions
      <4>1. stop' = FALSE /\ phase' = "Cleanup"
        BY <1>7, <2>1, <3>2 DEF AfterTick
      <4> QED BY <4>1
    <3> QED BY <3>1, <3>2
  <2>3. AsEngine!EndPhase(answer, tick)
    BY <1>0, <2>1, <2>2 DEF AsEngine!EndPhase, AsEngine!Stops, AsEngine!After
  <2>4. AsEngine!RunSystem(answer)
    BY <2>1, <2>3, SystemsOfABattle DEF AsEngine!RunSystem
  <2> QED BY <2>4 DEF EngineMove, AsEngine!Next
<1>8. CASE Cleanup
  <2>1. /\ phase = "Cleanup" /\ stop = FALSE /\ stop' = FALSE /\ ticks' = ticks + 1 /\ tick' = tick + 1
        /\ phase' = IF ticks + 1 < MaxTicks THEN "BeforeTick" ELSE "Shutdown"
    BY <1>8, <1>0a DEF Cleanup, LoopHead
  <2>2. AsEngine!EndPhase(FALSE, tick)
    <3>1. AsEngine!LoopHead(FALSE, ticks + 1) = phase'
      <4> DEFINE n == ticks + 1
      <4>1. n \in Nat /\ phase' = IF n < MaxTicks THEN "BeforeTick" ELSE "Shutdown"
        BY <1>0, <2>1
      <4> HIDE DEF n
      <4>2. AsEngine!LoopHead(FALSE, n) = phase'
        BY <4>1, EngineLoopHead
      <4> QED BY <4>2 DEF n
    <3>2. AsEngine!Stops(FALSE) = FALSE
      BY <2>1 DEF AsEngine!Stops
    <3> QED
      BY <1>0, <2>1, <3>1, <3>2 DEF AsEngine!EndPhase, AsEngine!After
  <2>3. AsEngine!EmptyPhase
    BY <2>1, <2>2, SystemsOfABattle DEF AsEngine!EmptyPhase
  <2> QED BY <2>3 DEF EngineMove, AsEngine!Next
<1>9. CASE Shutdown
  <2>1. phase = "Shutdown" /\ phase' = "done" /\ UNCHANGED << stop, ticks, tick >>
    BY <1>9 DEF Shutdown
  <2>2. AsEngine!EndPhase(FALSE, tick)
    BY <1>0, <2>1 DEF AsEngine!EndPhase, AsEngine!Stops, AsEngine!After
  <2>3. AsEngine!EmptyPhase
    BY <2>1, <2>2, SystemsOfABattle DEF AsEngine!EmptyPhase
  <2> QED BY <2>3 DEF EngineMove, AsEngine!Next
<1>10. CASE CreateMap \/ (\E c \in SpawnCommands : Spawn(c)) \/ (\E c \in MarchCommands : March(c))
            \/ Turns \/ Exited \/ UNCHANGED vars
  <2>1. UNCHANGED << phase, stop, ticks, tick >>
    BY <1>10 DEF CreateMap, Spawn, March, Turns, BeginTurn, SkipTurn, RuleFails, Strike, Explode,
                 DestroySelf, Heal, Move, SetActionState, Exited, vars, engine
  <2> QED BY <1>1, <2>1
<1> QED
  BY <1>2, <1>3, <1>4, <1>5, <1>6, <1>7, <1>8, <1>9, <1>10 DEF Next, Commands, EngineStep

\* A battle runs as EngineRunner prescribes whatever its systems do in between:
\* phases in order, stop requests honoured, ticks counted, one run per process.
THEOREM BattleRunsOnTheEngine ==
  Spec => AsEngine!Init /\ [][AsEngine!Next]_(AsEngine!vars)
<1>1. Init => AsEngine!Init /\ LoopFacts /\ FreshStart
  BY LoopInit, EngineInit
<1>2. TypeOK /\ LoopFacts /\ [Next]_vars => LoopFacts'
  BY LoopFactsStep
<1>3. FreshStart /\ [Next]_vars => FreshStart'
  BY FreshStartStep
<1>4. TypeOK /\ LoopFacts /\ FreshStart /\ [Next]_vars => [AsEngine!Next]_(AsEngine!vars)
  BY EngineSimulation DEF EngineMove
<1> QED
  BY <1>1, <1>2, <1>3, <1>4, TypeCorrect, PTL DEF Spec

=============================================================================
