-------------------------- MODULE BattleRefinement --------------------------
(***************************************************************************)
(* Battle is EngineRunner with the systems of the battle feature pack in   *)
(* its phases, and what they do together is BattleTurnSystem::run.         *)
(***************************************************************************)
EXTENDS Battle

\* registerBattleTurnSchedule adds one system to each of four phases.
BattleSystems ==
  [p \in {"Startup", "BeforeTick", "Tick", "AfterTick", "Cleanup", "Shutdown"} |->
     IF p \in {"Cleanup", "Shutdown"} THEN 0 ELSE 1]

\* The battle's one system per phase makes a phase a single engine step; the
\* turns of a tick happen inside the Tick system.
AsEngine ==
  INSTANCE Engine WITH
    Systems  <- BattleSystems,
    Limits   <- {MaxTicks},
    Clocks   <- {2},
    MaxClock <- 1,
    phase    <- IF phase \in {"commands", "done", "aborted"} THEN "idle" ELSE phase,
    next     <- 1,
    asked    <- FALSE,
    limit    <- IF MaxTicks < 0 THEN 0 ELSE MaxTicks,
    clock    <- tick

\* The scheduled battle runs exactly as the engine prescribes: its phases in
\* order, its stop request honoured between phases, its ticks counted.
RunsOnTheEngine == AsEngine!Spec

\* The tick is counted by the runner after the Cleanup phase, in the turn loop
\* before its next check; a runner that left the loop at its head is the loop
\* about to fail that check.
AsLoop ==
  INSTANCE TurnLoop WITH
    Entity <- Id,
    stage  <- CASE phase \in {"commands", "Startup", "aborted"} -> "idle"
                [] phase \in {"Tick", "AfterTick"} -> "turns"
                [] phase \in {"BeforeTick", "Cleanup"} /\ mapReady -> "check"
                [] phase = "Shutdown" /\ mapReady /\ ~stop -> "check"
                [] OTHER -> "done",
    ticks  <- IF phase = "Cleanup" THEN ticks + 1 ELSE ticks,
    tick   <- IF phase = "Cleanup" THEN tick + 1 ELSE tick

\* The battle spread over the scheduler's phases is the battle of the one loop
\* in BattleTurnSystem::run: same ticks, same entities, same end.
RunsAsTheLoop == AsLoop!Spec

=============================================================================
