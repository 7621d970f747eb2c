# The battle simulation in TLA+

This directory holds the TLA+ models of the battle simulator, the TLC
configurations that check them on small instances, and the proofs TLAPS checks
for every instance. A reader needs the repository beside it: comments name the
functions they translate, and `PROJECT.json` gives each definition its lines.

## The system

`battle_sim` is one process and one thread. It reads a text scenario, applies
each command as it is read, runs the engine loop to its end, and writes a trace
the browser viewer replays. The concurrency of the program is in its data: many
entities acting in turns on shared state within one tick, with random choices.
The only concurrent part is the Python local runner, which has a thread for every
request and starts `battle_sim` as a child process.

| part | state it keeps | operations | talks to |
|---|---|---|---|
| Battle map (`BattleMapResource`) | size, occupancy table keyed by packed position | place, move, remove, canPlaceAt, canEnterCell, neighbours, distance | called by spawn, movement and removal |
| World and component stores (`Core/Ecs`) | active ids, creation order, one store per component, tick | create, remove, get/add/remove component | everything |
| Battle systems | none of their own | spawn, march, turn (`executeEntity`), movement, cleanup | world, map, events |
| Effects and mutations | none | damage, heal, move, set-action-state, destroy-self | world, map, events |
| Conditions, selectors, pickers, values, policies | registries filled once | pure queries, one draw of the random generator | world, map |
| Action rules and archetypes | recipes | create a recipe from a SPAWN command | spawn |
| Engine runner and scheduler | stop request, tick counter, systems per phase | run, requestStop, clearStopRequest, runPhase | systems |
| Mutation queue | pending mutations | applyNow, enqueue, flush, clear | effects (applyNow only), tests and other clients |
| Legacy commands | parser table, names of units | CREATE_MAP, SPAWN_*, MARCH | spawn and march systems |
| Event trace (`JsonTraceWriter`, `LegacyEventAdapter`, `TraceInspector`) | open file, unit names | one record per event; counting | viewer |
| Replay viewer (`tools/replay-viewer`) | a copy of every unit, rebuilt from records | applyEvent, validation, grouping by tick | trace files |
| Configuration and assembly (`main`, `ScenarioConfig`, `RuntimeAssembly`, `ScenarioRunner`) | config, registries, recipes, the trace writer | parse arguments and config, install features, load archetypes, run, close the trace | engine, trace, parent process |
| Local runner (`tools/local-runner/server.py`) | run directories, a lock | start a run, list runs, report metadata, serve a trace | child process, browser |

What makes each part correct:

- *map*: a cell's entry is the blocking entity that stands there, always; keys of
  two cells never collide;
- *turns*: the dead finish the tick they died in and no other; nobody dies twice;
  an armed mine goes off; rules are tried by priority; a budget is spent;
- *marches*: a target is pending or absent, never reached and kept; flying units
  only ever get closer;
- *engine*: a phase calls all its systems, a stop is honoured between phases,
  the result names the reason the run ended, every run ends;
- *trace*: a reader of the trace alone knows who is alive, where, and how healthy;
- *world*: an id is used once and never again; its noted place is its place in the
  creation order; nobody has a component who does not exist;
- *mutation queue*: a mutation is applied once or given up by a throw or by clear, and
  none by a flush that began before it was enqueued;
- *assembly*: a battle that begins has its systems once, the packs that are
  required, and only rules whose handlers exist; the limit is the one asked for;
- *process*: exit code zero means a whole trace;
- *runner*: a directory belongs to one run, nothing is reported better than it
  went, an ended run is final, every request is answered.

Hard behaviours: the same entity reached by several effects within one tick; the
actor removing itself in the middle of its own rule; two copies of one fact (map
and components, marker and hit points, the battle loop written twice, the
viewer's units); every random draw; integers at their edges; a cleanup that
publishes nothing; a mutation applied after its target is gone; exceptions that
nobody catches, with a buffered file open; a server's threads, its children, its
readers and its own death in any order. `PROJECT.json` lists them as hazards, each
at its line.

## The modules

| module | models |
|---|---|
| `BattleGrid` | geometry of `BattleMapResource`: inside, distance, neighbours, the packed key |
| `BattleRules` | `ActionRule`, the sort of the rules, the seven classic archetypes |
| `Battle` | the scenario commands, the engine phases, and every rule attempt of every turn |
| `BattleProperties` | what must hold of `Battle` |
| `TurnLoop` | abstract: `BattleTurnSystem::run`, the loop kept beside the scheduled one |
| `Engine` | abstract: `EngineRunner` and `Scheduler`, any number of systems a phase |
| `EngineProperties` | `Engine` with a count of each system's calls, and what must hold of it |
| `BattleRefinement` | `Battle` as an implementation of both |
| `BattleTrace` | an observer of `Battle`: the viewer's units and the death records |
| `EcsWorld` | `World` and `ComponentStorage`: entity ids, their order, the stores |
| `MutationQueue` | `MutationQueue`: flushes as a stack, exceptions |
| `DeferredWork` | both together: clients that enqueue work on entities that may be gone |
| `ScenarioConfig` | the config file: directives, conversions, what the features must be |
| `BattleProcess` | one process: `main`, assembly, `runScenario`, the trace file, every ending |
| `Child`, `ChildProcess` | abstract: a process as its parent sees it |
| `ProcessProperties` | what must hold of `BattleProcess`, and that it is a `ChildProcess` |
| `LocalRunner` | `server.py`: requests, run directories, readers, crashes; its children are those of `Child` |
| `MCBattle`, `MCEngine`, `MCTrace`, `MCDeferredWork`, `MCBattleProcess`, `MCLocalRunner` | instances for TLC |
| `Battle_proofs`, `BattleTurns_proofs`, `BattleRefinement_proofs`, `BattleTrace_proofs`, `Engine_proofs`, `DeferredWork_proofs`, `ProcessProperties_proofs`, `LocalRunner_proofs` | theorems |

**`Battle` and the code.** The store of a component is a function on all ids with
a blank where the entity has none: `unit` (recipe), `pos`, `hp`, `alive`
(marker), `march`, `armed` (the action-state counter). `order` is the creation
order, which the code never shortens and every tick walks. One step is one
command, one engine phase, or one attempt of one rule: `executeEntity` becomes
`BeginTurn` or `SkipTurn`, then for each attempt either `RuleFails` (not
affordable, condition false, nobody picked, nothing applied) or the action of
the rule's effect (`Strike`, `Explode`, `DestroySelf`, `Heal`, `Move`,
`SetActionState`), which ends in `Pay`: spend the cost and start over with the
first rule, or leave the turn. What an action publishes is `out`, the set of
events of the last step. A command the code refuses changes nothing and is no
step. `ParserThrows` is a command that throws out of `main`.

Random draws are `\E`: the picked target of `core.random-one` and each step of a
walk. A walk of several steps is one action, as in `BattleMovementSystem`, which
moves the entity once, at its end; `WalkEnds` is the set of cells it can end at.
A negative step, which a JSON archetype may write, is no step (`Strides`).

Taken as the program uses it: policies at their defaults (nothing sets others);
after effects only with damage, and march rules without `core.all`, which would
walk once for every target (`RecipeAssumption`); the resolver `battle.mobile-step`, registered and used by
no recipe, is left out. A signed sum that overflows is undefined in C++;
`IntAdd` wraps it, as the built code does, at `MaxInt`. The viewer applies
records one at a time; `BattleTrace` applies the records one step
publishes about one unit together, in their order.

**`DeferredWork` and the code.** `EcsWorld` has `World`'s id counter, creation order
and active ids, and of a store only which ids are in it. `FirstFree` is the loop
of `createEntity()` that skips used ids. `MutationQueue::flush` moves the queue
away, so a flush is a frame with what it has left, and a flush called from a
mutation is a frame above it. An exception leaves all frames: `ActionContext` catches
nothing. Serial numbers, `applied` and `dropped` are history, kept for the
properties. Blows and removals throw as `makeDamageEntityMutation` and
`makeRemoveBattleEntityMutation` do; a script is client code. The battle itself
only calls `applyNow`, which is part of every effect action of `Battle`; what
`DeferredWork` shows is for the clients the API is offered to.

**`BattleProcess` and the code.** `stage` is where `main` is. A config line is what
`parseGameConfig` makes of it, an optional is the set of its value, and the
registries of handlers are one set of names. `written` is what went into the
stream, `disk` how much of it is in the file, `full` that a write failed: the
stream then swallows the rest and `main` does not ask it. Whether an uncaught
exception unwinds the stack is implementation-defined, so it may (`Unwind`, where the
writer's destructor closes the array) or may not (`Terminate`). The battle is
abstracted to the records it publishes; `Battle` is its model. `Exit` needs the
buffer written or the file full, as the stream's destructor flushes it. A trace to
inspect is read in one step, which may throw (`InspectThrows`).

**`EngineProperties` and the code.** `limit` is the local `maxTicks` of `run()`, read
anew from the settings by every run. `calls`, `result` and `cleared` are history: what
the current run called, what the last one returned, and whether the owner of the
runner has called `clearStopRequest` since.

**`LocalRunner` and the code.** One step is what another thread or process can see:
a directory made, a file opened or filled, a child launched, ended or killed, one
file read. A request is `execute_run`, at one of its stages; a directory is whether its
options are there, its exit-code file, its child and the child's trace. A child
does what `Child` allows, and `ProcessProperties` shows that `BattleProcess` does no
more than that, so the two compose: what the runner is shown to promise, it
promises of the real process. When the server dies its threads die with it and
its children go on.

A definition named `Slip...` is the next one with a mistake somebody could have
made in the code. Nothing uses them; they are there to show that a property
would notice.

## The runs

Every run checks deadlock too: a finished process stutters (`Exited`, `Gone`), an idle
engine may always be asked again, a client (`ClientRests`) or a server (`Quiet`)
with nothing under way may rest.

| run | module, cfg | shows |
|---|---|---|
| skirmish | `MCBattle`, `Skirmish.cfg` | types; map and components agree; a battle called off is really stuck; flight gets closer; units fight before they march |
| minefield | `MCBattle`, `Minefield.cfg` | marker and hit points agree, death is final, an armed mine goes off, with mines in each other's blast |
| infirmary | `MCBattle`, `Infirmary.cfg` | healing up to and past `MaxInt` leaves no corpse for the next tick |
| workshop | `MCBattle`, `Workshop.cfg` | recipes a JSON archetype may write: budgets, costs, two-step moves, negative steps, self-destruction; every step brings a battle nearer its end, and it ends |
| phases | `MCBattle`, `Phases.cfg` | `Battle` implements `Engine` and `TurnLoop`, liveness included |
| engine | `MCEngine`, `Engine.cfg` | with two systems a phase nobody is skipped, the result names one ending, a stop nobody cleared stops the next run too, every run returns |
| trace | `MCTrace`, `Trace.cfg` | the viewer's unit is the unit; every death is reported |
| marches | `MCTrace`, `Marches.cfg` | expected violation, below |
| world | `MCDeferredWork`, `World.cfg` | ids that wrap are never reused, order and stores agree; no mutation is lost, repeated or applied early, through nested flushes and exceptions |
| startup | `MCBattleProcess`, `Startup.cfg` | any config of a few lines, an exception anywhere, lost writes, kills: the assembly is complete, exit zero is a whole trace, and the process is a `ChildProcess` |
| randomseed | `MCBattleProcess`, `RandomSeed.cfg` | expected violation, below |
| runner | `MCLocalRunner`, `Runner.cfg` | two requests, their children, timeouts, failing writes, a reader and a crash in every order: directories are not shared, reports are honest, every request is answered |

**Bounds.** A scenario is any order of any subset of its commands. Maps of 3 x 2
or 4 x 2 are the smallest where a unit can be blocked, go round and be shot at
past a neighbour, and where two mines reach each other but not everyone. Three or
four ids give a third party to every interaction of two. Hit points of 1 to 4
against damage of 1 or 2 pass through zero exactly and overshoot it.
`MaxTicks` of 2 to 4 covers a mine's whole life (arm, burn, explode) and a march
across the map; a wider limit repeats these states. `MaxInt = 7` puts the edge
of an int where healing reaches it. The engine's runs choose their limits from
-1, 0 and 2: no tick at all in two ways, and a first and a last tick; `MaxClock = 5`
lets at least two runs of two ticks follow each other. `StoppedMeansStuck` is not
claimed for every recipe: a blocking unit with moves of two steps can by chance step
back to where it began, do nothing in a tick, and end the battle it could go on with.

In `World.cfg` an id has two bits, so that the counter wraps and every id gets
used within a few steps; four mutations and flushes two deep give an outer flush
with work left around an inner one. In `Startup.cfg` an int has four bits and
`unsigned long` eight, so that a limit can be cut, turn negative or fail to parse;
four lines (`MaxLines`) are the three packs and one that contradicts them, and two
records put one in the buffer behind one in the file. In `Runner.cfg` two requests
of one second and name compete with a directory an earlier server left under the
very suffix the second would take; one crash (`MaxCrashes`) finds them at any
stage, and a third request would only meet one of the two.

**Fairness.** `Spec` is weakly fair in the engine's steps together and in nothing
else. Once the commands are read the loop is straight-line code of one thread, no
lock, wait or input: some step of it is always taken. Commands are not fair, so a
scenario may be any prefix; liveness starts at `Startup`. `Engine` is weakly fair
in its systems for the same reason, not in the caller's `Run`. `LocalRunner` is
weakly fair in each request's thread, one condition per request: the operating
system runs every thread, the lock is held only across a `mkdir`, and a child that
does not end is ended by the timeout of `subprocess.run`. Nothing is assumed of
children, clients, readers or crashes, so `EveryRequestIsAnswered` counts a request
as settled when the server died under it. `DeferredWork` and `BattleProcess` state no
fairness: their clients may stop anywhere, and only safety is claimed.

**The viewer forgets the march.** `Marches.cfg` checks that the viewer shows a
unit's march target for as long as it marches, which `tools/replay-viewer`'s
README says of visible state. It does not: `applyEvent` clears the target at
`UNIT_MOVED`, so from its first step on a marching unit shows "none". TLC's
trace is a march command, the start of the run and one move.

**A random seed is always 0.** `RandomSeed.cfg` checks that a config without a fixed
seed leaves more than one seed possible, as `docs/configuration.md` says of
`rngSeed random`. The assembly marks the seed as not fixed and leaves it at 0, and the
generator is seeded with it: `hasFixedRngSeed` is never read. Every run that asks
for randomness draws the same numbers.

## The proofs

All theorems assume only the `ASSUME`s of the modules: a map of positive size,
ids that are positive, `None` outside cells and kinds, typed recipes and commands;
an id counter of some width; that config lines are lines and an int holds the
default limit; that `battle.basic` registers the handlers the classic recipes name
beside the core ones; that run ids are sequences of numbers. Maps, recipes,
scenarios, limits, archetype files, numbers of requests and of crashes are
otherwise arbitrary.

- `Battle_proofs` begins with the rules and the map. `Precedes` is a strict total
  order; `Rank` counts the predecessors, so it is monotone and, a finite set having
  no injection into a smaller one, a bijection. Hence `OrderedIsSorted`: a turn tries
  the recipe's rules, each once, by descending priority, so that what holds of a
  recipe's rules holds of the rule being tried. `inside` accepts exactly the cells;
  division with remainder is unique, so `KeyIsUnique`; one step of each coordinate
  towards the target is a cell of the map and closer, so `ACloserNeighbourExists`.
  Of the battle, `TypeOK` is inductive by itself. Two of its conjuncts make it
  so: only created ids exist (else a spawn could overwrite an entity), and a rule
  being tried belongs to an existing actor whose turn it is (else reading its
  recipe would be meaningless). The proof splits the world, the loop and the
  published events. Given `TypeOK` each of the others is inductive:
  `OccupancyAgrees` (a move needs that the cell it enters was free, a removal that
  exactly the removed entities' cells are vacated), `MarchIsPending`,
  `MarkerAgreesWithHealth` as long as no healing wraps, and `AllAliveOutsideTicks`, which
  strengthens `NoCorpseBetweenTicks` by the commands phase: a spawn gives
  positive hit points, only a tick takes them, and only the cleanup leads out.
  `DeathIsFinal` is a consequence of `TypeOK` step by step.
- `BattleTurns_proofs` is about what a turn tries, and in which order.
  - `FlightIsStraight`: every step of a walk of a flying unit is closer than the one
    before, so its end is. This is induction over the length of the walk, done as a
    proof about the least step at which it fails (`LeastElement`, from the
    well-foundedness of inclusion on finite sets).
  - `FightsComeFirst`: the invariant `BlowsTriedInVain` says that when a rule is
    tried, every close blow before it that the budget pays for was tried in this very
    world and had nobody to strike; a success starts over with the first rule. Needs
    of the recipes that close blows are unconditional, precede marches and cost no more
    (`FightsFirst`).
  - `QuietBattleIsOver`: in a tick in which nothing was done, everybody whose turn is
    past is idle, in the world as it still is (`QuietTick`); so at the end of it
    everybody is, and the stop leaves an idle world behind. Needs that what one draw
    refuses all draws refuse (`DrawsAreEqual`); the counterexample without it is the
    unit of two-step moves described under *Bounds*.
  - `FusesBurnOut`: an entity that is armed in its turn is at its first rule with all
    its points (`FuseIsLit`), and that rule is the explosion. Needs that arming costs
    all points and the explosion comes first (`Fused`).
  - `ClassicBattles`: the seven classic archetypes have these three features whatever
    their statistics, so every battle of them has the three properties. The features
    are conditions on recipes because a JSON file may write one without them.
  - `ProgressIsMade`: ticks, then phases, then turns, then points and rules left form
    a variant every step lowers, for recipes of any kind. `executeEntity` repeats its
    rules from the top after every success, and this is why it stops: a rule that costs
    nothing is not applicable.
- `Engine_proofs`: where a run is in its phases (`LoopOK`) determines how often each
  system was called (`CallsAgree`): as often as ticks were counted, once more for the
  phases of this tick that are behind, and for the systems of the present phase that
  come before the next. A stop is seen at the end of a phase only, so
  `EverybodyIsCalled`; a loop left without one has counted its `limit`, so
  `OneEndingIsNamed`. A request that ended a run and was not cleared keeps the next
  one out of the loop (`Standing`), so `StopIsNotForgotten`.
- `BattleRefinement_proofs`: every step of `Battle` maps to a step of `TurnLoop`
  or a stutter (`BattleImplementsTheLoop`), and to a step of `Engine` or a stutter
  (`BattleRunsOnTheEngine`). Both rest on `LoopFacts`, among them that a stop is
  seen only in the phases after the loop; the second also on `FreshStart`: no tick
  is counted before the run begins.
- `BattleTrace_proofs`: to a reader a step is silent, a birth, a journey, healings or
  blows (`StepsAsRead`), and each field of the viewer is a function of which records
  name the unit. A blow's target is never its attacker, so nobody has two death
  records in one step. `Ended` is needed because a finished process repeats its state,
  and may then have nothing left to say. `LivingAreShown` and `DeathsAreReported` are
  theorems of battles in which no healing wraps, for the reason below.
- `DeferredWork_proofs`: the world's half and the queue's half of a state are
  independent but for the guards, so each has its own invariant. The world's is
  `OrderIsCreation` with `ComponentsAreOwned`; that ids are not reused follows step by
  step, because an id enters only if it is not among the used ones, however far
  the counter has run. The queue's adds `EachIncreasing` (serial numbers grow along
  every flush and along the queue): only with it does taking the head of a flush
  keep the older before the newer.
- `ProcessProperties_proofs`: three invariants.
  `ConfigInv`: the limit agrees with the one asked for, by arithmetic on the two
  conversions. `AssemblyInv`: handlers, systems and recipes at any line are exactly
  what the lines before it installed, and every enabled pack is installed or still
  ahead, so that none is missing at the end. `TraceInv`: the stream holds exactly a
  bracket, the records and a bracket if it was closed, and every stage says
  whether it was. With them each step maps to a step of `ChildProcess` or a stutter
  (`ChildTheorem`).
- `LocalRunner_proofs`: the inductive invariant ties a request's stage to the one
  directory it has (`PostOK`), and `OwnDirectories` makes that stable: what another
  request does to its directory cannot disturb this one's. `RunOK` says that a
  directory with an exit code has a child that will not move again, which is
  what makes an ended run final and a reader's answers, taken one file at a time,
  consistent (`GetOK`).

`MarkerAgreesWithHealth` and the two about the trace suppose `[][HealingFits]_vars`: no
healing takes hit points past the largest int. One that does leaves the marker on a
unit whose hit points are negative, and kills it without a record. `HealerlessBattles`
shows that a battle without healers meets it; with healers it is a matter of the
numbers of the scenario. A unit whose hit points wrapped is removed at the end of the
tick all the same (`NoCorpseSeesATick`, which supposes nothing).

**Only model-checked.** Liveness under fairness, which the prover does not reach:
`Finishes`, `RunReturns`, `EveryRequestIsAnswered`, and the fairness of the two
refinements of `Battle` (`RunsOnTheEngine`, `RunsAsTheLoop`, whose safety is proved).
Behind `Finishes` stands `NothingGoesInCircles`, which is proved. Every other property
of a passing run is stated by a theorem.

## Not modelled

- Text: the JSON reader and writer, the layout of records, the words of commands and
  config lines, the event log and the unit names in it (`LegacyEventAdapter`). What a
  text is read as is modelled; how it is scanned is not.
- `defaultFeatureConfigs` for callers other than `main`, and the counts of
  `TraceInspector` other than deaths.
- The viewer beyond its reconstruction of units: validation, drawing, its
  asynchronous loads (listed as a hazard without a property).
- The runner's payload checks and generated scenario text, its health and executable
  pages, its static files; the order of run names that decides which one is the
  latest, which is text order.
- The resolver `battle.mobile-step` and the radius queries of the map, which no rule
  and no system uses; `runAllPhases`, which only a test calls; the type registry and
  visitors, ownership and printing helpers; build files and tests.
