--------------------------- MODULE BattleProcess ---------------------------
(***************************************************************************)
(* One process of battle_sim around the simulation: main, the assembly of  *)
(* the runtime, runScenario, and the trace file until the process ends.    *)
(*                                                                         *)
(* Nothing in it catches what is thrown.  Whether the stack is unwound     *)
(* before the process is terminated is implementation-defined; if it is,   *)
(* the writer's destructor closes a trace that has not all its records.    *)
(* The trace goes through a buffer: `written' is what was put into the     *)
(* stream, `disk' how much of it is in the file, and a write that failed   *)
(* fails silently, with all that follow.  `asked' and `installed' are      *)
(* history.                                                                *)
(***************************************************************************)
EXTENDS ScenarioConfig

CONSTANTS
  ConfigLines,    \* lines a config file may have
  Archetypes,     \* archetype file -> [valid, id, handlers], the files that exist
  CoreHandlers,   \* what registerCoreHandlers registers
  BattleHandlers, \* what battle.basic registers
  ClassicRecipes, \* what units.classic registers: archetype -> its handlers
  MaxLines,       \* bound on the lines of a config file
  MaxRecords      \* bound on the records of a trace

ASSUME HandlersAssumption ==
  /\ "battle.damage" \in BattleHandlers /\ CoreHandlers \cap BattleHandlers = {}
  /\ \A id \in DOMAIN ClassicRecipes : ClassicRecipes[id] \subseteq CoreHandlers \cup BattleHandlers

ASSUME LinesAssumption ==
  \A line \in ConfigLines :
    /\ line.directive \in Directives
    /\ line.directive = "feature" => line.enabled \in BOOLEAN
    /\ line.directive \in {"rngSeed", "maxTicks"} => line.number \in Int

VARIABLES
  args,       \* the command line and what it names
  stage,      \* where main is
  config,     \* GameConfig, and the RunOptions made of it
  at,         \* lines read, then index of the feature or file being loaded
  handlers,   \* names in the registries
  scheduled,  \* how often the battle's systems are in the scheduler
  recipes,    \* EntityArchetypeRegistry: archetype -> the handlers it names
  written, finished, published,   \* JsonTraceWriter; how many events were published
  opened, disk, full,             \* the file
  exit,
  asked, installed

assembly == << handlers, scheduled, recipes, installed >>
trace == << written, finished, published, opened, disk, full >>
vars == << args, stage, config, at, assembly, trace, exit, asked >>

\* scenario: the named file exists.  config, trace: whether the argument is there
\* and whether its file can be opened.
Arguments ==
  [mode : {"usage", "inspect", "run"}, scenario : BOOLEAN,
   config : {"none", "missing", "file"}, trace : {"none", "refused", "file"}]

Init ==
  /\ args \in Arguments
  /\ stage = "arguments" /\ config = BlankConfig /\ at = 0
  /\ handlers = {} /\ scheduled = 0 /\ recipes = << >> /\ installed = {}
  /\ written = << >> /\ finished = FALSE /\ published = 0
  /\ opened = FALSE /\ disk = 0 /\ full = FALSE
  /\ exit = "running" /\ asked = DefaultTicks

Runs(s) == exit = "running" /\ stage = s

\* Something throws: the stage it throws in is over and nothing else has changed.
Throw(s) ==
  /\ Runs(s) /\ stage' = "raised"
  /\ UNCHANGED << args, config, at, assembly, trace, exit, asked >>

Go(s, next) == Runs(s) /\ stage' = next /\ UNCHANGED << args, exit >>

-----------------------------------------------------------------------------
(* main: the arguments and the config file *)

BadArguments ==
  /\ \/ args.mode = "usage"
     \/ ~args.scenario
     \/ args.mode = "run" /\ args.config = "missing"
  /\ Throw("arguments")

Inspect ==
  /\ args.mode = "inspect" /\ args.scenario
  /\ Runs("arguments") /\ exit' = "zero"
  /\ UNCHANGED << args, stage, config, at, assembly, trace, asked >>

\* The trace to inspect may not be one: an array without its brackets, a number
\* past the int it is read into.
InspectThrows ==
  /\ args.mode = "inspect" /\ args.scenario
  /\ Throw("arguments")

UseDefaults ==
  /\ args.mode = "run" /\ args.scenario /\ args.config = "none"
  /\ Go("arguments", "options") /\ config' = DefaultConfig
  /\ UNCHANGED << at, assembly, trace, asked >>

OpenConfig ==
  /\ args.mode = "run" /\ args.scenario /\ args.config = "file"
  /\ Go("arguments", "config")
  /\ UNCHANGED << config, at, assembly, trace, asked >>

ReadLine(line) ==
  /\ at < MaxLines /\ LineIsValid(line)
  /\ Go("config", "config")
  /\ config' = Read(config, line) /\ at' = at + 1
  /\ asked' = IF line.directive = "maxTicks" THEN line.number ELSE asked
  /\ UNCHANGED << assembly, trace >>

BadLine(line) == ~LineIsValid(line) /\ Throw("config")

EndOfConfig ==
  /\ Go("config", "options") /\ at' = 0
  /\ UNCHANGED << config, assembly, trace, asked >>

MakeOptions ==
  /\ FeaturesAreAccepted(config.features) /\ SummaryIsValid(config.features)
  /\ Go("options", "trace")
  /\ UNCHANGED << config, at, assembly, trace, asked >>

BadOptions ==
  /\ ~(FeaturesAreAccepted(config.features) /\ SummaryIsValid(config.features))
  /\ Throw("options")

-----------------------------------------------------------------------------
(* The trace file: JsonTraceWriter on an ofstream *)

OpenTrace ==
  /\ args.trace # "refused"
  /\ Go("trace", IF args.trace = "file" THEN "writer" ELSE "assembly")
  /\ opened' = (args.trace = "file")
  /\ UNCHANGED << config, at, assembly, written, finished, published, disk, full, asked >>

TraceRefused == args.trace = "refused" /\ Throw("trace")

HasWriter == written # << >>

MakeWriter ==
  /\ Go("writer", "assembly") /\ written' = << "[" >>
  /\ UNCHANGED << config, at, assembly, finished, published, opened, disk, full, asked >>

SlipFinishTrace ==
  /\ written' = IF HasWriter THEN Append(written, "]") ELSE written
  /\ finished' = HasWriter
  /\ UNCHANGED << published, opened, disk, full >>

FinishTrace ==
  /\ written' = IF HasWriter /\ ~finished THEN Append(written, "]") ELSE written
  /\ finished' = HasWriter
  /\ UNCHANGED << published, opened, disk, full >>

Flush ==
  /\ exit = "running" /\ ~full
  /\ disk' \in disk + 1 .. Len(written)
  /\ UNCHANGED << args, stage, config, at, assembly, written, finished, published, opened, full,
                  exit, asked >>

DiskFills ==
  /\ exit = "running" /\ opened /\ full' = TRUE
  /\ UNCHANGED << args, stage, config, at, assembly, written, finished, published, opened, disk,
                  exit, asked >>

-----------------------------------------------------------------------------
(* assembleRuntime *)

Assemble ==
  /\ FeaturesAreAccepted(config.features)
  /\ Go("assembly", "features") /\ at' = 1
  /\ handlers' = CoreHandlers
  /\ UNCHANGED << config, scheduled, recipes, installed, trace, asked >>

Line == config.features[at]
Installing == stage = "features" /\ at <= Len(config.features)

SkipDisabled ==
  /\ Installing /\ ~Line.enabled
  /\ Go("features", "features") /\ at' = at + 1
  /\ UNCHANGED << config, assembly, trace, asked >>

Install(id) ==
  /\ Installing /\ Line.enabled /\ Line.id = id
  /\ Go("features", "features") /\ at' = at + 1
  /\ installed' = installed \cup {id}
  /\ UNCHANGED << config, trace, asked >>

\* HandlerRegistry::add accepts a name once, and the handlers of a pack are added
\* before its systems are.
SlipMayAdd(names) == names # {}
MayAdd(names) == handlers \cap names = {}

InstallBattle ==
  /\ MayAdd(BattleHandlers)
  /\ Install("battle.basic")
  /\ handlers' = handlers \cup BattleHandlers
  /\ scheduled' = scheduled + 1
  /\ UNCHANGED recipes

BattleTwice ==
  /\ Installing /\ Line.enabled /\ Line.id = "battle.basic" /\ ~MayAdd(BattleHandlers)
  /\ Throw("features")

InstallUnits ==
  /\ "battle.damage" \in handlers
  /\ Install("units.classic")
  /\ recipes' = ClassicRecipes
  /\ UNCHANGED << handlers, scheduled >>

UnitsBeforeBattle ==
  /\ Installing /\ Line.enabled /\ Line.id = "units.classic"
  /\ "battle.damage" \notin handlers
  /\ Throw("features")

InstallLegacy == Install("io.legacy") /\ UNCHANGED << handlers, scheduled, recipes >>

EndOfFeatures ==
  /\ at > Len(config.features) /\ Go("features", "archetypes") /\ at' = 1
  /\ UNCHANGED << config, assembly, trace, asked >>

File == config.files[at]
Loading == stage = "archetypes" /\ at <= Len(config.files)
SlipLoads(file) == file \in DOMAIN Archetypes /\ Archetypes[file].valid
Loads(file) ==
  file \in DOMAIN Archetypes /\ Archetypes[file].valid /\ Archetypes[file].handlers \subseteq handlers

\* A file may replace an archetype of the same id, a classic one too.
LoadArchetype ==
  /\ Loading /\ Loads(File)
  /\ Go("archetypes", "archetypes") /\ at' = at + 1
  /\ LET a == Archetypes[File]
     IN  recipes' = [id \in DOMAIN recipes \cup {a.id} |->
                       IF id = a.id THEN a.handlers ELSE recipes[id]]
  /\ UNCHANGED << config, handlers, scheduled, installed, trace, asked >>

BadArchetype == Loading /\ ~Loads(File) /\ Throw("archetypes")

EndOfArchetypes ==
  /\ at > Len(config.files) /\ Go("archetypes", "commands")
  /\ UNCHANGED << config, at, assembly, trace, asked >>

-----------------------------------------------------------------------------
(* runScenario: the commands, the battle, the end *)

\* An accepted command or an event of the battle; the sinks follow the event bus.
Publish ==
  /\ stage \in {"commands", "battle"} /\ published < MaxRecords
  /\ Go(stage, stage)
  /\ published' = published + 1
  /\ written' = IF HasWriter THEN Append(written, "record") ELSE written
  /\ UNCHANGED << config, at, assembly, finished, opened, disk, full, asked >>

BadCommand == Throw("commands")

EndOfCommands == Go("commands", "battle") /\ UNCHANGED << config, at, assembly, trace, asked >>
BattleReturns == Go("battle", "finish") /\ UNCHANGED << config, at, assembly, trace, asked >>

\* runScenario closes the trace, and its writer's destructor would.
CallFinish == Go("finish", "leaving") /\ FinishTrace /\ UNCHANGED << config, at, assembly, asked >>
Leave == Go("leaving", "closing") /\ FinishTrace /\ UNCHANGED << config, at, assembly, asked >>

SlipExitCode(s) == "zero"
ExitCode(s) == IF s = "closing" THEN "zero" ELSE "crashed"

\* The file is closed with all that can still be written.
Exit ==
  /\ stage \in {"closing", "unwound"} /\ Runs(stage)
  /\ full \/ disk = Len(written)
  /\ exit' = ExitCode(stage)
  /\ UNCHANGED << args, stage, config, at, assembly, trace, asked >>

Unwind ==
  /\ Go("raised", "unwound") /\ FinishTrace
  /\ UNCHANGED << config, at, assembly, asked >>

Terminate ==
  /\ Runs("raised") /\ exit' = ExitCode(stage)
  /\ UNCHANGED << args, stage, config, at, assembly, trace, asked >>

Kill ==
  /\ exit = "running" /\ exit' = "killed"
  /\ UNCHANGED << args, stage, config, at, assembly, trace, asked >>

Gone == exit # "running" /\ UNCHANGED vars

Next ==
  \/ BadArguments \/ Inspect \/ InspectThrows \/ UseDefaults \/ OpenConfig
  \/ \E line \in ConfigLines : ReadLine(line) \/ BadLine(line)
  \/ EndOfConfig \/ MakeOptions \/ BadOptions
  \/ OpenTrace \/ TraceRefused \/ MakeWriter \/ Flush \/ DiskFills
  \/ Assemble \/ SkipDisabled \/ InstallBattle \/ BattleTwice
  \/ InstallUnits \/ UnitsBeforeBattle \/ InstallLegacy \/ EndOfFeatures
  \/ LoadArchetype \/ BadArchetype \/ EndOfArchetypes
  \/ Publish \/ BadCommand \/ EndOfCommands \/ BattleReturns
  \/ CallFinish \/ Leave \/ Exit \/ Unwind \/ Terminate \/ Kill \/ Gone

Spec == Init /\ [][Next]_vars

=============================================================================
