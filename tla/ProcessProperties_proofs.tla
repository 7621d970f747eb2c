---------------------- MODULE ProcessProperties_proofs ----------------------
(***************************************************************************)
(* Proofs about a process of battle_sim, for every config file and every   *)
(* set of archetype files.                                                 *)
(***************************************************************************)
EXTENDS ProcessProperties, SequenceTheorems, TLAPS

-----------------------------------------------------------------------------
(* The limit of ticks *)

LimitInv ==
  /\ asked \in Nat
  /\ TickLimit(config) <= asked
  /\ 2 * asked < UintSize => TickLimit(config) = asked

\* What the conversions to 32 bits and to int make of a number.
LEMMA Conversions ==
  ASSUME NEW n \in Nat
  PROVE  /\ AsInt(Uint(n)) \in Int
         /\ AsInt(Uint(n)) <= n
         /\ 2 * n < UintSize => AsInt(Uint(n)) = n
<1>1. UintSize \in Nat \ {0} BY SizesAssumption
<1> DEFINE q == n \div UintSize
           m == n % UintSize
<1>2. m \in 0 .. UintSize - 1 /\ q \in Int /\ n = UintSize * q + m BY <1>1
<1>3. m <= n
  <2>1. q >= 0
    <3>1. CASE q <= -1
      <4>1. UintSize * q <= -UintSize BY <1>1, <1>2, <3>1
      <4> QED BY <1>1, <1>2, <4>1
    <3> QED BY <1>2, <3>1
  <2>2. UintSize * q >= 0 BY <1>1, <1>2, <2>1
  <2> QED BY <1>1, <1>2, <2>2
<1>4. 2 * n < UintSize => m = n BY <1>1
<1> HIDE DEF m, q
<1>5. Uint(n) = m BY DEF Uint, m
<1> QED BY <1>1, <1>2, <1>3, <1>4, <1>5 DEF AsInt

LEMMA LimitStarts == Init => LimitInv
  BY SizesAssumption DEF Init, LimitInv, BlankConfig, TickLimit

-----------------------------------------------------------------------------
(* Which steps change what *)

Reading == UseDefaults \/ \E line \in ConfigLines : ReadLine(line)

\* Steps at which something is registered or installed, or the assembly goes on.
Assembling ==
  \/ Assemble \/ SkipDisabled \/ InstallBattle \/ InstallUnits \/ InstallLegacy \/ EndOfFeatures
  \/ LoadArchetype \/ EndOfArchetypes

Before == {"arguments", "config", "options", "trace", "writer", "assembly"}
After == {"commands", "battle", "finish", "leaving", "closing"}
Over == {"raised", "unwound"}

\* Every other step leaves config and assembly alone, and at most moves on within the
\* part of main it is in, or out of it.
Passing ==
  /\ UNCHANGED << config, asked, handlers, scheduled, recipes, installed >>
  /\ \/ UNCHANGED << stage, at >>
     \/ stage \in Before /\ stage' \in Before \ {"arguments"}
     \/ stage \in After /\ stage' \in After
     \/ stage' \in Over

LEMMA Steps == ASSUME [Next]_vars PROVE Reading \/ Assembling \/ Passing
<1>1. BadArguments \/ Inspect \/ InspectThrows \/ OpenConfig \/ (\E line \in ConfigLines : BadLine(line))
        => Passing
  BY DEF Passing, Before, Over, Go, Runs, Throw, assembly, BadArguments, Inspect, InspectThrows,
         OpenConfig, BadLine
<1>2. EndOfConfig \/ MakeOptions \/ BadOptions => Passing
  BY DEF Passing, Before, Over, Go, Runs, Throw, assembly, EndOfConfig, MakeOptions, BadOptions
<1>3. OpenTrace \/ TraceRefused \/ MakeWriter \/ Flush \/ DiskFills => Passing
  BY DEF Passing, Before, Over, Go, Runs, Throw, assembly, OpenTrace, TraceRefused, MakeWriter,
         Flush, DiskFills
<1>4. BattleTwice \/ UnitsBeforeBattle \/ BadArchetype \/ BadCommand => Passing
  BY DEF Passing, Over, Throw, assembly, BattleTwice, UnitsBeforeBattle, BadArchetype, BadCommand
<1>5. Publish \/ EndOfCommands \/ BattleReturns \/ CallFinish \/ Leave => Passing
  BY DEF Passing, After, Go, Runs, assembly, Publish, EndOfCommands, BattleReturns, CallFinish, Leave
<1>6. Exit \/ Unwind \/ Terminate \/ Kill => Passing
  BY DEF Passing, Over, Go, Runs, assembly, Exit, Unwind, Terminate, Kill
<1>7. Gone \/ UNCHANGED vars => Passing BY DEF Passing, assembly, Gone, vars
<1>8. CASE UNCHANGED vars BY <1>7, <1>8
<1>9. CASE Next
  <2> USE <1>9 DEF Reading, Assembling
  <2> QED BY <1>1, <1>2, <1>3, <1>4, <1>5, <1>6, <1>7 DEF Next
<1> QED BY <1>8, <1>9

LEMMA AssemblingKeepsConfig == ASSUME Assembling PROVE UNCHANGED << config, asked >>
  BY DEF Assembling, Assemble, SkipDisabled, InstallBattle, InstallUnits, InstallLegacy, EndOfFeatures,
         LoadArchetype, EndOfArchetypes, Install

-----------------------------------------------------------------------------
(* What a config holds *)

\* The feature lines it may have been made of.
Features ==
  {line \in ConfigLines \cup {Feature(id, TRUE, "absent") : id \in Catalog} : line.directive = "feature"}

FileNames == {line.file : line \in ConfigLines}

Configs == [rngSeed : SUBSET Int, maxTicks : Int, features : Seq(Features), files : Seq(FileNames)]

ConfigInv ==
  /\ LimitInv
  /\ config \in Configs
  /\ stage = "arguments" => asked = DefaultTicks

LEMMA BlankIsConfig == BlankConfig \in Configs
  BY SizesAssumption DEF BlankConfig, Configs

LEMMA DefaultIsConfig == DefaultConfig \in Configs /\ DefaultConfig.maxTicks = DefaultTicks
<1>1. DefaultFeatures \in Seq(Features) BY DEF DefaultFeatures, Features, Feature, Catalog
<1> QED BY <1>1, BlankIsConfig DEF DefaultConfig, BlankConfig, Configs

LEMMA ConfigStarts == Init => ConfigInv
  BY LimitStarts, BlankIsConfig DEF Init, ConfigInv

\* A line that is read leaves a config that is still well formed, and the limit with
\* the last number asked for.
LEMMA ReadKeeps ==
  ASSUME ConfigInv, NEW line \in ConfigLines, ReadLine(line)
  PROVE  LimitInv' /\ config' \in Configs
<1> USE DEF ConfigInv
<1>1. config' = Read(config, line) /\ asked' = IF line.directive = "maxTicks" THEN line.number ELSE asked
  BY DEF ReadLine
<1>2. line.directive \in Directives /\ LineIsValid(line) BY LinesAssumption DEF ReadLine
<1>3. CASE line.directive = "feature"
  <2>1. line \in Features BY <1>3 DEF Features
  <2>2. config' = [config EXCEPT !.features = Append(@, line)] BY <1>1, <1>3 DEF Read
  <2>3. Append(config.features, line) \in Seq(Features) BY <2>1 DEF Configs
  <2>4. config' \in Configs /\ config'.maxTicks = config.maxTicks BY <2>2, <2>3 DEF Configs
  <2> QED BY <1>1, <1>3, <2>4 DEF LimitInv, TickLimit
<1>4. CASE line.directive = "archetypeFile"
  <2>1. config' = [config EXCEPT !.files = Append(@, line.file)] BY <1>1, <1>4 DEF Read
  <2>2. line.file \in FileNames BY DEF FileNames
  <2>3. Append(config.files, line.file) \in Seq(FileNames) BY <2>2 DEF Configs
  <2>4. config' \in Configs /\ config'.maxTicks = config.maxTicks BY <2>1, <2>3 DEF Configs
  <2> QED BY <1>1, <1>4, <2>4 DEF LimitInv, TickLimit
<1>5. CASE line.directive = "rngSeed random"
  <2>1. config' = [config EXCEPT !.rngSeed = {}] BY <1>1, <1>5 DEF Read
  <2>2. config' \in Configs /\ config'.maxTicks = config.maxTicks BY <2>1 DEF Configs
  <2> QED BY <1>1, <1>5, <2>2 DEF LimitInv, TickLimit
<1>6. CASE line.directive = "rngSeed"
  <2>1. line.number \in Int BY <1>6, LinesAssumption
  <2>2. Uint(line.number) \in Int BY <2>1, SizesAssumption DEF Uint
  <2>3. config' = [config EXCEPT !.rngSeed = {Uint(line.number)}] BY <1>1, <1>6 DEF Read
  <2>4. config' \in Configs /\ config'.maxTicks = config.maxTicks BY <2>2, <2>3 DEF Configs
  <2> QED BY <1>1, <1>6, <2>4 DEF LimitInv, TickLimit
<1>7. CASE line.directive = "maxTicks"
  <2> DEFINE n == line.number
  <2>1. n \in Nat BY <1>2, <1>7, LinesAssumption DEF LineIsValid, IsUnsigned
  <2>2. config' = [config EXCEPT !.maxTicks = AsInt(Uint(n))] /\ asked' = n BY <1>1, <1>7 DEF Read
  <2> HIDE DEF n
  <2>3. /\ AsInt(Uint(n)) \in Int /\ AsInt(Uint(n)) <= n
        /\ 2 * n < UintSize => AsInt(Uint(n)) = n
    BY <2>1, Conversions
  <2>4. config' \in Configs /\ config'.maxTicks = AsInt(Uint(n)) BY <2>2, <2>3 DEF Configs
  <2> QED BY <2>1, <2>2, <2>3, <2>4 DEF LimitInv, TickLimit
<1> QED BY <1>2, <1>3, <1>4, <1>5, <1>6, <1>7 DEF Directives, LineIsValid

LEMMA ConfigContinues == ASSUME ConfigInv, [Next]_vars PROVE ConfigInv'
<1>1. CASE UseDefaults
  <2>1. config' = DefaultConfig /\ asked' = DefaultTicks
    BY <1>1 DEF UseDefaults, Go, Runs, ConfigInv
  <2> QED BY <2>1, DefaultIsConfig, SizesAssumption DEF ConfigInv, LimitInv, TickLimit
<1>2. ASSUME NEW line \in ConfigLines, ReadLine(line) PROVE ConfigInv'
  <2>1. stage' # "arguments" BY <1>2 DEF ReadLine, Go
  <2> QED BY <1>2, <2>1, ReadKeeps DEF ConfigInv
<1>3. CASE Assembling \/ Passing
  <2>1. config' = config /\ asked' = asked BY <1>3, AssemblingKeepsConfig DEF Passing
  <2>2. stage' = "arguments" => stage = "arguments"
    BY <1>3 DEF Passing, After, Over, Before, Assembling, Assemble, SkipDisabled, InstallBattle, InstallUnits,
       InstallLegacy, EndOfFeatures, LoadArchetype, EndOfArchetypes, Install, Go
  <2> QED BY <2>1, <2>2 DEF ConfigInv, LimitInv, TickLimit
<1> QED BY <1>1, <1>2, <1>3, Steps DEF Reading

\* Inductive: what is known of the config in every state.
THEOREM ConfigInvariant == Spec => []ConfigInv
  BY ConfigStarts, ConfigContinues, PTL DEF Spec

\* The limit a run is given is never longer than the last one asked for, and is that one
\* whenever it fits an int.
THEOREM LimitIsKeptTheorem == Spec => []LimitIsKept
<1>1. ConfigInv => LimitIsKept BY DEF ConfigInv, LimitInv, LimitIsKept
<1> QED BY <1>1, ConfigInvariant, PTL

-----------------------------------------------------------------------------
(* The assembly: what is registered follows what is installed *)

Nothing == scheduled = 0 /\ installed = {}

\* The battle's handlers come and go with its systems, and recipes need no others.
Consistent ==
  /\ scheduled \in {0, 1} /\ installed \subseteq Catalog
  /\ handlers = CoreHandlers \cup (IF scheduled = 1 THEN BattleHandlers ELSE {})
  /\ "battle.basic" \in installed => scheduled = 1
  /\ \A id \in DOMAIN recipes : recipes[id] \subseteq handlers

\* The enabled lines before `at' are installed.
Progress ==
  /\ at \in 1 .. Len(config.features) + 1
  /\ \A i \in DOMAIN config.features :
       i < at /\ config.features[i].enabled => config.features[i].id \in installed

AssemblyInv ==
  /\ stage \in Before => Nothing /\ recipes = << >>
  /\ stage \in {"features", "archetypes"} \cup After => Consistent
  /\ stage = "features" => Progress /\ FeaturesAreAccepted(config.features)
  /\ stage \in {"archetypes"} \cup After => installed = Catalog

ProcessInv == ConfigInv /\ AssemblyInv

LEMMA AssemblyStarts == Init => AssemblyInv
  BY DEF Init, AssemblyInv, Before, After, Nothing

LEMMA AssembleKeeps == ASSUME ProcessInv, Assemble PROVE AssemblyInv'
<1>1. Nothing /\ recipes = << >> BY DEF ProcessInv, AssemblyInv, Assemble, Go, Runs, Before
<1>2. stage' = "features" /\ handlers' = CoreHandlers /\ at' = 1
  BY DEF Assemble, Go
<1>3. UNCHANGED << config, scheduled, recipes, installed >> /\ FeaturesAreAccepted(config.features)
  BY DEF Assemble
<1>4. Consistent' BY <1>1, <1>2, <1>3 DEF Consistent, Nothing
<1>5. Progress'
  <2>1. Len(config.features) \in Nat BY DEF ProcessInv, ConfigInv, Configs
  <2>2. DOMAIN config.features = 1 .. Len(config.features) BY DEF ProcessInv, ConfigInv, Configs
  <2> QED BY <1>2, <1>3, <2>1, <2>2 DEF Progress
<1> QED BY <1>2, <1>3, <1>4, <1>5 DEF AssemblyInv, Before, After

\* One more feature line: what has to be shown of each way to deal with it.
LEMMA NextLine ==
  ASSUME ProcessInv, Installing, stage' = "features", at' = at + 1, config' = config,
         Consistent', installed \subseteq installed', Line.enabled => Line.id \in installed'
  PROVE  AssemblyInv'
<1>1. Progress /\ FeaturesAreAccepted(config.features) BY DEF ProcessInv, AssemblyInv, Installing
<1>2. config.features \in Seq(Features) BY DEF ProcessInv, ConfigInv, Configs
<1>3. Progress'
  <2>1. at' \in 1 .. Len(config.features) + 1 BY <1>1, <1>2 DEF Progress, Installing
  <2>2. ASSUME NEW i \in DOMAIN config.features, i < at + 1, config.features[i].enabled
        PROVE  config.features[i].id \in installed'
    <3>1. CASE i = at BY <2>2, <3>1 DEF Line
    <3>2. CASE i # at BY <1>1, <1>2, <2>2, <3>2 DEF Progress
    <3> QED BY <3>1, <3>2
  <2> QED BY <2>1, <2>2 DEF Progress
<1> QED BY <1>1, <1>3 DEF AssemblyInv, Before, After

LEMMA FeatureKeeps ==
  ASSUME ProcessInv, SkipDisabled \/ InstallBattle \/ InstallUnits \/ InstallLegacy
  PROVE  AssemblyInv'
<1>1. Consistent
  BY DEF ProcessInv, AssemblyInv, SkipDisabled, InstallBattle, InstallUnits, InstallLegacy, Install, Installing
<1>2. Installing /\ stage' = "features" /\ at' = at + 1 /\ config' = config
  BY DEF SkipDisabled, InstallBattle, InstallUnits, InstallLegacy, Install, Go
<1>3. CASE SkipDisabled
  <2>1. UNCHANGED assembly /\ ~Line.enabled BY <1>3 DEF SkipDisabled
  <2>2. Consistent' BY <1>1, <2>1 DEF Consistent, assembly
  <2> QED BY <1>2, <2>1, <2>2, NextLine DEF assembly
<1>4. CASE InstallBattle
  <2>1. scheduled = 0 /\ handlers = CoreHandlers
    BY <1>1, <1>4, HandlersAssumption DEF InstallBattle, MayAdd, Consistent
  <2>2. /\ handlers' = handlers \cup BattleHandlers /\ scheduled' = scheduled + 1 /\ recipes' = recipes
        /\ Line.id = "battle.basic" /\ installed' = installed \cup {"battle.basic"}
    BY <1>4 DEF InstallBattle, Install
  <2>3. Consistent' BY <1>1, <2>1, <2>2 DEF Consistent, Catalog
  <2> QED BY <1>2, <2>2, <2>3, NextLine
<1>5. CASE InstallUnits
  <2>1. scheduled = 1 BY <1>1, <1>5, HandlersAssumption DEF InstallUnits, Consistent
  <2>2. /\ UNCHANGED << handlers, scheduled >> /\ recipes' = ClassicRecipes
        /\ Line.id = "units.classic" /\ installed' = installed \cup {"units.classic"}
    BY <1>5 DEF InstallUnits, Install
  <2>3. Consistent' BY <1>1, <2>1, <2>2, HandlersAssumption DEF Consistent, Catalog
  <2> QED BY <1>2, <2>2, <2>3, NextLine
<1>6. CASE InstallLegacy
  <2>1. /\ UNCHANGED << handlers, scheduled, recipes >>
        /\ Line.id = "io.legacy" /\ installed' = installed \cup {"io.legacy"}
    BY <1>6 DEF InstallLegacy, Install
  <2>2. Consistent' BY <1>1, <2>1 DEF Consistent, Catalog
  <2> QED BY <1>2, <2>1, <2>2, NextLine
<1> QED BY <1>3, <1>4, <1>5, <1>6

\* What is required is asked of the last lines, what is installed is every enabled one.
LEMMA EndOfFeaturesKeeps == ASSUME ProcessInv, EndOfFeatures PROVE AssemblyInv'
<1>1. Consistent /\ Progress /\ FeaturesAreAccepted(config.features)
  BY DEF ProcessInv, AssemblyInv, EndOfFeatures, Go, Runs
<1>2. stage' = "archetypes" /\ UNCHANGED << handlers, scheduled, recipes, installed >>
  BY DEF EndOfFeatures, Go, assembly
<1>3. at > Len(config.features) BY DEF EndOfFeatures
<1>4. config.features \in Seq(Features) BY DEF ProcessInv, ConfigInv, Configs
<1>5. ASSUME NEW id \in Catalog PROVE id \in installed
  <2>1. PICK i \in DOMAIN config.features : config.features[i].id = id /\ config.features[i].enabled
    BY <1>1 DEF FeaturesAreAccepted, Enabled, Named
  <2>2. i < at BY <1>1, <1>3, <1>4 DEF Progress
  <2> QED BY <1>1, <2>1, <2>2 DEF Progress
<1>6. installed = Catalog BY <1>1, <1>5 DEF Consistent
<1>7. Consistent' BY <1>1, <1>2 DEF Consistent
<1> QED BY <1>2, <1>6, <1>7 DEF AssemblyInv, Before, After

LEMMA ArchetypesKeep ==
  ASSUME ProcessInv, LoadArchetype \/ EndOfArchetypes
  PROVE  AssemblyInv'
<1>1. Consistent /\ installed = Catalog
  BY DEF ProcessInv, AssemblyInv, LoadArchetype, Loading, EndOfArchetypes, Go, Runs
<1>2. stage' \in {"archetypes"} \cup After /\ UNCHANGED << handlers, scheduled, installed >>
  BY DEF LoadArchetype, EndOfArchetypes, Go, assembly, After
<1>3. \A id \in DOMAIN recipes' : recipes'[id] \subseteq handlers
  <2>1. CASE LoadArchetype
    <3>1. Archetypes[File].handlers \subseteq handlers BY <2>1 DEF LoadArchetype, Loads
    <3> DEFINE a == Archetypes[File]
    <3>2. recipes' = [id \in DOMAIN recipes \cup {a.id} |-> IF id = a.id THEN a.handlers ELSE recipes[id]]
      BY <2>1 DEF LoadArchetype
    <3>3. a.handlers \subseteq handlers BY <3>1
    <3> HIDE DEF a
    <3> QED BY <1>1, <3>2, <3>3 DEF Consistent
  <2>2. CASE EndOfArchetypes BY <1>1, <2>2 DEF EndOfArchetypes, assembly, Consistent
  <2> QED BY <2>1, <2>2
<1>4. Consistent' BY <1>1, <1>2, <1>3 DEF Consistent
<1> QED BY <1>1, <1>2, <1>4 DEF AssemblyInv, Before, After

LEMMA AssemblyContinues == ASSUME ProcessInv, [Next]_vars PROVE AssemblyInv'
<1>1. CASE Reading
  <2>1. stage \in Before /\ stage' \in Before /\ UNCHANGED << scheduled, installed, recipes >>
    BY <1>1 DEF Reading, UseDefaults, ReadLine, Go, Runs, Before, assembly
  <2> QED BY <2>1 DEF ProcessInv, AssemblyInv, Before, After, Nothing
<1>2. CASE Assembling
  BY <1>2, AssembleKeeps, FeatureKeeps, EndOfFeaturesKeeps, ArchetypesKeep DEF Assembling
<1>3. CASE Passing
  <2>1. UNCHANGED << config, handlers, scheduled, recipes, installed >> BY <1>3 DEF Passing
  <2>2. CASE UNCHANGED << stage, at >>
    BY <2>1, <2>2 DEF ProcessInv, AssemblyInv, Nothing, Consistent, Progress
  <2>3. CASE stage \in Before /\ stage' \in Before
    BY <2>1, <2>3 DEF ProcessInv, AssemblyInv, Nothing, Before, After
  <2>4. CASE stage \in After /\ stage' \in After
    BY <2>1, <2>4 DEF ProcessInv, AssemblyInv, Consistent, Before, After
  <2>5. CASE stage' \in Over BY <2>5 DEF AssemblyInv, Over, Before, After
  <2> QED BY <1>3, <2>2, <2>3, <2>4, <2>5 DEF Passing
<1> QED BY <1>1, <1>2, <1>3, Steps

\* Inductive: what is registered and installed at every stage of the assembly.
THEOREM ProcessInvariant == Spec => []ProcessInv
<1>1. Init => ProcessInv BY ConfigStarts, AssemblyStarts DEF ProcessInv
<1>2. ProcessInv /\ [Next]_vars => ProcessInv'
  BY ConfigContinues, AssemblyContinues DEF ProcessInv
<1> QED BY <1>1, <1>2, PTL DEF Spec

LEMMA ReadyIsAfter == Ready = (stage \in After) BY DEF Ready, After

\* However the feature lines repeat and contradict one another, a battle that begins has
\* its systems in the scheduler exactly once.
THEOREM ScheduledOnceTheorem == Spec => []BattleIsScheduledOnce
<1>1. ProcessInv => BattleIsScheduledOnce
  BY ReadyIsAfter DEF ProcessInv, AssemblyInv, Consistent, BattleIsScheduledOnce, Catalog
<1> QED BY <1>1, ProcessInvariant, PTL

\* Every required pack was installed when the commands are read, although the requirement
\* is asked of a map and the packs are installed line by line.
THEOREM RequiredIsInstalledTheorem == Spec => []RequiredIsInstalled
<1>1. ProcessInv => RequiredIsInstalled
  BY ReadyIsAfter DEF ProcessInv, AssemblyInv, RequiredIsInstalled
<1> QED BY <1>1, ProcessInvariant, PTL

\* No archetype, classic or loaded from a file, names a handler that is not registered
\* when the battle begins.
THEOREM RecipesTheorem == Spec => []RecipesAreResolvable
<1>1. ProcessInv => RecipesAreResolvable
  BY ReadyIsAfter DEF ProcessInv, AssemblyInv, Consistent, RecipesAreResolvable
<1> QED BY <1>1, ProcessInvariant, PTL

-----------------------------------------------------------------------------
(* Arrays of records *)

Marks == {"[", "record", "]"}

\* An array that is not closed yet, with n records.
Body(n) == [i \in 1 .. n + 1 |-> IF i = 1 THEN "[" ELSE "record"]

LEMMA FunctionIsSeq ==
  ASSUME NEW n \in Nat, NEW f \in [1 .. n -> Marks]
  PROVE  f \in Seq(Marks) /\ Len(f) = n
<1>1. f \in Seq(Marks) OBVIOUS
<1>2. Len(f) \in Nat /\ DOMAIN f = 1 .. Len(f) BY <1>1, LenProperties
<1> DEFINE k == Len(f)
<1>3. k \in Nat /\ 1 .. k = 1 .. n BY <1>2
<1> HIDE DEF k
<1>4. k = n BY <1>3
<1> QED BY <1>1, <1>4 DEF k

LEMMA BodyIsSeq == ASSUME NEW n \in Nat PROVE Body(n) \in Seq(Marks) /\ Len(Body(n)) = n + 1
<1>1. Body(n) \in [1 .. n + 1 -> Marks] BY DEF Body, Marks
<1> QED BY <1>1, FunctionIsSeq

LEMMA AppendToBody ==
  ASSUME NEW n \in Nat, NEW e \in Marks, NEW t \in [1 .. n + 2 -> Marks],
         \A i \in 1 .. n + 2 : t[i] = IF i = n + 2 THEN e ELSE Body(n)[i]
  PROVE  Append(Body(n), e) = t
<1> DEFINE b == Body(n)
           s == Append(b, e)
<1>1. b \in Seq(Marks) /\ Len(b) = n + 1 BY BodyIsSeq
<1> HIDE DEF b
<1>2. /\ s \in Seq(Marks) /\ Len(s) = n + 2
      /\ \A i \in 1 .. n + 2 : s[i] = IF i = n + 2 THEN e ELSE b[i]
  BY <1>1
<1>3. t \in Seq(Marks) /\ Len(t) = n + 2 BY FunctionIsSeq
<1> HIDE DEF s
<1>4. \A i \in 1 .. n + 2 : s[i] = t[i] BY <1>2 DEF b
<1> QED BY <1>2, <1>3, <1>4, SeqEqual DEF s, b

LEMMA BodyGrows == ASSUME NEW n \in Nat PROVE Append(Body(n), "record") = Body(n + 1)
<1> DEFINE t == Body(n + 1)
<1>1. t \in [1 .. n + 2 -> Marks] BY DEF Body, Marks
<1>2. \A i \in 1 .. n + 2 : t[i] = IF i = n + 2 THEN "record" ELSE Body(n)[i] BY DEF Body
<1> QED BY <1>1, <1>2, AppendToBody DEF Marks

LEMMA BodyIsClosed ==
  ASSUME NEW n \in Nat
  PROVE  Append(Body(n), "]") = Trace(n) /\ Trace(n) \in Seq(Marks) /\ Len(Trace(n)) = n + 2
<1> DEFINE t == Trace(n)
<1>1. t \in [1 .. n + 2 -> Marks] BY DEF Trace, Marks
<1>2. \A i \in 1 .. n + 2 : t[i] = IF i = n + 2 THEN "]" ELSE Body(n)[i] BY DEF Body, Trace
<1>3. t \in Seq(Marks) /\ Len(t) = n + 2 BY <1>1, FunctionIsSeq
<1> QED BY <1>1, <1>2, <1>3, AppendToBody DEF Marks

LEMMA BodyStarts == << "[" >> = Body(0)
<1> DEFINE s == << "[" >>
           t == Body(0)
<1>1. s \in Seq(Marks) /\ Len(s) = 1 /\ s[1] = "[" BY DEF Marks
<1>2. t \in Seq(Marks) /\ Len(t) = 1 /\ t[1] = "[" BY BodyIsSeq DEF Body
<1> HIDE DEF s, t
<1>3. s = t BY <1>1, <1>2, SeqEqual
<1> QED BY <1>3 DEF s, t

-----------------------------------------------------------------------------
(* The trace file *)

Early == {"arguments", "config", "options", "trace"}
Late == {"assembly", "features", "archetypes", "commands", "battle", "finish"}
Done == {"leaving", "closing"}

\* What was put into the stream.
WrittenInv ==
  /\ published \in Nat
  /\ written = IF finished THEN Trace(published) ELSE IF HasWriter THEN Body(published) ELSE << >>
  /\ stage \in Early \cup {"writer"} => published = 0 /\ ~HasWriter
  /\ stage \in Late \cup Done /\ opened => HasWriter
  /\ finished => HasWriter /\ stage \in Done \cup {"unwound"}
  /\ stage \in Done /\ HasWriter => finished

\* The file, and when it is closed.
FileInv ==
  /\ args \in Arguments /\ exit \in {"running", "zero", "crashed", "killed"}
  /\ finished \in BOOLEAN /\ opened \in BOOLEAN
  /\ disk \in Nat /\ disk <= Len(written)
  /\ stage \notin Over \cup {"arguments"} => args.mode = "run"
  /\ HasWriter => opened
  /\ opened => Wanted
  /\ stage \in Early => ~opened
  /\ stage = "writer" => opened
  /\ stage \in Late \cup Done /\ Wanted => opened
  /\ exit = "zero" => \/ stage = "arguments" /\ args.mode = "inspect"
                      \/ stage = "closing" /\ (full \/ disk = Len(written))

TraceInv == WrittenInv /\ FileInv

\* Steps that leave the trace alone.
Quiet ==
  /\ exit = "running" /\ UNCHANGED << args, written, finished, published, opened, disk, full, exit >>
  /\ \/ stage' = stage
     \/ /\ stage \in Early /\ stage' \in Early \ {"arguments"}
        /\ stage = "arguments" => args.mode = "run"
     \/ stage \in Late /\ stage' \in Late
     \/ stage \in Early \cup Late /\ stage' = "raised"

Finishing == CallFinish \/ Leave \/ Unwind
Ending == Inspect \/ Exit \/ Terminate \/ Kill

LEMMA TraceSteps ==
  ASSUME [Next]_vars
  PROVE  \/ Quiet \/ OpenTrace \/ MakeWriter \/ Publish \/ Finishing
         \/ Flush \/ DiskFills \/ Ending \/ UNCHANGED vars
<1>1. BadArguments \/ InspectThrows \/ UseDefaults \/ OpenConfig => Quiet
  BY DEF Quiet, Early, Go, Runs, Throw, trace, BadArguments, InspectThrows, UseDefaults, OpenConfig
<1>2. (\E line \in ConfigLines : ReadLine(line) \/ BadLine(line)) \/ EndOfConfig => Quiet
  BY DEF Quiet, Early, Go, Runs, Throw, trace, ReadLine, BadLine, EndOfConfig
<1>3. MakeOptions \/ BadOptions \/ TraceRefused \/ Assemble => Quiet
  BY DEF Quiet, Early, Late, Go, Runs, Throw, trace, MakeOptions, BadOptions, TraceRefused, Assemble
<1>4. SkipDisabled \/ InstallBattle \/ InstallUnits \/ InstallLegacy \/ EndOfFeatures => Quiet
  BY DEF Quiet, Late, Go, Runs, trace, SkipDisabled, InstallBattle, InstallUnits, InstallLegacy,
         Install, EndOfFeatures
<1>5. BattleTwice \/ UnitsBeforeBattle \/ BadArchetype \/ BadCommand => Quiet
  BY DEF Quiet, Late, Throw, Runs, trace, BattleTwice, UnitsBeforeBattle, BadArchetype, BadCommand
<1>6. LoadArchetype \/ EndOfArchetypes \/ EndOfCommands \/ BattleReturns => Quiet
  BY DEF Quiet, Late, Go, Runs, trace, LoadArchetype, EndOfArchetypes, EndOfCommands, BattleReturns
<1>7. Gone => UNCHANGED vars BY DEF Gone
<1>8. CASE Next
  <2> USE <1>8 DEF Finishing, Ending
  <2> QED BY <1>1, <1>2, <1>3, <1>4, <1>5, <1>6, <1>7 DEF Next
<1> QED BY <1>8

LEMMA WrittenLength ==
  ASSUME TraceInv
  PROVE  /\ Len(written) \in Nat
         /\ ~HasWriter => written = << >> /\ ~finished
         /\ finished => Len(written) = published + 2
         /\ HasWriter /\ ~finished => Len(written) = published + 1
<1>1. Len(<< >>) = 0 OBVIOUS
<1>2. published \in Nat BY DEF TraceInv, WrittenInv
<1>3. Len(Body(published)) = published + 1 /\ Len(Trace(published)) = published + 2
  BY <1>2, BodyIsSeq, BodyIsClosed
<1> QED BY <1>1, <1>2, <1>3 DEF TraceInv, WrittenInv, HasWriter

LEMMA TraceStarts == Init => TraceInv
<1> SUFFICES ASSUME Init PROVE TraceInv OBVIOUS
<1>1. Len(written) = 0 BY DEF Init
<1>2. WrittenInv BY DEF Init, WrittenInv, HasWriter, Early
<1>3. /\ args \in Arguments /\ stage = "arguments" /\ exit = "running" /\ disk = 0
      /\ ~HasWriter /\ ~opened
  BY DEF Init, HasWriter
<1>4. finished \in BOOLEAN /\ opened \in BOOLEAN BY DEF Init
<1>5. FileInv BY <1>1, <1>3, <1>4 DEF FileInv, Early, Late, Done, Over
<1> QED BY <1>2, <1>5 DEF TraceInv

LEMMA QuietKeeps == ASSUME TraceInv, Quiet PROVE TraceInv'
<1> USE DEF TraceInv
<1>1. UNCHANGED << args, written, finished, published, opened, disk, full, exit >> BY DEF Quiet
<1>2. HasWriter' = HasWriter /\ Wanted' = Wanted BY <1>1 DEF HasWriter, Wanted
<1>3. CASE stage' = stage BY <1>1, <1>2, <1>3 DEF WrittenInv, FileInv
<1>4. CASE stage' # stage
  <2>1. exit = "running" BY DEF Quiet
  <2>2. \/ stage \in Early /\ stage' \in Early \ {"arguments"} /\ (stage = "arguments" => args.mode = "run")
        \/ stage \in Late /\ stage' \in Late
        \/ stage \in Early \cup Late /\ stage' = "raised"
    BY <1>4 DEF Quiet
  <2>3. WrittenInv' BY <1>1, <1>2, <2>2 DEF WrittenInv, Early, Late, Done
  <2>4. FileInv' BY <1>1, <1>2, <2>1, <2>2 DEF FileInv, Early, Late, Done, Over
  <2> QED BY <2>3, <2>4
<1> QED BY <1>3, <1>4

LEMMA OpenTraceKeeps == ASSUME TraceInv, OpenTrace PROVE TraceInv'
<1> USE DEF TraceInv
<1>1. /\ stage = "trace" /\ exit = "running" /\ exit' = exit /\ args' = args
      /\ stage' = (IF args.trace = "file" THEN "writer" ELSE "assembly")
      /\ opened' = (args.trace = "file") /\ args.trace # "refused"
      /\ UNCHANGED << written, finished, published, disk, full >>
  BY DEF OpenTrace, Go, Runs
<1>2. HasWriter' = HasWriter /\ Wanted' = Wanted /\ ~HasWriter BY <1>1 DEF HasWriter, Wanted, WrittenInv, Early
<1>3. args.mode = "run" /\ args.trace \in {"none", "refused", "file"}
  BY <1>1 DEF FileInv, Over, Arguments
<1>4. WrittenInv' BY <1>1, <1>2, <1>3 DEF WrittenInv, Early, Late, Done
<1>5. FileInv' BY <1>1, <1>2, <1>3 DEF FileInv, Early, Late, Done, Over, Wanted
<1> QED BY <1>4, <1>5

LEMMA MakeWriterKeeps == ASSUME TraceInv, MakeWriter PROVE TraceInv'
<1> USE DEF TraceInv
<1>1. /\ stage = "writer" /\ exit = "running" /\ exit' = exit /\ args' = args
      /\ stage' = "assembly" /\ written' = << "[" >>
      /\ UNCHANGED << finished, published, opened, disk, full >>
  BY DEF MakeWriter, Go, Runs
<1>2. published = 0 /\ ~finished /\ ~HasWriter BY <1>1 DEF WrittenInv, Done
<1>3. written' = Body(0) /\ Len(written') = 1 BY <1>1, BodyStarts, BodyIsSeq
<1>4. HasWriter' BY <1>1 DEF HasWriter
<1>5. WrittenInv' BY <1>1, <1>2, <1>3, <1>4 DEF WrittenInv, Early, Late, Done
<1>6. disk = 0 BY <1>2, WrittenLength DEF FileInv
<1>7. FileInv' BY <1>1, <1>2, <1>3, <1>6 DEF FileInv, Early, Late, Done, Over, Wanted
<1> QED BY <1>5, <1>7

LEMMA PublishKeeps == ASSUME TraceInv, Publish PROVE TraceInv'
<1> USE DEF TraceInv
<1>1. /\ stage \in {"commands", "battle"} /\ exit = "running" /\ exit' = exit /\ args' = args
      /\ stage' = stage /\ published' = published + 1
      /\ written' = (IF HasWriter THEN Append(written, "record") ELSE written)
      /\ UNCHANGED << finished, opened, disk, full >>
  BY DEF Publish, Go, Runs
<1>2. ~finished /\ published \in Nat BY <1>1 DEF WrittenInv, Done
<1>3. CASE HasWriter
  <2>1. written' = Body(published + 1) BY <1>1, <1>2, <1>3, BodyGrows DEF WrittenInv
  <2>2. Len(written') = published + 2 /\ Len(written) = published + 1
    BY <1>2, <1>3, <2>1, BodyIsSeq, WrittenLength
  <2>3. Len(<< >>) = 0 OBVIOUS
  <2>4. HasWriter' BY <1>2, <2>2, <2>3 DEF HasWriter
  <2>5. WrittenInv' BY <1>1, <1>2, <1>3, <2>1, <2>4 DEF WrittenInv, Early, Late, Done
  <2>6. FileInv' BY <1>1, <1>2, <1>3, <2>2, <2>4 DEF FileInv, Early, Late, Done, Over, Wanted
  <2> QED BY <2>5, <2>6
<1>4. CASE ~HasWriter
  <2>1. written' = written /\ ~HasWriter' BY <1>1, <1>4 DEF HasWriter
  <2>2. WrittenInv' BY <1>1, <1>2, <1>4, <2>1 DEF WrittenInv, Early, Late, Done
  <2>3. FileInv' BY <1>1, <1>2, <1>4, <2>1 DEF FileInv, Early, Late, Done, Over, Wanted
  <2> QED BY <2>2, <2>3
<1> QED BY <1>3, <1>4

\* What the end of the trace is whoever calls finish(), and however often.
LEMMA FinishTraceCloses ==
  ASSUME TraceInv, FinishTrace
  PROVE  /\ finished' = HasWriter /\ HasWriter' = HasWriter
         /\ written' = (IF HasWriter THEN Trace(published) ELSE << >>)
         /\ Len(written') \in Nat /\ Len(written) <= Len(written')
         /\ HasWriter /\ ~finished => disk < Len(written')
         /\ finished => written' = written
         /\ UNCHANGED << published, opened, disk, full >>
<1>1. published \in Nat /\ finished \in BOOLEAN /\ disk \in Nat /\ disk <= Len(written)
  BY DEF TraceInv, WrittenInv, FileInv
<1>2. /\ written' = (IF HasWriter /\ ~finished THEN Append(written, "]") ELSE written)
      /\ finished' = HasWriter /\ UNCHANGED << published, opened, disk, full >>
  BY DEF FinishTrace
<1>3. HasWriter => written' = Trace(published) /\ Len(written') = published + 2
  BY <1>1, <1>2, BodyIsClosed DEF TraceInv, WrittenInv
<1>4. ~HasWriter => written' = << >> /\ written = << >> /\ ~finished BY <1>2, WrittenLength
<1>5. Len(<< >>) = 0 OBVIOUS
<1>6. Len(written') \in Nat /\ Len(written) <= Len(written') /\ (HasWriter /\ ~finished => disk < Len(written'))
  BY <1>1, <1>3, <1>4, <1>5, WrittenLength
<1>7. HasWriter' = HasWriter
  <2>1. HasWriter => Len(written') # 0 BY <1>1, <1>3
  <2> QED BY <1>4, <1>5, <2>1 DEF HasWriter
<1>8. finished => HasWriter BY DEF TraceInv, WrittenInv
<1> QED BY <1>2, <1>3, <1>4, <1>6, <1>7, <1>8

LEMMA FinishingKeeps == ASSUME TraceInv, Finishing PROVE TraceInv'
<1> USE DEF TraceInv
<1>1. /\ exit = "running" /\ exit' = exit /\ args' = args /\ FinishTrace
      /\ \/ stage = "finish" /\ stage' = "leaving"
         \/ stage = "leaving" /\ stage' = "closing"
         \/ stage = "raised" /\ stage' = "unwound"
  BY DEF Finishing, CallFinish, Leave, Unwind, Go, Runs
<1>2. WrittenInv' BY <1>1, FinishTraceCloses DEF WrittenInv, Early, Late, Done
<1>3. finished' \in BOOLEAN BY <1>1, FinishTraceCloses DEF HasWriter
<1>4. disk' \in Nat /\ disk' <= Len(written') BY <1>1, FinishTraceCloses, WrittenLength DEF FileInv
<1>5. HasWriter' = HasWriter /\ opened' = opened /\ Wanted' = Wanted
  BY <1>1, FinishTraceCloses DEF Wanted
<1>6. FileInv' BY <1>1, <1>3, <1>4, <1>5 DEF FileInv, Early, Late, Done, Over
<1> QED BY <1>2, <1>6

LEMMA FileKeeps == ASSUME TraceInv, Flush \/ DiskFills PROVE TraceInv'
<1> USE DEF TraceInv
<1>1. /\ exit = "running" /\ UNCHANGED << args, stage, written, finished, published, opened, exit >>
      /\ disk' \in Nat /\ disk' <= Len(written)
  BY WrittenLength DEF Flush, DiskFills, FileInv
<1>2. WrittenInv' BY <1>1 DEF WrittenInv, HasWriter
<1>3. FileInv' BY <1>1 DEF FileInv, HasWriter, Wanted
<1> QED BY <1>2, <1>3

LEMMA EndingKeeps == ASSUME TraceInv, Ending PROVE TraceInv'
<1> USE DEF TraceInv
<1>1. UNCHANGED << args, stage, written, finished, published, opened, disk, full >>
  BY DEF Ending, Inspect, Exit, Terminate, Kill, trace
<1>2. /\ exit' \in {"running", "zero", "crashed", "killed"}
      /\ exit' = "zero" => \/ stage = "arguments" /\ args.mode = "inspect"
                           \/ stage = "closing" /\ (full \/ disk = Len(written))
  BY DEF Ending, Inspect, Exit, ExitCode, Terminate, Kill, Runs
<1>3. WrittenInv' BY <1>1 DEF WrittenInv, HasWriter
<1>4. FileInv' BY <1>1, <1>2 DEF FileInv, HasWriter, Wanted
<1> QED BY <1>3, <1>4

\* Inductive: what is in the stream and in the file at every stage.
THEOREM TraceInvariant == Spec => []TraceInv
<1>1. TraceInv /\ [Next]_vars => TraceInv'
  <2>1. TraceInv /\ UNCHANGED vars => TraceInv'
    BY DEF TraceInv, WrittenInv, FileInv, HasWriter, Wanted, vars, trace
  <2> QED BY <2>1, TraceSteps, QuietKeeps, OpenTraceKeeps, MakeWriterKeeps, PublishKeeps, FinishingKeeps,
            FileKeeps, EndingKeeps
<1> QED BY <1>1, TraceStarts, PTL DEF Spec

\* A process that exits with zero leaves all its records and both brackets in the file,
\* unless a write failed, which it does not notice.
THEOREM ExitZeroTheorem == Spec => []ExitZeroIsWhole
<1>1. TraceInv => ExitZeroIsWhole
  <2> SUFFICES ASSUME TraceInv, exit = "zero", opened, ~full
               PROVE  written = Trace(published) /\ disk = Len(written)
    BY DEF ExitZeroIsWhole
  <2>1. stage = "closing" /\ disk = Len(written) BY DEF TraceInv, FileInv, Early
  <2>2. HasWriter /\ finished BY <2>1 DEF TraceInv, WrittenInv, Done
  <2> QED BY <2>1, <2>2 DEF TraceInv, WrittenInv
<1> QED BY <1>1, TraceInvariant, PTL

-----------------------------------------------------------------------------
(* BattleProcess implements ChildProcess *)

Seen(w, f, e) == [wanted |-> w, file |-> f, exit |-> e]

LEMMA FileMoves ==
  ASSUME NEW w \in BOOLEAN, NEW f, NEW g,
         (f = "absent" /\ w /\ g = "partial") \/ (f = "partial" /\ g \in {"cut", "whole"})
  PROVE  Seen(w, g, "running") \in AsChild!Moves(Seen(w, f, "running"))
<1>1. [Seen(w, f, "running") EXCEPT !.file = g] = Seen(w, g, "running") BY DEF Seen
<1>2. g \in AsChild!Grows(Seen(w, f, "running")) BY DEF Seen, AsChild!Grows
<1>3. Seen(w, f, "running").exit = "running" BY DEF Seen
<1> QED BY <1>1, <1>2, <1>3 DEF AsChild!Moves

LEMMA ExitMoves ==
  ASSUME NEW w \in BOOLEAN, NEW f, NEW e,
         e = "crashed" \/ (e = "zero" /\ f # "cut" /\ ~(w /\ f = "absent"))
  PROVE  Seen(w, f, e) \in AsChild!Moves(Seen(w, f, "running"))
<1>1. [Seen(w, f, "running") EXCEPT !.exit = e] = Seen(w, f, e) BY DEF Seen
<1>2. e \in AsChild!Ends(Seen(w, f, "running")) BY DEF Seen, AsChild!Ends
<1>3. Seen(w, f, "running").exit = "running" BY DEF Seen
<1> QED BY <1>1, <1>2, <1>3 DEF AsChild!Moves

LEMMA KillMoves ==
  ASSUME NEW w, NEW f
  PROVE  /\ Seen(w, f, "running").exit = "running"
         /\ Seen(w, f, "killed") = AsChild!Killed(Seen(w, f, "running"))
  BY DEF Seen, AsChild!Killed

\* What a step does to the file as a reader sees it.
FileStep ==
  \/ FileSeen' = FileSeen
  \/ FileSeen = "absent" /\ FileSeen' = "partial" /\ Wanted
  \/ FileSeen = "partial" /\ FileSeen' \in {"cut", "whole"}

LEMMA SeenCases ==
  /\ ~opened => FileSeen = "absent"
  /\ opened /\ ~(finished /\ disk = Len(written)) => FileSeen = "partial"
  /\ opened /\ finished /\ disk = Len(written) => FileSeen = IF Ready THEN "whole" ELSE "cut"
  BY DEF FileSeen

LEMMA SeenCasesNext ==
  /\ ~opened' => FileSeen' = "absent"
  /\ opened' /\ ~(finished' /\ disk' = Len(written')) => FileSeen' = "partial"
  /\ opened' /\ finished' /\ disk' = Len(written') => FileSeen' = IF Ready' THEN "whole" ELSE "cut"
  BY DEF FileSeen

LEMMA WriterSteps ==
  ASSUME TraceInv, Quiet \/ OpenTrace \/ MakeWriter \/ Publish
  PROVE  exit = "running" /\ exit' = exit /\ Wanted' = Wanted /\ FileStep
<1> USE SeenCases, SeenCasesNext DEF TraceInv
<1>1. CASE Quiet
  <2>1. exit = "running" /\ UNCHANGED << args, written, finished, published, opened, disk, full, exit >>
    BY <1>1 DEF Quiet
  <2>2. finished => stage' = stage
    BY <1>1 DEF Quiet, WrittenInv, Early, Late, Done
  <2>3. Wanted' = Wanted BY <2>1 DEF Wanted
  <2>4. FileSeen' = FileSeen BY <2>1, <2>2 DEF Ready
  <2> QED BY <2>1, <2>3, <2>4 DEF FileStep
<1>2. CASE OpenTrace
  <2>1. /\ exit = "running" /\ exit' = exit /\ args' = args /\ finished' = finished
        /\ stage = "trace"
    BY <1>2 DEF OpenTrace, Go, Runs
  <2>2. ~opened /\ ~finished BY <2>1 DEF FileInv, WrittenInv, Early, Done
  <2>3. Wanted' = Wanted BY <2>1 DEF Wanted
  <2>4. opened' => Wanted' BY <1>2, OpenTraceKeeps DEF FileInv
  <2> QED BY <2>1, <2>2, <2>3, <2>4 DEF FileStep
<1>3. CASE MakeWriter \/ Publish
  <2>1. /\ exit = "running" /\ exit' = exit /\ args' = args /\ UNCHANGED << finished, opened >>
        /\ stage \notin Done \cup {"unwound"}
    BY <1>3 DEF MakeWriter, Publish, Go, Runs, Done
  <2>2. ~finished BY <2>1 DEF WrittenInv
  <2>3. Wanted' = Wanted BY <2>1 DEF Wanted
  <2> QED BY <2>1, <2>2, <2>3 DEF FileStep
<1> QED BY <1>1, <1>2, <1>3

LEMMA ClosingSteps ==
  ASSUME TraceInv, Finishing \/ Flush \/ DiskFills
  PROVE  exit = "running" /\ exit' = exit /\ Wanted' = Wanted /\ FileStep
<1> USE SeenCases, SeenCasesNext DEF TraceInv
<1>1. CASE Finishing
  <2>1. /\ exit = "running" /\ exit' = exit /\ args' = args /\ FinishTrace
        /\ \/ stage = "finish" /\ stage' = "leaving"
           \/ stage = "leaving" /\ stage' = "closing"
           \/ stage = "raised" /\ stage' = "unwound"
    BY <1>1 DEF Finishing, CallFinish, Leave, Unwind, Go, Runs
  <2>2. Wanted' = Wanted BY <2>1 DEF Wanted
  <2>3. CASE finished
    <3>1. Ready /\ Ready' BY <2>1, <2>3 DEF WrittenInv, Done, Ready
    <3>2. HasWriter /\ finished' /\ UNCHANGED << written, opened, disk >>
      BY <2>1, <2>3, FinishTraceCloses DEF WrittenInv
    <3> QED BY <2>1, <2>2, <2>3, <3>1, <3>2 DEF FileStep
  <2>4. CASE ~finished
    <3>1. opened' = opened /\ disk' = disk /\ (finished' => disk < Len(written')) /\ Len(written') \in Nat
      BY <2>1, <2>4, FinishTraceCloses
    <3>2. disk \in Nat BY DEF FileInv
    <3>3. ~(finished' /\ disk' = Len(written')) BY <3>1, <3>2
    <3> QED BY <2>1, <2>2, <2>4, <3>1, <3>3 DEF FileStep
  <2> QED BY <2>3, <2>4
<1>2. CASE Flush
  <2>1. /\ exit = "running" /\ UNCHANGED << args, stage, written, finished, opened, exit >>
        /\ disk' \in disk + 1 .. Len(written)
    BY <1>2 DEF Flush
  <2>2. Wanted' = Wanted /\ Ready' = Ready BY <2>1 DEF Wanted, Ready
  <2>3. disk # Len(written) BY <2>1, WrittenLength DEF FileInv
  <2> QED BY <2>1, <2>2, <2>3 DEF FileStep
<1>3. CASE DiskFills
  <2>1. exit = "running" /\ UNCHANGED << args, stage, written, finished, opened, disk, exit >>
    BY <1>3 DEF DiskFills
  <2>2. Wanted' = Wanted /\ Ready' = Ready BY <2>1 DEF Wanted, Ready
  <2> QED BY <2>1, <2>2 DEF FileStep
<1> QED BY <1>1, <1>2, <1>3

LEMMA EndingSteps ==
  ASSUME TraceInv, Ending
  PROVE  /\ exit = "running" /\ Wanted' = Wanted /\ FileSeen' = FileSeen
         /\ \/ exit' = "killed" \/ exit' = "crashed"
            \/ exit' = "zero" /\ FileSeen # "cut" /\ ~(Wanted /\ FileSeen = "absent")
<1> USE SeenCases, SeenCasesNext DEF TraceInv
<1>1. UNCHANGED << args, stage, written, finished, opened, disk >> /\ exit = "running"
  BY DEF Ending, Inspect, Exit, Terminate, Kill, trace, Runs
<1>2. Wanted' = Wanted /\ FileSeen' = FileSeen BY <1>1 DEF Wanted, Ready
<1>3. CASE Inspect
  <2>1. exit' = "zero" /\ stage = "arguments" /\ ~Wanted BY <1>3 DEF Inspect, Runs, Wanted
  <2>2. FileSeen = "absent" BY <2>1 DEF FileInv, Early
  <2> QED BY <1>1, <1>2, <2>1, <2>2
<1>4. CASE Exit /\ stage = "closing"
  <2>1. exit' = "zero" /\ Ready BY <1>4 DEF Exit, ExitCode, Ready
  <2>2. Wanted => opened BY <1>4 DEF FileInv, Done
  <2> QED BY <1>1, <1>2, <2>1, <2>2
<1>5. CASE (Exit /\ stage # "closing") \/ Terminate \/ Kill
  <2>1. exit' \in {"killed", "crashed"} BY <1>5 DEF Exit, Terminate, Kill, ExitCode, Runs
  <2> QED BY <1>1, <1>2, <2>1
<1> QED BY <1>3, <1>4, <1>5 DEF Ending

\* Whatever happens in a process of battle_sim, what its parent sees of it is a child as
\* the runner takes it to be: no more can happen to its trace file and its exit code.
THEOREM ChildTheorem == Spec => IsAChild
<1> DEFINE child == Seen(Wanted, FileSeen, exit)
<1>1. Init => AsChild!Init
  <2> SUFFICES ASSUME Init PROVE AsChild!Init OBVIOUS
  <2>1. FileSeen = "absent" /\ exit = "running" BY DEF Init, FileSeen
  <2>2. Wanted \in BOOLEAN BY DEF Wanted
  <2> QED BY <2>1, <2>2 DEF AsChild!Init, AsChild!Born
<1>2. TraceInv /\ [Next]_vars => AsChild!Next \/ child' = child
  <2> SUFFICES ASSUME TraceInv, [Next]_vars PROVE AsChild!Next \/ child' = child OBVIOUS
  <2>1. Wanted \in BOOLEAN BY DEF Wanted
  <2>2. AsChild!Next
          <=> (child' \in AsChild!Moves(child) \/ (child.exit = "running" /\ child' = AsChild!Killed(child)))
    BY DEF AsChild!Next, Seen
  <2>3. CASE Quiet \/ OpenTrace \/ MakeWriter \/ Publish \/ Finishing \/ Flush \/ DiskFills
    <3>1. exit = "running" /\ exit' = exit /\ Wanted' = Wanted /\ FileStep
      BY <2>3, WriterSteps, ClosingSteps
    <3>2. child = Seen(Wanted, FileSeen, "running") /\ child' = Seen(Wanted, FileSeen', "running")
      BY <3>1 DEF Seen
    <3> QED BY <2>1, <2>2, <3>1, <3>2, FileMoves DEF FileStep
  <2>4. CASE Ending
    <3>1. child = Seen(Wanted, FileSeen, "running") /\ child' = Seen(Wanted, FileSeen, exit')
      BY <2>4, EndingSteps DEF Seen
    <3> QED BY <2>1, <2>2, <2>4, <3>1, EndingSteps, ExitMoves, KillMoves
  <2>5. CASE UNCHANGED vars
    BY <2>5 DEF vars, trace, Seen, Wanted, FileSeen, Ready
  <2> QED BY <2>3, <2>4, <2>5, TraceSteps
<1>3. TraceInv /\ [Next]_vars => [AsChild!Next]_[wanted |-> Wanted, file |-> FileSeen, exit |-> exit]
  BY <1>2 DEF Seen
<1> QED BY <1>1, <1>3, TraceInvariant, PTL DEF Spec, IsAChild, AsChild!Spec

=============================================================================
