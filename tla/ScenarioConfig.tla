--------------------------- MODULE ScenarioConfig ---------------------------
(***************************************************************************)
(* The config file: one directive a line, later lines over earlier ones.   *)
(*                                                                         *)
(* A line is a record of what parseGameConfig makes of its text; "invalid" *)
(* stands for every line it refuses.  An optional is the set of its value. *)
(* A number is what the digits say; a negative one stands for any text     *)
(* that is no number.                                                      *)
(***************************************************************************)
EXTENDS Integers, Sequences

CONSTANTS
  UintSize,     \* 2^32: std::uint32_t, and int has the same width
  LongSize,     \* the size of unsigned long: 2^32 or 2^64
  DefaultTicks  \* GameConfig::maxTicks

Catalog == {"battle.basic", "units.classic", "io.legacy"}

ASSUME SizesAssumption ==
  /\ UintSize \in Nat /\ LongSize \in Nat /\ DefaultTicks \in Nat
  /\ 0 < UintSize /\ UintSize <= LongSize /\ 2 * DefaultTicks < UintSize

Directives == {"feature", "rngSeed", "rngSeed random", "maxTicks", "archetypeFile", "invalid"}

\* summary is the setting debugSummary: "absent", "boolean" or "other".
Feature(id, enabled, summary) ==
  [directive |-> "feature", id |-> id, enabled |-> enabled, summary |-> summary]
SeedLine(n) == [directive |-> "rngSeed", number |-> n]
RandomSeedLine == [directive |-> "rngSeed random"]
TicksLine(n) == [directive |-> "maxTicks", number |-> n]
FileLine(file) == [directive |-> "archetypeFile", file |-> file]
InvalidLine == [directive |-> "invalid"]

BlankConfig == [rngSeed |-> {}, maxTicks |-> DefaultTicks, features |-> << >>, files |-> << >>]

DefaultFeatures == << Feature("battle.basic", TRUE, "absent"), Feature("units.classic", TRUE, "absent"),
                      Feature("io.legacy", TRUE, "absent") >>
DefaultConfig == [BlankConfig EXCEPT !.features = DefaultFeatures]

\* A definition named Slip... is the next one with a slip the code could have; no
\* other definition uses it.
\* parseUnsigned: stoul, then the conversion to 32 bits; maxTicks is then an int.
SlipIsUnsigned(n) == n < LongSize
IsUnsigned(n) == n >= 0 /\ n < LongSize
Uint(n) == n % UintSize
AsInt(u) == IF 2 * u < UintSize THEN u ELSE u - UintSize

LineIsValid(line) ==
  CASE line.directive \in {"rngSeed", "maxTicks"} -> IsUnsigned(line.number)
    [] line.directive = "invalid"                 -> FALSE
    [] OTHER                                      -> TRUE

Read(config, line) ==
  CASE line.directive = "feature"        -> [config EXCEPT !.features = Append(@, line)]
    [] line.directive = "rngSeed"        -> [config EXCEPT !.rngSeed = {Uint(line.number)}]
    [] line.directive = "rngSeed random" -> [config EXCEPT !.rngSeed = {}]
    [] line.directive = "maxTicks"       -> [config EXCEPT !.maxTicks = AsInt(Uint(line.number))]
    [] line.directive = "archetypeFile"  -> [config EXCEPT !.files = Append(@, line.file)]

Named(features, id) == {i \in DOMAIN features : features[i].id = id}

\* The map of enabled features keeps the last line that names a feature.
SlipEnabledIfNamed(features, id) == Named(features, id) # {}
Enabled(features, id) ==
  \E i \in Named(features, id) :
    features[i].enabled /\ \A j \in Named(features, id) : j <= i

\* What runOptionsFromConfig and assembleRuntime both ask of the features.
FeaturesAreAccepted(features) ==
  /\ \A i \in DOMAIN features : features[i].id \in Catalog
  /\ \A id \in Catalog : Enabled(features, id)

SummaryIsValid(features) ==
  \A i \in Named(features, "io.legacy") : features[i].summary # "other"

\* assembleRuntime leaves the seed of the generator at 0 when none is fixed.
Seeds(config) == IF config.rngSeed = {} THEN {0} ELSE config.rngSeed

\* EngineRunner::run makes the limit a number of ticks.
TickLimit(config) == IF config.maxTicks < 0 THEN 0 ELSE config.maxTicks

=============================================================================
