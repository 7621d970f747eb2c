------------------------- MODULE ProcessProperties -------------------------
(***************************************************************************)
(* What must hold of a process of battle_sim, and that its parent may take *)
(* it for a Child.                                                         *)
(***************************************************************************)
EXTENDS BattleProcess, FiniteSets

\* The assembly is over and was successful.
Ready == stage \in {"commands", "battle", "finish", "leaving", "closing"}

\* Whatever lines name a pack, in whatever order and number, a battle that begins
\* has its systems in the scheduler once: twice would be two turns a tick.
BattleIsScheduledOnce == Ready => scheduled = 1

\* Every required pack was really installed, although what is required is asked of
\* a map and what is installed is every enabled line.
RequiredIsInstalled == Ready => installed = Catalog

\* No rule of an archetype, classic or from a file, names a handler that the turn
\* system would look for in vain in the middle of a battle.
RecipesAreResolvable == Ready => \A id \in DOMAIN recipes : recipes[id] \subseteq handlers

\* The limit of the run is the last one asked for, if that fits an int, and never a
\* longer one, whatever the conversions cut off.
LimitIsKept ==
  Ready => /\ TickLimit(config) <= asked
           /\ 2 * asked < UintSize => TickLimit(config) = asked

\* What is in the file when the trace of a run is complete.
Trace(n) == [i \in 1 .. n + 2 |-> CASE i = 1 -> "[" [] i = n + 2 -> "]" [] OTHER -> "record"]

\* A process that exits with zero leaves every record and both brackets, each once,
\* unless a write failed.
ExitZeroIsWhole ==
  exit = "zero" /\ opened /\ ~full => written = Trace(published) /\ disk = Len(written)

\* The file as a reader sees it.
FileSeen ==
  CASE ~opened                                  -> "absent"
    [] opened /\ finished /\ disk = Len(written) -> IF Ready THEN "whole" ELSE "cut"
    [] OTHER                                    -> "partial"

Wanted == args.mode = "run" /\ args.trace # "none"

AsChild ==
  INSTANCE ChildProcess WITH child <- [wanted |-> Wanted, file |-> FileSeen, exit |-> exit]

\* BattleProcess implements ChildProcess: nothing else may be assumed of battle_sim by
\* the runner that starts it, a closed trace with records missing included.
IsAChild == AsChild!Spec

\* docs/configuration.md: "rngSeed random | Leaves RNG selection random".  A run whose
\* config fixes no seed could draw different numbers another time.
RandomIsRandom == Ready /\ config.rngSeed = {} => Cardinality(Seeds(config)) > 1

=============================================================================
