-------------------------- MODULE EngineProperties --------------------------
(***************************************************************************)
(* What a run of the engine owes to the systems it drives and to whoever   *)
(* called run(), told with three histories: how often the current run      *)
(* called each system, the result the last one returned, and whether the   *)
(* stop request was cleared since then.                                    *)
(***************************************************************************)
EXTENDS Engine

VARIABLES
  calls,      \* calls[p][i]: how often this run called the i-th system of phase p
  result,     \* what the last run() returned
  cleared     \* whether the owner cleared the stop request since then

watched == << vars, calls, result, cleared >>

NoCalls == [p \in Phases |-> [i \in 1..Systems[p] |-> 0]]
NoResult == [ticksExecuted |-> 0, stopRequested |-> FALSE, reachedMaxTicks |-> FALSE]

WatchedInit == Init /\ calls = NoCalls /\ result = NoResult /\ cleared = FALSE

\* No run calls a system more often than this; counting stops there.
MostCalls == limit + 2
OneMore(n) == IF n < MostCalls THEN n + 1 ELSE n

CountCalls ==
  calls' = CASE phase = "idle" -> NoCalls
             [] phase # "idle" /\ Systems[phase] = 0 -> calls
             [] OTHER -> [calls EXCEPT ![phase][next] = OneMore(@)]

ReportResult ==
  result' = IF phase = "Shutdown" /\ phase' = "idle" THEN Result' ELSE result

NoteClears ==
  cleared' = CASE phase' # "idle" -> cleared
               [] phase' = "idle" /\ phase = "idle" -> cleared \/ ~stop'
               [] OTHER -> FALSE

WatchedNext == Next /\ CountCalls /\ ReportResult /\ NoteClears

WatchedSpec ==
  /\ WatchedInit /\ [][WatchedNext]_watched
  /\ WF_vars(EmptyPhase \/ \E answer \in BOOLEAN : RunSystem(answer))

-----------------------------------------------------------------------------
\* The phases of a tick in the order EngineRunner::run takes them.
Place == [p \in Loop |-> CASE p = "BeforeTick" -> 1 [] p = "Tick" -> 2
                           [] p = "AfterTick" -> 3 [] p = "Cleanup" -> 4]

\* A system that asks to stop never robs the others of their call: once the run is
\* shut down, every system of a phase was called equally often, those of a later
\* phase of the tick as often as those of an earlier one or one time less, and a
\* tick counts exactly when all of its systems were called.
NobodyIsSkipped ==
  phase = "Shutdown" =>
    /\ \A i \in 1..Systems["Startup"] : calls["Startup"][i] = 1
    /\ \A p, q \in Loop : \A i \in 1..Systems[p], j \in 1..Systems[q] :
         Place[p] < Place[q] => calls[p][i] - calls[q][j] \in {0, 1}
    /\ \A p \in Loop : \A i, j \in 1..Systems[p] : calls[p][i] = calls[p][j]
    /\ \A p \in Loop : \A i \in 1..Systems[p] :
         calls[p][i] - ticks \in IF stop THEN {0, 1} ELSE {0}

\* run() returned for exactly one reason and says which: the ticks ran out, and
\* then every one of them was executed, or somebody had asked to stop.
OneEnding ==
  [][phase = "Shutdown" /\ phase' = "idle" =>
       /\ result'.stopRequested # result'.reachedMaxTicks
       /\ result'.reachedMaxTicks => result'.ticksExecuted = limit]_watched

\* A stop request outlives the run it ended: until the owner clears it, the next
\* run() calls its Startup and Shutdown systems but executes no tick, and says
\* that it was asked to stop.
StopOutlivesTheRun ==
  [][phase = "Shutdown" /\ phase' = "idle" /\ result.stopRequested /\ ~cleared =>
       result'.stopRequested /\ result'.ticksExecuted = 0]_watched

\* run() returns, whatever its systems answer.
RunReturns == (phase = "Startup") ~> (phase = "idle")

=============================================================================
