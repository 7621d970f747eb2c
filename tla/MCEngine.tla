------------------------------ MODULE MCEngine ------------------------------
(***************************************************************************)
(* The engine with several systems in a phase.                             *)
(***************************************************************************)
EXTENDS EngineProperties

\* Two systems before the tick and after it, so that one may ask to stop before
\* the other is called; no system at Shutdown, as in a battle.
TwoOrMore ==
  [p \in Phases |-> CASE p \in {"BeforeTick", "AfterTick"} -> 2
                      [] p = "Shutdown" -> 0
                      [] OTHER -> 1]

\* A limit below zero, none at all, and ticks to execute.
NoTicksToTwo == {-1, 0, 2}

=============================================================================
