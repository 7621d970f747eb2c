------------------------------- MODULE MCTrace -------------------------------
(***************************************************************************)
(* The trace and its viewer over the scenarios of MCBattle.                *)
(***************************************************************************)
EXTENDS MCBattle, BattleTrace

=============================================================================
