------------------------------- MODULE Child -------------------------------
(***************************************************************************)
(* What a reader of the trace file may rely on: battle_sim as its parent   *)
(* sees it.                                                                *)
(*                                                                         *)
(* The file grows from absent over partial (empty, or no JSON yet) to      *)
(* whole, or to cut: closed by an exception although records are missing,  *)
(* which is JSON all the same.  A process that closed its trace early does *)
(* not exit with zero; one whose writes were lost may.                     *)
(***************************************************************************)
Files == {"absent", "partial", "cut", "whole"}
Exits == {"running", "zero", "crashed", "killed"}
Children == [wanted : BOOLEAN, file : Files, exit : Exits]

Born(wanted) == [wanted |-> wanted, file |-> "absent", exit |-> "running"]

Grows(c) ==
  CASE c.file = "absent"  -> IF c.wanted THEN {"partial"} ELSE {}
    [] c.file = "partial" -> {"cut", "whole"}
    [] OTHER              -> {}

Ends(c) ==
  IF c.file = "cut" \/ (c.wanted /\ c.file = "absent") THEN {"crashed"} ELSE {"zero", "crashed"}

\* The next states of a child that runs.
Moves(c) ==
  IF c.exit = "running"
    THEN {[c EXCEPT !.file = f] : f \in Grows(c)} \cup {[c EXCEPT !.exit = e] : e \in Ends(c)}
    ELSE {}

Killed(c) == [c EXCEPT !.exit = "killed"]

\* json.loads accepts the file.
IsJson(c) == c.file \in {"cut", "whole"}

=============================================================================
