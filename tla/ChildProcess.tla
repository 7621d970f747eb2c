---------------------------- MODULE ChildProcess ----------------------------
(* One child: what BattleProcess is to whoever started it. *)
EXTENDS Child

VARIABLE child

Init == \E wanted \in BOOLEAN : child = Born(wanted)
Next == child' \in Moves(child) \/ (child.exit = "running" /\ child' = Killed(child))
Spec == Init /\ [][Next]_child

=============================================================================
