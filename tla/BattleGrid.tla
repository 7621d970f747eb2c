----------------------------- MODULE BattleGrid -----------------------------
(***************************************************************************)
(* The rectangular battle map: the constant-level half of                  *)
(* BattleMapResource.  Positions are records {x, y}, as core::Position.    *)
(* The occupancy table, which changes, is a variable of Battle; here is    *)
(* the geometry every query on it uses, and the packing of a position      *)
(* into the 64-bit key the table is indexed by.                            *)
(***************************************************************************)
EXTENDS Integers

CONSTANTS
  Width,     \* columns of the map
  Height     \* rows of the map

\* The constructor throws on any other size.
ASSUME SizeAssumption == Width \in Nat \ {0} /\ Height \in Nat \ {0}

Point == [x : Int, y : Int]
Cells == [x : 0..(Width - 1), y : 0..(Height - 1)]

Inside(p) == p.x >= 0 /\ p.y >= 0 /\ p.x < Width /\ p.y < Height

Gap(a, b) == IF a <= b THEN b - a ELSE a - b

\* Chebyshev distance: a diagonal step counts one.
Distance(p, q) ==
  IF Gap(p.x, q.x) >= Gap(p.y, q.y) THEN Gap(p.x, q.x) ELSE Gap(p.y, q.y)

Neighbors8(p) ==
  {n \in [x : (p.x - 1)..(p.x + 1), y : (p.y - 1)..(p.y + 1)] : n # p /\ Inside(n)}

\* The key of the occupancy table.  It is only ever taken of positions inside
\* the map, where neither cast of key() can wrap.
Key(p) == p.y * Width + p.x
PositionFromKey(k) == [x |-> k % Width, y |-> k \div Width]

\* std::erase_if over the neighbours keeps the cells closer to the target.
Closer(cells, p, target) ==
  {c \in cells : Distance(c, target) < Distance(p, target)}

=============================================================================
