---------------------------- MODULE Battle_proofs ----------------------------
(***************************************************************************)
(* The battle for every map, every set of recipes and every scenario.      *)
(*                                                                         *)
(* Each invariant is proved from the ones before it: TypeOK is inductive   *)
(* by itself, the others are inductive given TypeOK.                       *)
(***************************************************************************)
EXTENDS BattleProperties, FiniteSetTheorems, TLAPS

-----------------------------------------------------------------------------
(* Geometry of the map, for every size of it.                              *)

\* inside() accepts exactly the cells of the map.
LEMMA InsideIsACell ==
  ASSUME NEW p \in Point
  PROVE  Inside(p) <=> p \in Cells
<1>1. p = [x |-> p.x, y |-> p.y] /\ p.x \in Int /\ p.y \in Int
  BY DEF Point
<1>2. Inside(p) <=> p.x \in 0..(Width - 1) /\ p.y \in 0..(Height - 1)
  BY <1>1, SizeAssumption DEF Inside
<1>3. p \in Cells <=> p.x \in 0..(Width - 1) /\ p.y \in 0..(Height - 1)
  BY <1>1 DEF Cells
<1> QED
  BY <1>2, <1>3

LEMMA CellsArePoints == Cells \subseteq Point
BY SizeAssumption DEF Cells, Point

\* The gap between two coordinates, and so the distance, is a natural number.
LEMMA DistanceIsANumber ==
  ASSUME NEW p \in Point, NEW q \in Point
  PROVE  /\ Distance(p, q) \in Nat
         /\ Distance(p, q) = Distance(q, p)
         /\ Distance(p, q) = 0 <=> p = q
<1>1. /\ p = [x |-> p.x, y |-> p.y] /\ p.x \in Int /\ p.y \in Int
      /\ q = [x |-> q.x, y |-> q.y] /\ q.x \in Int /\ q.y \in Int
  BY DEF Point
<1>2. /\ Distance(p, q) \in Nat
      /\ Distance(p, q) = Distance(q, p)
      /\ Distance(p, q) = 0 <=> p.x = q.x /\ p.y = q.y
  BY <1>1 DEF Distance, Gap
<1> QED
  BY <1>1, <1>2

\* Division with remainder has one answer.
LEMMA DivisionIsUnique ==
  ASSUME NEW n \in Nat \ {0}, NEW a \in Nat, NEW b \in 0..(n - 1)
  PROVE  (a * n + b) \div n = a /\ (a * n + b) % n = b
<1> DEFINE k == a * n + b
<1>1. k \in Nat
  OBVIOUS
<1> HIDE DEF k
<1>2. PICK q \in Int, r \in 0..(n - 1) : k = q * n + r /\ q = k \div n /\ r = k % n
  BY <1>1
<1>3. q * n + r = a * n + b
  BY <1>2 DEF k
<1>4. ~(q < a)
  <2> SUFFICES ASSUME q + 1 <= a PROVE FALSE
    OBVIOUS
  <2>1. (q + 1) * n <= a * n
    BY SMTT(30)
  <2>2. (q + 1) * n = q * n + n
    BY SMTT(30)
  <2> QED BY <1>3, <2>1, <2>2
<1>5. ~(a < q)
  <2> SUFFICES ASSUME a + 1 <= q PROVE FALSE
    OBVIOUS
  <2>1. (a + 1) * n <= q * n
    BY SMTT(30)
  <2>2. (a + 1) * n = a * n + n
    BY SMTT(30)
  <2> QED BY <1>3, <2>1, <2>2
<1>6. q = a
  BY <1>4, <1>5
<1> QED
  BY <1>2, <1>3, <1>6 DEF k

\* The occupancy table never confuses two cells: a key is the key of one cell of
\* the map, and positionFromKey finds it again.
THEOREM KeyIsUnique ==
  ASSUME NEW p \in Cells
  PROVE  /\ Key(p) \in 0..(Width * Height - 1)
         /\ PositionFromKey(Key(p)) = p
         /\ \A q \in Cells : Key(q) = Key(p) => q = p
<1>1. \A c \in Cells : c = [x |-> c.x, y |-> c.y] /\ c.x \in 0..(Width - 1) /\ c.y \in 0..(Height - 1)
  BY DEF Cells
<1>2. \A c \in Cells : Key(c) % Width = c.x /\ Key(c) \div Width = c.y
  <2> SUFFICES ASSUME NEW c \in Cells
               PROVE  Key(c) % Width = c.x /\ Key(c) \div Width = c.y
    OBVIOUS
  <2>1. Width \in Nat \ {0} /\ c.x \in 0..(Width - 1) /\ c.y \in Nat
    BY <1>1, SizeAssumption
  <2> QED
    BY <2>1, DivisionIsUnique DEF Key
<1>3. \A c \in Cells : PositionFromKey(Key(c)) = c
  BY <1>1, <1>2 DEF PositionFromKey
<1>4. Key(p) \in 0..(Width * Height - 1)
  <2>1. /\ Width \in Nat /\ Height \in Nat /\ p.x \in Nat /\ p.x <= Width - 1
        /\ p.y \in Nat /\ p.y <= Height - 1
    BY <1>1, SizeAssumption
  <2>2. p.y * Width <= (Height - 1) * Width
    BY <2>1, SMTT(30)
  <2>3. (Height - 1) * Width = Width * Height - Width
    BY <2>1, SMTT(30)
  <2> QED
    BY <2>1, <2>2, <2>3, SMTT(30) DEF Key
<1> QED
  BY <1>3, <1>4

\* A unit that is not at its target always has a neighbouring cell of the map
\* that is strictly closer: on an empty map a march never stalls.
THEOREM ACloserNeighbourExists ==
  ASSUME NEW p \in Cells, NEW target \in Cells, p # target
  PROVE  Closer(Neighbors8(p), p, target) # {}
<1> DEFINE toward(a, b) == IF a < b THEN a + 1 ELSE IF a > b THEN a - 1 ELSE a
           n == [x |-> toward(p.x, target.x), y |-> toward(p.y, target.y)]
<1>1. /\ p = [x |-> p.x, y |-> p.y] /\ p.x \in 0..(Width - 1) /\ p.y \in 0..(Height - 1)
      /\ target = [x |-> target.x, y |-> target.y]
      /\ target.x \in 0..(Width - 1) /\ target.y \in 0..(Height - 1)
      /\ Width \in Nat /\ Height \in Nat
  BY SizeAssumption DEF Cells
<1>2. n.x = toward(p.x, target.x) /\ n.y = toward(p.y, target.y)
  OBVIOUS
<1>3. /\ n.x \in (p.x - 1)..(p.x + 1) /\ n.y \in (p.y - 1)..(p.y + 1)
      /\ n.x \in 0..(Width - 1) /\ n.y \in 0..(Height - 1)
  BY <1>1, <1>2
<1>4. n # p
  BY <1>1, <1>2
<1>5. n \in Neighbors8(p)
  BY <1>1, <1>3, <1>4 DEF Neighbors8, Inside
<1>6. Distance(n, target) < Distance(p, target)
  BY <1>1, <1>2 DEF Distance, Gap
<1> QED
  BY <1>5, <1>6 DEF Closer

-----------------------------------------------------------------------------
(* The order executeEntity tries the rules in: Precedes is a strict total  *)
(* order, ranks count from 1 without gaps, and Ordered is therefore the    *)
(* recipe's rules, each exactly once, by descending priority and stably.   *)

\* Rules are compared by integers.
LEMMA PriorityIsANumber ==
  ASSUME NEW rules \in Seq(RuleType), NEW i \in DOMAIN rules
  PROVE  rules[i].priority \in Int
<1>1. rules[i] \in RuleType
  OBVIOUS
<1>2. \A r \in RuleType : r.priority \in Int
  BY DEF RuleType
<1> QED
  BY <1>1, <1>2

\* Of two rules of a recipe exactly one is tried first, and the order is
\* transitive: the comparator of the stable sort is a strict weak ordering and
\* the position in the recipe breaks its ties.
LEMMA PrecedesIsAStrictOrder ==
  ASSUME NEW rules \in Seq(RuleType)
  PROVE  /\ \A i \in DOMAIN rules : ~Precedes(rules, i, i)
         /\ \A i, j \in DOMAIN rules : i # j => Precedes(rules, i, j) \/ Precedes(rules, j, i)
         /\ \A i, j, k \in DOMAIN rules :
              Precedes(rules, i, j) /\ Precedes(rules, j, k) => Precedes(rules, i, k)
<1>1. DOMAIN rules \subseteq Int
  OBVIOUS
<1>2. \A i \in DOMAIN rules : rules[i].priority \in Int
  BY PriorityIsANumber
<1> QED
  BY <1>1, <1>2 DEF Precedes

\* The rank of a rule is a place in the recipe, and an earlier rule has a lower
\* rank: it has strictly fewer predecessors.
LEMMA RankIsMonotone ==
  ASSUME NEW rules \in Seq(RuleType)
  PROVE  /\ \A j \in DOMAIN rules : Rank(rules, j) \in 1..Len(rules)
         /\ \A i, j \in DOMAIN rules :
              Precedes(rules, i, j) => Rank(rules, i) < Rank(rules, j)
<1> DEFINE Before(j) == {i \in DOMAIN rules : Precedes(rules, i, j)}
<1>1. /\ DOMAIN rules = 1..Len(rules) /\ Len(rules) \in Nat
      /\ IsFiniteSet(DOMAIN rules) /\ Cardinality(DOMAIN rules) = Len(rules)
  <2>1. DOMAIN rules = 1..Len(rules) /\ Len(rules) \in Nat
    OBVIOUS
  <2> QED BY <2>1, FS_Interval
<1>2. \A j \in DOMAIN rules : IsFiniteSet(Before(j)) /\ Cardinality(Before(j)) \in Nat
  BY <1>1, FS_Subset, FS_CardinalityType
<1>3. ASSUME NEW j \in DOMAIN rules
      PROVE  Cardinality(Before(j)) < Len(rules)
  <2>1. j \notin Before(j)
    BY PrecedesIsAStrictOrder
  <2>2. Before(j) \in SUBSET DOMAIN rules /\ Before(j) # DOMAIN rules
    BY <2>1
  <2>3. Cardinality(Before(j)) <= Cardinality(DOMAIN rules)
    BY <1>1, <2>2, FS_Subset
  <2>4. Cardinality(Before(j)) # Cardinality(DOMAIN rules)
    BY <1>1, <2>2, FS_Subset
  <2> HIDE DEF Before
  <2> QED BY <1>1, <1>2, <2>3, <2>4
<1>4. ASSUME NEW i \in DOMAIN rules, NEW j \in DOMAIN rules, Precedes(rules, i, j)
      PROVE  Cardinality(Before(i)) < Cardinality(Before(j))
  <2>1. Before(i) \in SUBSET Before(j)
    BY <1>4, PrecedesIsAStrictOrder
  <2>2. i \in Before(j) /\ i \notin Before(i)
    BY <1>4, PrecedesIsAStrictOrder
  <2> QED BY <1>2, <2>1, <2>2, FS_Subset
<1>5. \A j \in DOMAIN rules : Rank(rules, j) = Cardinality(Before(j)) + 1
  BY DEF Rank
<1> HIDE DEF Before
<1> QED
  BY <1>1, <1>2, <1>3, <1>4, <1>5

\* Every place is the rank of exactly one rule.
LEMMA RankIsABijection ==
  ASSUME NEW rules \in Seq(RuleType)
  PROVE  \A n \in DOMAIN rules :
           \E j \in DOMAIN rules :
             Rank(rules, j) = n /\ \A k \in DOMAIN rules : Rank(rules, k) = n => k = j
<1> DEFINE D == DOMAIN rules
           f == [j \in D |-> Rank(rules, j)]
<1>1. D = 1..Len(rules) /\ IsFiniteSet(D)
  BY FS_Interval
<1>2. f \in [D -> D]
  BY <1>1, RankIsMonotone
<1>3. \A i, j \in D : f[i] = f[j] => i = j
  <2> SUFFICES ASSUME NEW i \in D, NEW j \in D, i # j
               PROVE  Rank(rules, i) # Rank(rules, j)
    OBVIOUS
  <2>1. Precedes(rules, i, j) \/ Precedes(rules, j, i)
    BY PrecedesIsAStrictOrder
  <2> QED BY <1>1, <2>1, RankIsMonotone
<1>4. f \in Injection(D, D)
  BY <1>2, <1>3 DEF Injection, IsInjective
<1>5. f \in Surjection(D, D)
  BY <1>1, <1>4, FS_Injection
<1> QED
  BY <1>3, <1>5 DEF Surjection

\* The order a unit's turn tries its rules in: the recipe's rules, all of them
\* and no other, descending by priority.
THEOREM OrderedIsSorted ==
  ASSUME NEW rules \in Seq(RuleType)
  PROVE  /\ Ordered(rules) \in Seq(RuleType)
         /\ Len(Ordered(rules)) = Len(rules)
         /\ \A n \in 1..Len(rules) : \E j \in 1..Len(rules) : Ordered(rules)[n] = rules[j]
         /\ \A j \in 1..Len(rules) : \E n \in 1..Len(rules) : Ordered(rules)[n] = rules[j]
         /\ \A m, n \in 1..Len(rules) :
              m < n => Ordered(rules)[m].priority >= Ordered(rules)[n].priority
<1> DEFINE Place(n) == CHOOSE j \in DOMAIN rules : Rank(rules, j) = n
<1>1. DOMAIN rules = 1..Len(rules) /\ Len(rules) \in Nat
  OBVIOUS
<1>2. \A n \in DOMAIN rules : Place(n) \in DOMAIN rules /\ Rank(rules, Place(n)) = n
  BY RankIsABijection
<1>3. \A j \in DOMAIN rules : Place(Rank(rules, j)) = j
  BY <1>1, <1>2, RankIsABijection, RankIsMonotone
<1>4. Ordered(rules) = [n \in DOMAIN rules |-> rules[Place(n)]]
  BY DEF Ordered
<1> HIDE DEF Place
<1>5. Ordered(rules) \in [1..Len(rules) -> RuleType]
  BY <1>1, <1>2, <1>4
<1>6. Ordered(rules) \in Seq(RuleType) /\ Len(Ordered(rules)) = Len(rules)
  BY <1>1, <1>5
<1>7. ASSUME NEW m \in 1..Len(rules), NEW n \in 1..Len(rules), m < n
      PROVE  Ordered(rules)[m].priority >= Ordered(rules)[n].priority
  <2> DEFINE i == Place(m)  j == Place(n)
  <2>1. i \in DOMAIN rules /\ j \in DOMAIN rules /\ Rank(rules, i) = m /\ Rank(rules, j) = n
    BY <1>1, <1>2
  <2>2. ~Precedes(rules, j, i)
    BY <1>7, <2>1, RankIsMonotone
  <2>3. i # j
    BY <1>7, <2>1
  <2>4. Precedes(rules, i, j)
    BY <2>1, <2>2, <2>3, PrecedesIsAStrictOrder
  <2>5. rules[i].priority \in Int /\ rules[j].priority \in Int
    BY <2>1, PriorityIsANumber
  <2> QED BY <1>1, <1>4, <2>4, <2>5 DEF Precedes
<1>8. \A n \in 1..Len(rules) : \E j \in 1..Len(rules) : Ordered(rules)[n] = rules[j]
  BY <1>1, <1>2, <1>4
<1>9. \A j \in 1..Len(rules) : \E n \in 1..Len(rules) : Ordered(rules)[n] = rules[j]
  <2> TAKE j \in 1..Len(rules)
  <2>1. Rank(rules, j) \in 1..Len(rules)
    BY <1>1, RankIsMonotone
  <2>2. Ordered(rules)[Rank(rules, j)] = rules[j]
    BY <1>1, <1>3, <1>4, <2>1
  <2> QED BY <2>1, <2>2
<1> QED
  BY <1>6, <1>7, <1>8, <1>9

-----------------------------------------------------------------------------
(* What a recipe and its rules are made of.                                *)

LEMMA RecipeFields ==
  ASSUME NEW k \in Kinds
  PROVE  /\ Recipes[k].mobile \in BOOLEAN /\ Recipes[k].blocks \in BOOLEAN
         /\ Recipes[k].hp \in Int /\ Recipes[k].points \in Int
         /\ \A s \in StatNames : Recipes[k].stats[s] \in Int
         /\ Recipes[k].rules \in Seq(RuleType)
<1>1. Recipes[k] \in RecipeType
  BY RecipeAssumption
<1>2. \A r \in RecipeType :
        /\ r.mobile \in BOOLEAN /\ r.blocks \in BOOLEAN
        /\ r.hp \in Int /\ r.points \in Int
        /\ \A s \in StatNames : r.stats[s] \in Int
        /\ r.rules \in Seq(RuleType)
  BY DEF RecipeType
<1> QED
  BY <1>1, <1>2

LEMMA RuleFields ==
  ASSUME NEW r \in RuleType
  PROVE  /\ r.cost \in Int /\ r.amount \in Int /\ r.amountBy \in Resolvers
         /\ r.effect \in Effects /\ r.step \in Int
BY DEF RuleType

\* A march counts its steps, whatever distance the rule names.
LEMMA StridesAreCounted ==
  \A r \in RuleType : Strides(r) \in Nat /\ (Strides(r) # 0 => Strides(r) = r.step)
BY RuleFields DEF Strides

\* The rules of a turn are the rules of the recipe: what holds of a recipe's
\* rules holds of each one tried.
LEMMA RulesTried ==
  ASSUME NEW k \in Kinds
  PROVE  /\ Len(OrderedRules[k]) = Len(Recipes[k].rules)
         /\ Len(OrderedRules[k]) \in Nat
         /\ \A n \in 1..Len(OrderedRules[k]) :
              /\ OrderedRules[k][n] \in RuleType
              /\ \E i \in 1..Len(Recipes[k].rules) : OrderedRules[k][n] = Recipes[k].rules[i]
<1> DEFINE rules == Recipes[k].rules
<1>1. rules \in Seq(RuleType)
  BY RecipeFields
<1>2. OrderedRules[k] = Ordered(rules)
  BY DEF OrderedRules
<1> HIDE DEF rules
<1>4. /\ Ordered(rules) \in Seq(RuleType) /\ Len(Ordered(rules)) = Len(rules)
      /\ \A n \in 1..Len(rules) : \E j \in 1..Len(rules) : Ordered(rules)[n] = rules[j]
  BY <1>1, OrderedIsSorted
<1>5. Len(rules) \in Nat
  BY <1>1
<1>6. \A n \in 1..Len(rules) : Ordered(rules)[n] \in RuleType
  BY <1>4, <1>5
<1>8. /\ Len(OrderedRules[k]) = Len(Recipes[k].rules)
      /\ \A n \in 1..Len(rules) : \E i \in 1..Len(Recipes[k].rules) :
           OrderedRules[k][n] = Recipes[k].rules[i]
  BY <1>2, <1>4 DEF rules
<1> QED
  BY <1>2, <1>4, <1>5, <1>6, <1>8

\* An existing entity has a recipe and stands on the map.
LEMMA ExistingEntity ==
  ASSUME TypeOK, NEW e \in active
  PROVE  e \in Id /\ unit[e] \in Kinds /\ pos[e] \in Cells
<1>1. e \in Id
  BY DEF TypeOK, Created
<1> QED
  BY <1>1 DEF TypeOK

\* An amount is a stat of the recipe or a literal of the rule: an integer.
LEMMA AmountIsANumber ==
  ASSUME TypeOK, NEW e \in active, NEW r \in RuleType
  PROVE  Amount(e, r) \in Int
<1>1. unit[e] \in Kinds
  BY ExistingEntity
<1>2. r.amount \in Int /\ r.amountBy \in StatNames \cup {"core.literal"}
  BY RuleFields DEF Resolvers
<1>3. \A s \in StatNames : Recipes[unit[e]].stats[s] \in Int
  BY <1>1, RecipeFields
<1> QED
  BY <1>2, <1>3 DEF Amount, RuleAmount, Resolve, Recipe

\* In a turn the actor exists and the rule it tries is one of its recipe's.
LEMMA InItsTurn ==
  ASSUME TypeOK, InTurn
  PROVE  /\ Actor \in active /\ Actor \in Id /\ unit[Actor] \in Kinds
         /\ turn \in 1..Len(order)
         /\ rule \in 1..Len(RulesOf(Actor))
         /\ Rule \in RuleType /\ Rule.cost \in Int
<1>1. Actor \in active /\ rule \in Nat /\ rule # 0 /\ rule <= Len(RulesOf(Actor))
      /\ turn <= Len(order) /\ turn \in Nat /\ turn # 0
  BY DEF TypeOK, InTurn
<1>2. Actor \in Id /\ unit[Actor] \in Kinds
  BY <1>1, ExistingEntity
<1>3. Len(RulesOf(Actor)) \in Nat
  BY <1>2, RulesTried DEF RulesOf
<1>4. rule \in 1..Len(RulesOf(Actor))
  BY <1>1, <1>3
<1>5. Rule \in RuleType
  BY <1>2, <1>4, RulesTried DEF Rule, RulesOf
<1>6. turn \in 1..Len(order)
  BY <1>1 DEF TypeOK
<1> QED
  BY <1>1, <1>2, <1>4, <1>5, <1>6, RuleFields

\* A command that names an entity names one of Id, and a position inside the map
\* is a cell of it.
LEMMA CommandFields ==
  /\ \A c \in SpawnCommands :
       c.id # 0 /\ Inside(c.at) => c.id \in Id /\ c.kind \in Kinds /\ c.at \in Cells
  /\ \A c \in MarchCommands :
       c.id # 0 /\ Inside(c.to) => c.id \in Id /\ c.to \in Cells
<1>1. \A c \in SpawnCommands : c.id \in Id \cup {0} /\ c.kind \in Kinds /\ c.at \in Point
  BY CommandAssumption
<1>2. \A c \in MarchCommands : c.id \in Id \cup {0} /\ c.to \in Point
  BY CommandAssumption
<1> QED
  BY <1>1, <1>2, InsideIsACell

-----------------------------------------------------------------------------
(* Which steps touch the world at all.                                     *)

LEMMA StepsOfTheWorld ==
  ASSUME [Next]_vars
  PROVE  \/ UNCHANGED world
         \/ CreateMap
         \/ \E c \in SpawnCommands : Spawn(c)
         \/ \E c \in MarchCommands : March(c)
         \/ Strike \/ Heal \/ Move \/ SetActionState
         \/ AfterTick \/ Explode \/ DestroySelf
BY DEF Next, Commands, EngineStep, Turns, Exited, vars, ParserThrows, Run, Startup,
       BeforeTick, EndTick, Cleanup, Shutdown, BeginTurn, SkipTurn, RuleFails

\* The part of TypeOK that is about the world.
WorldOK ==
  /\ mapReady \in BOOLEAN
  /\ order \in Seq(Id)
  /\ active \subseteq Created
  /\ unit \in [Id -> Kinds \cup {None}]
  /\ pos \in [Id -> Cells \cup {None}]
  /\ \A e \in Id : (e \in active <=> unit[e] # None) /\ (e \in active <=> pos[e] # None)
  /\ hp \in [Id -> Int]
  /\ alive \subseteq active
  /\ march \in [Id -> Cells \cup {None}]
  /\ armed \subseteq active
  /\ occ \in [Cells -> Id \cup {0}]

LEMMA TypeOKWorld == TypeOK => WorldOK
BY DEF TypeOK, WorldOK

\* Removing entities erases their components and nothing else.
LEMMA RemoveKeepsTypes ==
  ASSUME TypeOK, NEW S \in SUBSET active, NEW h \in [Id -> Int], Remove(S, h),
         UNCHANGED << mapReady, order >>, alive' \subseteq alive \ S
  PROVE  WorldOK'
<1>1. WorldOK
  BY TypeOKWorld
<1>2. /\ active' = active \ S /\ unit' = [e \in Id |-> IF e \in S THEN None ELSE unit[e]]
      /\ pos' = [e \in Id |-> IF e \in S THEN None ELSE pos[e]]
      /\ march' = [e \in Id |-> IF e \in S THEN None ELSE march[e]]
      /\ hp' = [e \in Id |-> IF e \in S THEN 0 ELSE h[e]]
      /\ armed' = armed \ S
      /\ occ' = [c \in Cells |-> IF c \in Vacated(S) THEN 0 ELSE occ[c]]
  BY DEF Remove, Erased
<1>3. active' \subseteq Created'
  BY <1>1, <1>2 DEF WorldOK, Created
<1>4. /\ unit' \in [Id -> Kinds \cup {None}]
      /\ pos' \in [Id -> Cells \cup {None}]
      /\ march' \in [Id -> Cells \cup {None}]
      /\ hp' \in [Id -> Int]
      /\ occ' \in [Cells -> Id \cup {0}]
  BY <1>1, <1>2 DEF WorldOK
<1>5. \A e \in Id :
        (e \in active' <=> unit'[e] # None) /\ (e \in active' <=> pos'[e] # None)
  BY <1>1, <1>2 DEF WorldOK
<1>6. alive' \subseteq active' /\ armed' \subseteq active'
  BY <1>1, <1>2 DEF WorldOK
<1> QED
  BY <1>1, <1>3, <1>4, <1>5, <1>6 DEF WorldOK

\* Where a march may end: a cell of the map, not the unit's own, and free if the
\* unit blocks.
LEMMA MoveEndsOnAFreeCell ==
  ASSUME TypeOK, NEW e \in active, NEW r \in RuleType, NEW to \in Moves(e, r)
  PROVE  /\ CanMarch(e)
         /\ to \in Cells /\ to # pos[e]
         /\ IsBlocking(e) => occ[pos[e]] = e /\ occ[to] = 0
<1>1. CanMarch(e) /\ to \in WalkEnds(e, Strides(r)) /\ to # pos[e]
  BY DEF Moves
<1>2. to \in Standable(e)
  BY <1>1, StridesAreCounted DEF WalkEnds
<1> QED
  BY <1>1, <1>2 DEF Standable, CanEnterCell, CanMarch

LEMMA WorldTypes ==
  ASSUME TypeOK, [Next]_vars
  PROVE  WorldOK'
<1>0. WorldOK
  BY TypeOKWorld
<1>1. CASE UNCHANGED world
  BY <1>0, <1>1 DEF WorldOK, world, Created
<1>2. CASE CreateMap
  BY <1>0, <1>2 DEF WorldOK, CreateMap, Created
<1>3. ASSUME NEW c \in SpawnCommands, Spawn(c)
      PROVE  WorldOK'
  <2>1. c.id \in Id /\ c.kind \in Kinds /\ c.at \in Cells
    BY <1>3, CommandFields DEF Spawn
  <2>2. order' \in Seq(Id) /\ Created' = Created \cup {c.id}
    BY <1>0, <1>3, <2>1 DEF WorldOK, Spawn, Created
  <2>3. Recipes[c.kind].hp \in Int
    BY <2>1, RecipeFields
  <2>4. /\ unit' \in [Id -> Kinds \cup {None}]
        /\ pos' \in [Id -> Cells \cup {None}]
        /\ hp' \in [Id -> Int]
        /\ occ' \in [Cells -> Id \cup {0}]
    BY <1>0, <1>3, <2>1, <2>3 DEF WorldOK, Spawn
  <2>5. \A e \in Id :
          (e \in active' <=> unit'[e] # None) /\ (e \in active' <=> pos'[e] # None)
    BY <1>0, <1>3, <2>1, NoneAssumption DEF WorldOK, Spawn
  <2> QED
    BY <1>0, <1>3, <2>1, <2>2, <2>4, <2>5 DEF WorldOK, Spawn
<1>4. ASSUME NEW c \in MarchCommands, March(c)
      PROVE  WorldOK'
  <2>1. c.id \in Id /\ c.to \in Cells
    BY <1>4, CommandFields DEF March, MarchAccepted
  <2>2. march' \in {[march EXCEPT ![c.id] = None], [march EXCEPT ![c.id] = c.to]}
    BY <1>4 DEF March
  <2>3. march' \in [Id -> Cells \cup {None}]
    BY <1>0, <2>1, <2>2 DEF WorldOK
  <2>4. UNCHANGED << mapReady, order, active, unit, pos, hp, alive, armed, occ >>
    BY <1>4 DEF March
  <2> QED
    BY <1>0, <2>3, <2>4 DEF WorldOK, Created
<1>5. CASE Strike
  <2>1. Amount(Actor, Rule) \in Int
    BY <1>5, InItsTurn, AmountIsANumber DEF Strike, Fires
  <2>2. hp' \in [Id -> Int]
    BY <1>0, <1>5, <2>1 DEF WorldOK, Strike, Wounded
  <2> QED
    BY <1>0, <1>5, <2>2 DEF WorldOK, Strike, Created
<1>6. CASE Heal
  <2>1. Amount(Actor, Rule) \in Int
    BY <1>6, InItsTurn, AmountIsANumber DEF Heal, Fires
  <2>2. \A e \in Id : IntAdd(hp[e], Amount(Actor, Rule)) \in Int
    BY <1>0, <2>1, NumberAssumption DEF WorldOK, IntAdd
  <2>3. hp' \in [Id -> Int]
    BY <1>0, <1>6, <2>2 DEF WorldOK, Heal
  <2> QED
    BY <1>0, <1>6, <2>3 DEF WorldOK, Heal, Created
<1>7. CASE Move
  <2>1. PICK to \in Moves(Actor, Rule) :
          /\ pos' = [pos EXCEPT ![Actor] = to]
          /\ occ' = IF IsBlocking(Actor) THEN Relocated(Actor, pos[Actor], to) ELSE occ
          /\ march' \in {march, [march EXCEPT ![Actor] = None]}
    BY <1>7 DEF Move
  <2>2. Actor \in active /\ Actor \in Id /\ to \in Cells
    BY <1>7, <2>1, InItsTurn, MoveEndsOnAFreeCell DEF Move, Fires
  <2>3. /\ pos' \in [Id -> Cells \cup {None}]
        /\ march' \in [Id -> Cells \cup {None}]
    BY <1>0, <2>1, <2>2 DEF WorldOK
  <2>4. occ' \in [Cells -> Id \cup {0}]
    BY <1>0, <2>1, <2>2 DEF WorldOK, Relocated
  <2>5. \A e \in Id : pos'[e] # None <=> pos[e] # None
    BY <1>0, <2>1, <2>2, NoneAssumption DEF WorldOK
  <2> QED
    BY <1>0, <1>7, <2>3, <2>4, <2>5 DEF WorldOK, Move, Created
<1>8. CASE SetActionState
  <2>1. Actor \in active
    BY <1>8, InItsTurn DEF SetActionState, Fires
  <2>2. /\ armed' = armed \cup {Actor}
        /\ UNCHANGED << mapReady, order, active, unit, pos, hp, alive, march, occ >>
    BY <1>8 DEF SetActionState
  <2> QED
    BY <1>0, <2>1, <2>2 DEF WorldOK, Created
<1>9. CASE AfterTick
  <2>1. Dead \in SUBSET active /\ hp \in [Id -> Int]
    BY <1>0 DEF Dead, WorldOK
  <2>2. alive' \subseteq alive \ Dead /\ UNCHANGED << mapReady, order >> /\ Remove(Dead, hp)
    BY <1>9 DEF AfterTick
  <2> QED
    BY <2>1, <2>2, RemoveKeepsTypes
<1>10. CASE Explode
  <2>1. PICK hurt :
          /\ Remove({Actor}, Wounded(hurt, Amount(Actor, Rule)))
          /\ alive' = (alive \ Killed(hurt, Amount(Actor, Rule))) \ {Actor}
    BY <1>10 DEF Explode
  <2>2. Actor \in active /\ Amount(Actor, Rule) \in Int
    BY <1>10, InItsTurn, AmountIsANumber DEF Explode, Fires
  <2>3. Wounded(hurt, Amount(Actor, Rule)) \in [Id -> Int]
    BY <1>0, <2>2 DEF WorldOK, Wounded
  <2>4. UNCHANGED << mapReady, order >>
    BY <1>10 DEF Explode
  <2>5. alive' \subseteq alive \ {Actor} /\ {Actor} \in SUBSET active
    BY <2>1, <2>2
  <2> QED
    BY <2>1, <2>3, <2>4, <2>5, RemoveKeepsTypes
<1>11. CASE DestroySelf
  <2>1. {Actor} \in SUBSET active /\ hp \in [Id -> Int]
    BY <1>0, <1>11, InItsTurn DEF DestroySelf, Fires, WorldOK
  <2>2. /\ alive' \subseteq alive \ {Actor} /\ UNCHANGED << mapReady, order >>
        /\ Remove({Actor}, hp)
    BY <1>11 DEF DestroySelf
  <2> QED
    BY <2>1, <2>2, RemoveKeepsTypes
<1> QED
  BY <1>1, <1>2, <1>3, <1>4, <1>5, <1>6, <1>7, <1>8, <1>9, <1>10, <1>11, StepsOfTheWorld

-----------------------------------------------------------------------------
(* The engine and the turn in progress.                                    *)

\* The part of TypeOK that is about the loop and the turn.
LoopOK ==
  /\ phase \in Phases
  /\ stop \in BOOLEAN
  /\ ticks \in Nat /\ tick \in Nat
  /\ turn \in 0..(Len(order) + 1) /\ (phase = "Tick" => turn # 0)
  /\ rule \in Nat /\ budget \in Int
  /\ rule # 0 => InTurn /\ turn <= Len(order) /\ Actor \in active
                        /\ rule <= Len(RulesOf(Actor))
  /\ acted \in BOOLEAN

LEMMA TypeOKLoop == TypeOK => LoopOK
BY DEF TypeOK, LoopOK

\* After a rule applied, the turn starts over with the first rule or is left.
LEMMA PayKeepsTypes ==
  ASSUME TypeOK, InTurn, Pay, UNCHANGED << engine, order, active, unit >>
  PROVE  LoopOK'
<1>1. LoopOK /\ Rule.cost \in Int /\ turn \in 1..Len(order) /\ rule \in 1..Len(RulesOf(Actor))
  BY TypeOKLoop, InItsTurn
<1>2. CASE rule' = 1 /\ UNCHANGED turn /\ budget' = budget - Rule.cost /\ acted' = TRUE
  <2>1. Actor' = Actor /\ RulesOf(Actor)' = RulesOf(Actor)
    BY <1>2 DEF Actor, RulesOf
  <2> QED
    BY <1>1, <1>2, <2>1 DEF LoopOK, InTurn, engine
<1>3. CASE turn' = turn + 1 /\ rule' = 0 /\ budget' = 0 /\ acted' = TRUE
  <2>1. Len(order) \in Nat
    BY <1>1
  <2> QED
    BY <1>1, <1>3, <2>1 DEF LoopOK, InTurn, engine
<1> QED
  BY <1>2, <1>3 DEF Pay, LeaveTurn

\* An entity that removed itself has no turn left.
LEMMA VanishKeepsTypes ==
  ASSUME TypeOK, InTurn, PayAndVanish, UNCHANGED << engine, order >>
  PROVE  LoopOK'
<1>1. LoopOK /\ turn \in 1..Len(order)
  BY TypeOKLoop, InItsTurn
<1>2. turn' = turn + 1 /\ rule' = 0 /\ budget' = 0 /\ acted' = TRUE
  BY DEF PayAndVanish, LeaveTurn
<1> QED
  BY <1>1, <1>2 DEF LoopOK, InTurn, engine

LEMMA LoopTypes ==
  ASSUME TypeOK, [Next]_vars
  PROVE  LoopOK'
<1>0. LoopOK /\ Len(order) \in Nat
  BY TypeOKLoop DEF TypeOK
<1>1. CASE UNCHANGED vars
  BY <1>0, <1>1 DEF LoopOK, vars, world, engine, inTick, InTurn, Actor, RulesOf
<1>2. CASE Commands
  <2>1. phase = "commands" /\ rule = 0
    BY <1>0, <1>2 DEF LoopOK, InTurn, Commands, CreateMap, Spawn, March, ParserThrows, Run
  <2>2. UNCHANGED inTick /\ UNCHANGED << stop, ticks, tick >>
        /\ phase' \in {"commands", "aborted", "Startup"}
    BY <1>2, <2>1 DEF Commands, CreateMap, Spawn, March, ParserThrows, Run, engine
  <2>3. Len(order') \in Nat /\ Len(order') >= Len(order)
    <3>1. CASE UNCHANGED order
      BY <1>0, <3>1
    <3>2. ASSUME NEW c \in SpawnCommands, Spawn(c)
          PROVE  Len(order') = Len(order) + 1
      <4>1. order' = Append(order, c.id) /\ order \in Seq(Id) /\ c.id \in Id
        BY <3>2, CommandFields DEF Spawn, TypeOK
      <4> QED BY <4>1
    <3> QED
      BY <1>0, <1>2, <3>1, <3>2 DEF Commands, CreateMap, March, ParserThrows, Run, world
  <2> QED
    BY <1>0, <2>1, <2>2, <2>3 DEF LoopOK, inTick, Phases
<1>3. CASE Startup \/ BeforeTick \/ EndTick \/ Cleanup \/ Shutdown \/ AfterTick
  <2>1. UNCHANGED << order, rule, budget >> /\ rule = 0
    BY <1>0, <1>3 DEF LoopOK, InTurn, Startup, BeforeTick, EndTick, Cleanup, Shutdown,
                      AfterTick, world, inTick
  <2>2. stop' \in BOOLEAN /\ ticks' \in Nat /\ tick' \in Nat /\ acted' \in BOOLEAN
    <3>1. stop' \in BOOLEAN /\ acted' \in BOOLEAN
      BY <1>0, <1>3, Zenon DEF LoopOK, Startup, BeforeTick, EndTick, Cleanup, Shutdown, AfterTick,
                        inTick
    <3>2. ticks' \in {ticks, ticks + 1} /\ tick' \in {tick, tick + 1, 2}
      BY <1>3, Zenon DEF Startup, BeforeTick, EndTick, Cleanup, Shutdown, AfterTick
    <3> QED
      BY <1>0, <3>1, <3>2 DEF LoopOK
  <2>3. /\ turn' \in {0, 1, turn}
        /\ phase' \in Phases /\ (phase' = "Tick" => turn' = 1)
    BY <1>0, <1>3 DEF LoopOK, Startup, BeforeTick, EndTick, Cleanup, Shutdown, AfterTick,
                      inTick, LoopHead, Phases
  <2> QED
    BY <1>0, <2>1, <2>2, <2>3 DEF LoopOK
<1>4. CASE BeginTurn
  <2>1. /\ turn \in 1..Len(order) /\ Actor \in active
        /\ UNCHANGED << order, active, unit, phase, stop, ticks, tick, turn, acted >>
        /\ rule' = 1 /\ budget' = Recipe(Actor).points
        /\ phase = "Tick" /\ Recipe(Actor).rules # << >>
    BY <1>0, <1>4 DEF LoopOK, BeginTurn, BetweenTurns, HasTurn, CanActThisTurn, Exists,
                      world, engine
  <2>2. unit[Actor] \in Kinds
    BY <2>1, ExistingEntity
  <2>3. budget' \in Int /\ Len(RulesOf(Actor)) >= 1
    BY <2>1, <2>2, RecipeFields, RulesTried DEF Recipe, RulesOf
  <2>4. Actor' = Actor /\ RulesOf(Actor)' = RulesOf(Actor)
    BY <2>1 DEF Actor, RulesOf
  <2> QED
    BY <1>0, <2>1, <2>3, <2>4 DEF LoopOK, InTurn
<1>5. CASE SkipTurn
  BY <1>0, <1>5 DEF LoopOK, SkipTurn, BetweenTurns, world, engine
<1>6. CASE RuleFails
  <2>1. /\ InTurn /\ UNCHANGED << order, active, unit, phase, stop, ticks, tick, acted >>
        /\ turn \in 1..Len(order) /\ rule \in Nat /\ Actor \in active
    BY <1>6, InItsTurn DEF RuleFails, world, engine
  <2>2. CASE rule < Len(RulesOf(Actor)) /\ rule' = rule + 1 /\ UNCHANGED << turn, budget >>
    <3>1. Actor' = Actor /\ RulesOf(Actor)' = RulesOf(Actor)
      BY <2>1, <2>2 DEF Actor, RulesOf
    <3>2. Len(RulesOf(Actor)) \in Nat
      BY <2>1, ExistingEntity, RulesTried DEF RulesOf
    <3> QED
      BY <1>0, <2>1, <2>2, <3>1, <3>2 DEF LoopOK, InTurn
  <2>3. CASE turn' = turn + 1 /\ rule' = 0 /\ budget' = 0
    BY <1>0, <2>1, <2>3 DEF LoopOK, InTurn
  <2> QED
    BY <1>6, <2>2, <2>3 DEF RuleFails, LeaveTurn
<1>7. CASE Strike \/ Heal \/ Move \/ SetActionState
  BY <1>7, PayKeepsTypes DEF Strike, Heal, Move, SetActionState, Fires
<1>8. CASE Explode \/ DestroySelf
  BY <1>8, VanishKeepsTypes DEF Explode, DestroySelf, Fires
<1> QED
  BY <1>1, <1>2, <1>3, <1>4, <1>5, <1>6, <1>7, <1>8 DEF Next, EngineStep, Turns, Exited

-----------------------------------------------------------------------------
(* The published events name entities and cells that exist.                *)

LEMMA EventForms ==
  /\ [ev |-> "MapCreated"] \in EventType
  /\ \A e \in Id, a \in Cells :
       /\ [ev |-> "EntityCreated", id |-> e, at |-> a] \in EventType
       /\ [ev |-> "MarchEnded", id |-> e, at |-> a] \in EventType
       /\ [ev |-> "EntityRemoved", id |-> e, at |-> a, reason |-> "Death"] \in EventType
       /\ [ev |-> "EntityRemoved", id |-> e, at |-> a, reason |-> "Destroyed"] \in EventType
       /\ \A b \in Cells :
            /\ [ev |-> "MarchStarted", id |-> e, at |-> a, target |-> b] \in EventType
            /\ [ev |-> "EntityMoved", id |-> e, from |-> a, at |-> b] \in EventType
  /\ \A e, t \in Id, n \in Int :
       /\ [ev |-> "Damage", source |-> e, id |-> t, hp |-> n] \in EventType
       /\ [ev |-> "Heal", source |-> e, id |-> t, hp |-> n] \in EventType
BY DEF EventType

LEMMA DamageEventsAreTyped ==
  ASSUME TypeOK, NEW e \in active, NEW hurt \in SUBSET active, NEW amount \in Int
  PROVE  DamageEvents(e, hurt, amount) \subseteq EventType
<1>1. e \in Id /\ \A t \in hurt : t \in Id /\ pos[t] \in Cells /\ hp[t] - amount \in Int
  <2>1. hp \in [Id -> Int]
    BY DEF TypeOK
  <2> QED
    BY <2>1, ExistingEntity
<1>2. Killed(hurt, amount) \subseteq hurt
  BY DEF Killed
<1>3. \A t \in hurt : [ev |-> "Damage", source |-> e, id |-> t, hp |-> hp[t] - amount] \in EventType
  BY <1>1, EventForms
<1>4. \A t \in hurt : [ev |-> "EntityRemoved", id |-> t, at |-> pos[t], reason |-> "Death"] \in EventType
  BY <1>1, EventForms
<1> QED
  BY <1>2, <1>3, <1>4 DEF DamageEvents

LEMMA EventTypes ==
  ASSUME TypeOK, [Next]_vars
  PROVE  (out \subseteq EventType)'
<1>1. CASE out' = {} \/ out' = out
  BY <1>1 DEF TypeOK
<1>2. CASE CreateMap
  BY <1>2, EventForms DEF CreateMap
<1>3. ASSUME NEW c \in SpawnCommands, Spawn(c)
      PROVE  out' \subseteq EventType
  BY <1>3, CommandFields, EventForms DEF Spawn
<1>4. ASSUME NEW c \in MarchCommands, March(c)
      PROVE  out' \subseteq EventType
  <2>1. c.id \in Id /\ c.to \in Cells /\ pos[c.id] \in Cells
    BY <1>4, CommandFields, ExistingEntity DEF March, MarchAccepted, Exists
  <2>2. out' \subseteq {[ev |-> "MarchStarted", id |-> c.id, at |-> pos[c.id], target |-> c.to],
                       [ev |-> "MarchEnded", id |-> c.id, at |-> pos[c.id]]}
    BY <1>4 DEF March
  <2> QED
    BY <2>1, <2>2, EventForms
<1>5. ASSUME Fires
      PROVE  /\ Actor \in active /\ Actor \in Id /\ pos[Actor] \in Cells
             /\ Rule \in RuleType /\ Amount(Actor, Rule) \in Int
  BY <1>5, InItsTurn, ExistingEntity, AmountIsANumber DEF Fires
<1>6. CASE Strike
  <2>1. PICK picked : out' = DamageEvents(Actor, Hurt(Actor, Rule, picked), Amount(Actor, Rule))
    BY <1>6 DEF Strike
  <2>2. Hurt(Actor, Rule, picked) \subseteq active
    BY DEF Hurt, Exists
  <2>3. Fires
    BY <1>6 DEF Strike
  <2> QED
    BY <1>5, <2>1, <2>2, <2>3, DamageEventsAreTyped
<1>7. CASE Explode
  <2>1. PICK picked : out' = DamageEvents(Actor, Hurt(Actor, Rule, picked), Amount(Actor, Rule))
                             \cup {DestroyedEvent(Actor)}
    BY <1>7 DEF Explode
  <2>2. Hurt(Actor, Rule, picked) \subseteq active
    BY DEF Hurt, Exists
  <2>3. Fires
    BY <1>7 DEF Explode
  <2>4. DestroyedEvent(Actor) \in EventType
    BY <1>5, <2>3, EventForms DEF DestroyedEvent
  <2>5. DamageEvents(Actor, Hurt(Actor, Rule, picked), Amount(Actor, Rule)) \subseteq EventType
    BY <1>5, <2>2, <2>3, DamageEventsAreTyped
  <2> QED
    BY <2>1, <2>4, <2>5
<1>8. CASE DestroySelf
  <2>1. Fires /\ out' = {DestroyedEvent(Actor)}
    BY <1>8 DEF DestroySelf
  <2> QED
    BY <1>5, <2>1, EventForms DEF DestroyedEvent
<1>9. CASE Heal
  <2>1. Fires
    BY <1>9 DEF Heal
  <2>2. PICK picked :
          out' = {[ev |-> "Heal", source |-> Actor, id |-> t,
                   hp |-> IntAdd(hp[t], Amount(Actor, Rule))] : t \in Healed(Actor, Rule, picked)}
    BY <1>9 DEF Heal
  <2>3. \A t \in Healed(Actor, Rule, picked) :
          t \in Id /\ IntAdd(hp[t], Amount(Actor, Rule)) \in Int
    <3> SUFFICES ASSUME NEW t \in Healed(Actor, Rule, picked)
                 PROVE  t \in Id /\ IntAdd(hp[t], Amount(Actor, Rule)) \in Int
      OBVIOUS
    <3>1. t \in Id
      BY ExistingEntity DEF Healed, Exists
    <3>2. hp[t] \in Int
      BY <3>1 DEF TypeOK
    <3> QED
      BY <1>5, <2>1, <3>1, <3>2, NumberAssumption DEF IntAdd
  <2> QED
    BY <1>5, <2>1, <2>2, <2>3, EventForms
<1>10. CASE Move
  <2>1. Fires /\ Rule.effect = "battle.move"
    BY <1>10 DEF Move
  <2>2. PICK to \in Moves(Actor, Rule) :
          out' \subseteq {[ev |-> "EntityMoved", id |-> Actor, from |-> pos[Actor], at |-> to],
                         [ev |-> "MarchEnded", id |-> Actor, at |-> to]}
    BY <1>10 DEF Move
  <2>3. to \in Cells
    BY <1>5, <2>1, <2>2, InItsTurn, MoveEndsOnAFreeCell DEF Fires
  <2> QED
    BY <1>5, <2>1, <2>2, <2>3, EventForms
<1> QED
  BY <1>1, <1>2, <1>3, <1>4, <1>6, <1>7, <1>8, <1>9, <1>10
     DEF Next, Commands, EngineStep, Turns, Exited, vars, ParserThrows, Run, Startup, BeforeTick,
         EndTick, AfterTick, Cleanup, Shutdown, BeginTurn, SkipTurn, RuleFails, SetActionState

-----------------------------------------------------------------------------
LEMMA InitTypes == Init => TypeOK
<1> SUFFICES ASSUME Init PROVE TypeOK
  OBVIOUS
<1>1. order = << >> /\ active = {} /\ Created = {}
  BY DEF Init, Created
<1>2. WorldOK
  <2>1. order \in Seq(Id)
    BY <1>1
  <2>2. /\ unit \in [Id -> Kinds \cup {None}] /\ pos \in [Id -> Cells \cup {None}]
        /\ hp \in [Id -> Int] /\ march \in [Id -> Cells \cup {None}]
        /\ occ \in [Cells -> Id \cup {0}]
    BY DEF Init
  <2>3. \A e \in Id : unit[e] = None /\ pos[e] = None
    BY DEF Init
  <2>4. mapReady \in BOOLEAN /\ alive = {} /\ armed = {}
    BY DEF Init
  <2> QED
    BY <1>1, <2>1, <2>2, <2>3, <2>4 DEF WorldOK
<1>3. LoopOK
  <2>1. Len(order) = 0
    BY <1>1
  <2>2. stop \in BOOLEAN /\ acted \in BOOLEAN
    BY DEF Init
  <2>3. turn = 0 /\ rule = 0 /\ budget = 0 /\ ticks = 0 /\ tick = 1 /\ phase = "commands"
    BY DEF Init
  <2> QED
    BY <2>1, <2>2, <2>3 DEF LoopOK, Phases
<1> QED
  BY <1>2, <1>3 DEF Init, WorldOK, LoopOK, TypeOK

\* Type correctness: components are blank exactly where the entity does not
\* exist, and the turn in progress is an existing entity at one of its rules,
\* on every map and with every set of recipes and commands.
THEOREM TypeCorrect == Spec => []TypeOK
<1>1. TypeOK /\ [Next]_vars => TypeOK'
  <2> SUFFICES ASSUME TypeOK, [Next]_vars PROVE TypeOK'
    OBVIOUS
  <2>1. WorldOK' /\ LoopOK' /\ (out \subseteq EventType)'
    BY WorldTypes, LoopTypes, EventTypes
  <2> QED
    BY <2>1 DEF WorldOK, LoopOK, TypeOK
<1> QED
  BY <1>1, InitTypes, PTL DEF Spec

-----------------------------------------------------------------------------
(* The occupancy table.                                                    *)

LEMMA RemoveKeepsOccupancy ==
  ASSUME TypeOK, OccupancyAgrees, NEW S \in SUBSET active, NEW h, Remove(S, h)
  PROVE  OccupancyAgrees'
<1> SUFFICES ASSUME NEW c \in Cells, NEW e \in Id
             PROVE  occ'[c] = e <=> (e \in active' /\ Recipes[unit'[e]].blocks /\ pos'[e] = c)
  BY DEF OccupancyAgrees
<1>1. /\ occ'[c] = IF c \in Vacated(S) THEN 0 ELSE occ[c]
      /\ unit'[e] = IF e \in S THEN None ELSE unit[e]
      /\ pos'[e] = IF e \in S THEN None ELSE pos[e]
      /\ active' = active \ S
  BY DEF Remove, Erased
<1>2. e # 0
  BY IdAssumption
<1>3. occ[c] = e <=> (e \in active /\ Recipes[unit[e]].blocks /\ pos[e] = c)
  BY DEF OccupancyAgrees
<1>4. c \in Vacated(S) <=> \E d \in S : IsBlocking(d) /\ pos[d] = c /\ occ[c] = d
  BY DEF Vacated
<1>5. \A d \in S : occ[c] = d <=> IsBlocking(d) /\ pos[d] = c
  BY ExistingEntity DEF OccupancyAgrees, IsBlocking, Exists, Recipe
<1>6. c \in Vacated(S) <=> occ[c] \in S
  BY <1>4, <1>5
<1> QED
  BY <1>1, <1>2, <1>3, <1>6

LEMMA OccupancyStep ==
  ASSUME TypeOK, OccupancyAgrees, [Next]_vars
  PROVE  OccupancyAgrees'
<1>1. CASE UNCHANGED << active, unit, pos, occ >>
  BY <1>1 DEF OccupancyAgrees
<1>2. ASSUME NEW c \in SpawnCommands, Spawn(c)
      PROVE  OccupancyAgrees'
  <2>1. /\ c.id \in Id /\ c.id # 0 /\ c.kind \in Kinds /\ c.at \in Cells
        /\ c.id \notin active
        /\ active' = active \cup {c.id}
        /\ unit' = [unit EXCEPT ![c.id] = c.kind]
        /\ pos' = [pos EXCEPT ![c.id] = c.at]
        /\ occ' = IF Recipes[c.kind].blocks THEN [occ EXCEPT ![c.at] = c.id] ELSE occ
        /\ Recipes[c.kind].blocks => occ[c.at] = 0
    BY <1>2, CommandFields DEF Spawn, CanPlaceAt, TypeOK
  <2>2. /\ unit \in [Id -> Kinds \cup {None}] /\ pos \in [Id -> Cells \cup {None}]
        /\ occ \in [Cells -> Id \cup {0}]
    BY DEF TypeOK
  <2> SUFFICES ASSUME NEW a \in Cells, NEW e \in Id
               PROVE  occ'[a] = e <=> (e \in active' /\ Recipes[unit'[e]].blocks /\ pos'[e] = a)
    BY DEF OccupancyAgrees
  <2>3. occ[a] = e <=> (e \in active /\ Recipes[unit[e]].blocks /\ pos[e] = a)
    BY DEF OccupancyAgrees
  <2>4. e # 0
    BY IdAssumption
  <2>5. CASE e = c.id
    BY <2>1, <2>2, <2>3, <2>5
  <2>6. CASE e # c.id
    <3>1. unit'[e] = unit[e] /\ pos'[e] = pos[e] /\ (e \in active' <=> e \in active)
      BY <2>1, <2>2, <2>6
    <3>2. occ'[a] = e <=> occ[a] = e
      BY <2>1, <2>2, <2>4, <2>6
    <3> QED BY <2>3, <3>1, <3>2
  <2> QED BY <2>5, <2>6
<1>3. CASE Move
  <2>1. Fires /\ Rule.effect = "battle.move" /\ UNCHANGED << active, unit >>
    BY <1>3 DEF Move
  <2>2. PICK to \in Moves(Actor, Rule) :
          /\ pos' = [pos EXCEPT ![Actor] = to]
          /\ occ' = IF IsBlocking(Actor) THEN Relocated(Actor, pos[Actor], to) ELSE occ
    BY <1>3 DEF Move
  <2>3. Actor \in active /\ Actor \in Id /\ Actor # 0 /\ pos[Actor] \in Cells
    BY <2>1, InItsTurn, ExistingEntity, IdAssumption DEF Fires
  <2>4. /\ to \in Cells /\ to # pos[Actor]
        /\ IsBlocking(Actor) => occ[pos[Actor]] = Actor /\ occ[to] = 0
    BY <2>1, <2>2, InItsTurn, MoveEndsOnAFreeCell DEF Fires
  <2>5. pos \in [Id -> Cells \cup {None}] /\ occ \in [Cells -> Id \cup {0}]
    BY DEF TypeOK
  <2>6. IsBlocking(Actor) <=> Recipes[unit[Actor]].blocks
    BY <2>3 DEF IsBlocking, Exists, Recipe
  <2>7. IsBlocking(Actor) =>
          occ' = [c \in Cells |-> IF c = pos[Actor] THEN 0 ELSE IF c = to THEN Actor ELSE occ[c]]
    BY <2>2, <2>3, <2>4, <2>5 DEF Relocated
  <2> SUFFICES ASSUME NEW a \in Cells, NEW e \in Id
               PROVE  occ'[a] = e <=> (e \in active' /\ Recipes[unit'[e]].blocks /\ pos'[e] = a)
    BY DEF OccupancyAgrees
  <2>8. occ[a] = e <=> (e \in active /\ Recipes[unit[e]].blocks /\ pos[e] = a)
    BY DEF OccupancyAgrees
  <2>9. e # 0
    BY IdAssumption
  <2>10. CASE e = Actor
    <3>1. pos'[e] = to
      BY <2>2, <2>3, <2>5, <2>10
    <3>2. CASE IsBlocking(Actor)
      <4>1. occ'[a] = e <=> a = to
        BY <2>3, <2>4, <2>6, <2>7, <2>8, <2>9, <2>10, <3>2
      <4> QED BY <2>1, <2>3, <2>6, <2>10, <3>1, <3>2, <4>1
    <3>3. CASE ~IsBlocking(Actor)
      BY <2>1, <2>2, <2>6, <2>8, <2>10, <3>3
    <3> QED BY <3>2, <3>3
  <2>11. CASE e # Actor
    <3>1. pos'[e] = pos[e]
      BY <2>2, <2>5, <2>11
    <3>2. occ'[a] = e <=> occ[a] = e
      BY <2>2, <2>4, <2>7, <2>9, <2>11
    <3> QED BY <2>1, <2>8, <3>1, <3>2
  <2> QED BY <2>10, <2>11
<1>4. CASE AfterTick
  <2>1. Dead \in SUBSET active /\ Remove(Dead, hp)
    BY <1>4 DEF AfterTick, Dead
  <2> QED BY <2>1, RemoveKeepsOccupancy
<1>5. CASE Explode \/ DestroySelf
  <2>1. PICK h : Remove({Actor}, h)
    BY <1>5 DEF Explode, DestroySelf
  <2>2. {Actor} \in SUBSET active
    BY <1>5, InItsTurn DEF Explode, DestroySelf, Fires
  <2> QED BY <2>1, <2>2, RemoveKeepsOccupancy
<1> QED
  BY <1>1, <1>2, <1>3, <1>4, <1>5, StepsOfTheWorld
     DEF world, CreateMap, March, Strike, Heal, SetActionState

\* The map's occupancy table and the entities' components never disagree, through
\* any scenario: no ghost keeps a cell, no two units share one, and no blocking
\* unit stands unregistered.
THEOREM OccupancyIsExact == Spec => []OccupancyAgrees
<1>1. Init => OccupancyAgrees
  BY IdAssumption DEF Init, OccupancyAgrees
<1>2. TypeOK /\ OccupancyAgrees /\ [Next]_vars => OccupancyAgrees'
  BY OccupancyStep
<1> QED
  BY <1>1, <1>2, TypeCorrect, PTL DEF Spec

-----------------------------------------------------------------------------
(* Marches.                                                                *)

LEMMA MarchStep ==
  ASSUME TypeOK, MarchIsPending, [Next]_vars
  PROVE  MarchIsPending'
<1>0. /\ march \in [Id -> Cells \cup {None}] /\ pos \in [Id -> Cells \cup {None}]
      /\ unit \in [Id -> Kinds \cup {None}]
  BY DEF TypeOK
<1>1. CASE UNCHANGED << active, unit, pos, march >>
  BY <1>1 DEF MarchIsPending
<1>2. ASSUME NEW c \in SpawnCommands, Spawn(c)
      PROVE  MarchIsPending'
  <2>1. /\ c.id \notin active /\ active' = active \cup {c.id} /\ UNCHANGED march
        /\ unit' = [unit EXCEPT ![c.id] = c.kind]
        /\ pos' = [pos EXCEPT ![c.id] = c.at]
    BY <1>2 DEF Spawn, TypeOK
  <2> QED
    BY <1>0, <2>1 DEF MarchIsPending
<1>3. ASSUME NEW c \in MarchCommands, March(c)
      PROVE  MarchIsPending'
  <2>1. /\ c.id \in active /\ Recipes[unit[c.id]].mobile
        /\ UNCHANGED << active, unit, pos >>
        /\ march' = IF c.to = pos[c.id] THEN [march EXCEPT ![c.id] = None]
                                        ELSE [march EXCEPT ![c.id] = c.to]
    BY <1>3 DEF March, MarchAccepted, Exists, Recipe
  <2> QED
    BY <1>0, <2>1 DEF MarchIsPending
<1>4. CASE Move
  <2>1. Fires /\ Rule.effect = "battle.move" /\ UNCHANGED << active, unit >>
    BY <1>4 DEF Move
  <2>2. PICK to \in Moves(Actor, Rule) :
          /\ pos' = [pos EXCEPT ![Actor] = to]
          /\ march' = IF to = march[Actor] THEN [march EXCEPT ![Actor] = None] ELSE march
    BY <1>4 DEF Move, Arrives
  <2>3. Actor \in active /\ Actor \in Id
    BY <2>1, InItsTurn DEF Fires
  <2> QED
    BY <1>0, <2>1, <2>2, <2>3 DEF MarchIsPending
<1>5. CASE AfterTick \/ Explode \/ DestroySelf
  <2>1. PICK S, h : Remove(S, h)
    BY <1>5 DEF AfterTick, Explode, DestroySelf
  <2>2. \A e \in Id : \/ e \in S /\ march'[e] = None
                    \/ /\ e \notin S /\ march'[e] = march[e] /\ pos'[e] = pos[e]
                       /\ unit'[e] = unit[e] /\ (e \in active' <=> e \in active)
    BY <2>1 DEF Remove, Erased
  <2> QED
    BY <2>2 DEF MarchIsPending
<1> QED
  BY <1>1, <1>2, <1>3, <1>4, <1>5, StepsOfTheWorld
     DEF world, CreateMap, Strike, Heal, SetActionState

\* A march target is never stale: it belongs to a mobile entity that exists and
\* has not arrived, whatever interrupts or ends the march.
THEOREM MarchesStayPending == Spec => []MarchIsPending
<1>1. Init => MarchIsPending
  BY DEF Init, MarchIsPending
<1>2. TypeOK /\ MarchIsPending /\ [Next]_vars => MarchIsPending'
  BY MarchStep
<1> QED
  BY <1>1, <1>2, TypeCorrect, PTL DEF Spec

-----------------------------------------------------------------------------
(* Death.                                                                  *)

\* What a blow does: the targets are alive and lose a positive amount, the killed
\* lose their marker, and an exploding actor is gone.
Blow(hurt, amount, gone) ==
  /\ amount > 0 \/ hurt = {}
  /\ \A t \in hurt : hp[t] > 0
  /\ active' = active \ gone
  /\ \A t \in active' : hp'[t] = IF t \in hurt THEN hp[t] - amount ELSE hp[t]
  /\ alive' = (alive \ {t \in hurt : hp[t] - amount <= 0}) \ gone

LEMMA BlowsHitTheLiving ==
  ASSUME TypeOK, Strike \/ Explode
  PROVE  \E hurt \in SUBSET active, amount \in Int, gone \in SUBSET active :
           Blow(hurt, amount, gone)
<1>1. Actor \in active /\ Amount(Actor, Rule) \in Int
  BY InItsTurn, AmountIsANumber DEF Strike, Explode, Fires
<1>2. \A e \in active : e \in Id
  BY ExistingEntity
<1>3. PICK picked \in Picks(Actor, Rule), gone \in SUBSET active :
        LET hurt == Hurt(Actor, Rule, picked)
            amount == Amount(Actor, Rule)
        IN  /\ active' = active \ gone
            /\ \A t \in active' : hp'[t] = Wounded(hurt, amount)[t]
            /\ alive' = (alive \ Killed(hurt, amount)) \ gone
  <2>1. CASE Strike
    <3>1. PICK picked \in Picks(Actor, Rule) :
            /\ hp' = Wounded(Hurt(Actor, Rule, picked), Amount(Actor, Rule))
            /\ alive' = alive \ Killed(Hurt(Actor, Rule, picked), Amount(Actor, Rule))
      BY <2>1 DEF Strike
    <3>2. active' = active
      BY <2>1 DEF Strike
    <3>3. alive' = (alive \ Killed(Hurt(Actor, Rule, picked), Amount(Actor, Rule))) \ {}
      BY <3>1
    <3> QED
      BY <3>1, <3>2, <3>3
  <2>2. CASE Explode
    <3>1. PICK picked \in Picks(Actor, Rule) :
            /\ Remove({Actor}, Wounded(Hurt(Actor, Rule, picked), Amount(Actor, Rule)))
            /\ alive' = (alive \ Killed(Hurt(Actor, Rule, picked), Amount(Actor, Rule))) \ {Actor}
      BY <2>2 DEF Explode
    <3>2. active' = active \ {Actor}
      BY <3>1 DEF Remove
    <3>3. \A t \in active' : hp'[t] = Wounded(Hurt(Actor, Rule, picked), Amount(Actor, Rule))[t]
      BY <1>2, <3>1, <3>2 DEF Remove, Erased
    <3> QED
      BY <1>1, <3>1, <3>2, <3>3
  <2> QED
    BY <2>1, <2>2
<1> DEFINE hurt == Hurt(Actor, Rule, picked)  amount == Amount(Actor, Rule)
<1>4. /\ hurt \in SUBSET active /\ \A t \in hurt : hp[t] > 0
      /\ amount > 0 \/ hurt = {}
  BY DEF Hurt, Exists
<1>5. \A t \in active' : hp'[t] = IF t \in hurt THEN hp[t] - amount ELSE hp[t]
  BY <1>2, <1>3 DEF Wounded
<1>6. alive' = (alive \ {t \in hurt : hp[t] - amount <= 0}) \ gone
  BY <1>3 DEF Killed
<1>7. active' = active \ gone /\ amount \in Int
  BY <1>1, <1>3
<1> HIDE DEF hurt, amount
<1>8. Blow(hurt, amount, gone)
  BY <1>4, <1>5, <1>6, <1>7 DEF Blow
<1> QED
  BY <1>4, <1>7, <1>8

LEMMA HitPointsAreNumbers ==
  ASSUME TypeOK
  PROVE  \A e \in active : e \in Id /\ hp[e] \in Int
BY ExistingEntity DEF TypeOK

\* Which steps touch who exists and how healthy they are.
LEMMA StepsOfHealth ==
  ASSUME [Next]_vars
  PROVE  \/ UNCHANGED << active, hp, alive >>
         \/ \E c \in SpawnCommands : Spawn(c)
         \/ Strike \/ Explode \/ Heal \/ DestroySelf \/ AfterTick
BY StepsOfTheWorld DEF world, CreateMap, March, Move, SetActionState

\* A removal without a blow leaves the survivors as they are.
LEMMA RemovedUnhurt ==
  ASSUME TypeOK, DestroySelf \/ AfterTick
  PROVE  \E gone \in SUBSET active :
           /\ active' = active \ gone /\ alive' = alive \ gone
           /\ \A t \in active' : hp'[t] = hp[t]
           /\ AfterTick => gone = Dead
<1>1. CASE DestroySelf /\ ~AfterTick
  <2>1. Remove({Actor}, hp) /\ alive' = alive \ {Actor} /\ Actor \in active
    BY <1>1, InItsTurn DEF DestroySelf, Fires
  <2>2. active' = active \ {Actor} /\ \A t \in active' : hp'[t] = hp[t]
    BY <2>1, HitPointsAreNumbers DEF Remove, Erased
  <2> QED
    BY <1>1, <2>1, <2>2
<1>2. CASE AfterTick
  <2>1. Remove(Dead, hp) /\ alive' = alive \ Dead /\ Dead \in SUBSET active
    BY <1>2 DEF AfterTick, Dead
  <2>2. active' = active \ Dead /\ \A t \in active' : hp'[t] = hp[t]
    BY <2>1, HitPointsAreNumbers DEF Remove, Erased
  <2> QED
    BY <2>1, <2>2
<1> QED
  BY <1>1, <1>2

\* Nobody dies twice and nobody comes back: neither a blow, nor a healing, nor a
\* command touches a dead entity or reuses the id of a removed one.
THEOREM DeathStaysFinal == Spec => DeathIsFinal
<1> DEFINE Final ==
      /\ \A e \in active : hp[e] <= 0 => hp'[e] = hp[e] \/ e \notin active'
      /\ \A e \in Created : e \notin active => e \notin active'
<1>1. TypeOK /\ [Next]_vars => [Final]_vars
  <2> SUFFICES ASSUME TypeOK, [Next]_vars PROVE Final
    OBVIOUS
  <2>0. \A e \in active : e \in Id /\ hp[e] \in Int
    BY HitPointsAreNumbers
  <2>1. CASE UNCHANGED << active, hp, alive >>
    BY <2>1
  <2>2. ASSUME NEW c \in SpawnCommands, Spawn(c)
        PROVE  Final
    <3>1. /\ c.id \notin Created /\ active' = active \cup {c.id}
          /\ hp' = [hp EXCEPT ![c.id] = Recipes[c.kind].hp]
      BY <2>2 DEF Spawn
    <3>2. active \subseteq Created /\ hp \in [Id -> Int]
      BY DEF TypeOK
    <3> QED
      BY <2>0, <3>1, <3>2
  <2>3. CASE Strike \/ Explode
    <3>1. PICK hurt \in SUBSET active, amount \in Int, gone \in SUBSET active :
            Blow(hurt, amount, gone)
      BY <2>3, BlowsHitTheLiving
    <3> QED
      BY <2>0, <3>1 DEF Blow
  <2>4. CASE Heal
    <3>1. PICK picked :
            hp' = [t \in Id |-> IF t \in Healed(Actor, Rule, picked)
                                THEN IntAdd(hp[t], Amount(Actor, Rule)) ELSE hp[t]]
      BY <2>4 DEF Heal
    <3>2. \A t \in Healed(Actor, Rule, picked) : hp[t] > 0
      BY DEF Healed
    <3>3. active' = active
      BY <2>4 DEF Heal
    <3> QED
      BY <2>0, <3>1, <3>2, <3>3
  <2>5. CASE DestroySelf \/ AfterTick
    BY <2>5, RemovedUnhurt
  <2> QED
    BY <2>1, <2>2, <2>3, <2>4, <2>5, StepsOfHealth
<1> QED
  BY <1>1, TypeCorrect, PTL DEF Spec, DeathIsFinal

\* Outside a tick everybody in the world is alive.
AllAliveOutsideTicks ==
  phase \in {"commands", "Startup", "BeforeTick", "Cleanup"} => \A e \in active : hp[e] > 0

LEMMA CleanupStep ==
  ASSUME TypeOK, AllAliveOutsideTicks, [Next]_vars
  PROVE  AllAliveOutsideTicks'
<1> DEFINE Quiet == {"commands", "Startup", "BeforeTick", "Cleanup"}
<1>1. ASSUME NEW c \in SpawnCommands, Spawn(c)
      PROVE  AllAliveOutsideTicks'
  <2>1. /\ c.id \in Id /\ phase = "commands" /\ active' = active \cup {c.id}
        /\ hp' = [hp EXCEPT ![c.id] = Recipes[c.kind].hp] /\ Recipes[c.kind].hp > 0
    BY <1>1, CommandFields DEF Spawn, ValidStats
  <2>2. hp \in [Id -> Int]
    BY DEF TypeOK
  <2> QED
    BY <2>1, <2>2, HitPointsAreNumbers DEF AllAliveOutsideTicks
<1>2. CASE AfterTick
  <2>1. active' = active \ Dead /\ \A t \in active' : hp'[t] = hp[t]
    BY <1>2, RemovedUnhurt
  <2>2. \A t \in active' : hp[t] > 0
    BY <2>1 DEF Dead, IsAlive, Exists
  <2> QED
    BY <2>1, <2>2 DEF AllAliveOutsideTicks
<1>3. CASE Turns
  <2>1. phase' = "Tick"
    BY <1>3 DEF Turns, BeginTurn, SkipTurn, RuleFails, Strike, Explode, DestroySelf, Heal, Move,
                SetActionState, Fires, InTurn, BetweenTurns, engine
  <2> QED
    BY <2>1 DEF AllAliveOutsideTicks
<1>4. CASE UNCHANGED << active, hp >> /\ (phase' \in Quiet => phase \in Quiet)
  BY <1>4 DEF AllAliveOutsideTicks
<1>5. CASE CreateMap \/ (\E c \in MarchCommands : March(c)) \/ ParserThrows \/ Run \/ Startup
           \/ BeforeTick \/ EndTick \/ Cleanup \/ Shutdown \/ Exited \/ UNCHANGED vars
  <2>1. UNCHANGED << active, hp >>
    BY <1>5 DEF CreateMap, March, ParserThrows, Run, Startup, BeforeTick, EndTick, Cleanup,
                Shutdown, Exited, vars, world
  <2>2. phase' \in Quiet => phase \in Quiet
    BY <1>5 DEF CreateMap, March, ParserThrows, Run, Startup, BeforeTick, EndTick, Cleanup,
                Shutdown, Exited, vars, engine
  <2> QED BY <1>4, <2>1, <2>2
<1> QED
  BY <1>1, <1>2, <1>3, <1>5 DEF Next, Commands, EngineStep

\* The dead never see another tick: the cleanup removes every one of them, those
\* whose hit points wrapped around in a healing included.
THEOREM NoCorpseSeesATick == Spec => []NoCorpseBetweenTicks
<1>1. Init => AllAliveOutsideTicks
  BY DEF Init, AllAliveOutsideTicks
<1>2. TypeOK /\ AllAliveOutsideTicks /\ [Next]_vars => AllAliveOutsideTicks'
  BY CleanupStep
<1>3. AllAliveOutsideTicks => NoCorpseBetweenTicks
  BY DEF AllAliveOutsideTicks, NoCorpseBetweenTicks
<1> QED
  BY <1>1, <1>2, <1>3, TypeCorrect, PTL DEF Spec

\* A healing does not take anybody past the largest int, where the sum wraps.
HealingFits ==
  Heal => \A t \in active : hp'[t] # hp[t] => hp[t] + Amount(Actor, Rule) <= MaxInt

\* A healing that fits changes who is healthy, not who is alive.
LEMMA HealingKeepsAlive ==
  ASSUME TypeOK, Heal, [HealingFits]_vars
  PROVE  /\ UNCHANGED << active, alive >>
         /\ \A t \in active : hp'[t] > 0 <=> hp[t] > 0
<1>0. UNCHANGED << active, alive >>
  BY DEF Heal
<1>1. Amount(Actor, Rule) \in Int
  BY InItsTurn, AmountIsANumber DEF Heal, Fires
<1> SUFFICES ASSUME NEW t \in active PROVE hp'[t] > 0 <=> hp[t] > 0
  BY <1>0
<1>2. t \in Id /\ hp[t] \in Int
  BY HitPointsAreNumbers
<1>3. PICK healed : /\ \A u \in healed : Amount(Actor, Rule) > 0 /\ hp[u] > 0
                    /\ hp' = [u \in Id |-> IF u \in healed THEN IntAdd(hp[u], Amount(Actor, Rule))
                                           ELSE hp[u]]
  BY DEF Heal, Healed
<1>4. CASE hp'[t] = hp[t]
  BY <1>4
<1>5. CASE hp'[t] # hp[t]
  <2>1. t \in healed
    BY <1>2, <1>3, <1>5
  <2>2. hp[t] + Amount(Actor, Rule) <= MaxInt
    BY <1>5 DEF HealingFits, vars, world
  <2>3. hp'[t] = hp[t] + Amount(Actor, Rule)
    BY <1>1, <1>2, <1>3, <2>1, <2>2, NumberAssumption DEF IntAdd
  <2> QED BY <1>1, <1>2, <1>3, <2>1, <2>3
<1> QED BY <1>4, <1>5

\* No recipe heals.
NoHealing ==
  \A k \in Kinds : \A i \in 1..Len(Recipes[k].rules) : Recipes[k].rules[i].effect # "battle.heal"

\* Then nobody does, and what is asked of healings holds of all there are.
LEMMA NobodyHeals == ASSUME TypeOK, NoHealing PROVE HealingFits
<1> SUFFICES ASSUME Heal PROVE FALSE
  BY DEF HealingFits
<1>1. /\ unit[Actor] \in Kinds /\ rule \in 1..Len(RulesOf(Actor))
      /\ Rule.effect = "battle.heal"
  BY InItsTurn DEF Heal, Fires
<1> QED BY <1>1, RulesTried DEF NoHealing, Rule, RulesOf

LEMMA MarkerStep ==
  ASSUME TypeOK, MarkerAgreesWithHealth, [Next]_vars, [HealingFits]_vars
  PROVE  MarkerAgreesWithHealth'
<1>0. /\ \A e \in active : e \in Id /\ hp[e] \in Int
      /\ \A e \in Id : e \in alive <=> (e \in active /\ hp[e] > 0)
      /\ alive \subseteq active
  BY HitPointsAreNumbers DEF MarkerAgreesWithHealth, TypeOK
<1>1. CASE UNCHANGED << active, hp, alive >>
  BY <1>0, <1>1 DEF MarkerAgreesWithHealth
<1>2. ASSUME NEW c \in SpawnCommands, Spawn(c)
      PROVE  MarkerAgreesWithHealth'
  <2>1. /\ c.id \in Id /\ active' = active \cup {c.id} /\ alive' = alive \cup {c.id}
        /\ hp' = [hp EXCEPT ![c.id] = Recipes[c.kind].hp] /\ Recipes[c.kind].hp > 0
    BY <1>2, CommandFields DEF Spawn, ValidStats
  <2>2. hp \in [Id -> Int]
    BY DEF TypeOK
  <2> QED
    BY <1>0, <2>1, <2>2 DEF MarkerAgreesWithHealth
<1>3. CASE Strike \/ Explode
  <2>1. PICK hurt \in SUBSET active, amount \in Int, gone \in SUBSET active :
          Blow(hurt, amount, gone)
    BY <1>3, BlowsHitTheLiving
  <2> QED
    BY <1>0, <2>1 DEF Blow, MarkerAgreesWithHealth
<1>4. CASE Heal
  <2>1. /\ active' = active /\ alive' = alive
        /\ \A t \in active : hp'[t] > 0 <=> hp[t] > 0
    BY <1>4, HealingKeepsAlive
  <2> QED
    BY <1>0, <2>1 DEF MarkerAgreesWithHealth
<1>5. CASE DestroySelf \/ AfterTick
  <2>1. PICK gone \in SUBSET active :
           /\ active' = active \ gone /\ alive' = alive \ gone
           /\ \A t \in active' : hp'[t] = hp[t]
    BY <1>5, RemovedUnhurt
  <2> QED
    BY <1>0, <2>1 DEF MarkerAgreesWithHealth
<1> QED
  BY <1>1, <1>2, <1>3, <1>4, <1>5, StepsOfHealth

\* The alive marker tells the truth at every moment of every battle in which no
\* healing passes the largest int: such a one leaves the marker on a unit whose hit
\* points have wrapped around.
THEOREM MarkerIsTruthful ==
  Spec /\ [][HealingFits]_vars => []MarkerAgreesWithHealth
<1>1. Init => MarkerAgreesWithHealth
  BY DEF Init, MarkerAgreesWithHealth
<1>2. TypeOK /\ MarkerAgreesWithHealth /\ [Next]_vars /\ [HealingFits]_vars
        => MarkerAgreesWithHealth'
  BY MarkerStep
<1> QED
  BY <1>1, <1>2, TypeCorrect, PTL DEF Spec

\* A battle without healers is one of them.
THEOREM HealerlessBattles ==
  ASSUME NoHealing
  PROVE  Spec => [][HealingFits]_vars
<1>1. TypeOK => HealingFits
  BY NobodyHeals
<1> QED
  BY <1>1, TypeCorrect, PTL

-----------------------------------------------------------------------------
(* The engine's loop.                                                      *)

\* What the loop knows at each phase: a tick is only entered with a map, a stop
\* request is only raised on the way to Shutdown, and a loop left without one has
\* run out of ticks.
LoopFacts ==
  /\ phase \in {"Tick", "AfterTick", "Cleanup"} => mapReady
  /\ phase \notin {"Shutdown", "done"} => ~stop
  /\ phase \in {"BeforeTick", "Tick", "AfterTick", "Cleanup"} => ticks < MaxTicks
  /\ phase = "Shutdown" /\ ~stop => ticks >= MaxTicks

LEMMA LoopFactsStep ==
  ASSUME TypeOK, LoopFacts, [Next]_vars
  PROVE  LoopFacts'
<1>0. ticks \in Nat /\ MaxTicks \in Int
  BY NumberAssumption DEF TypeOK
<1>1. CASE UNCHANGED << phase, stop, ticks, mapReady >>
  BY <1>1 DEF LoopFacts
<1>2. CASE CreateMap
  BY <1>2 DEF LoopFacts, CreateMap, engine
<1>3. CASE ParserThrows \/ Run
  BY <1>3 DEF LoopFacts, ParserThrows, Run, world
<1>4. CASE Startup
  BY <1>0, <1>4 DEF LoopFacts, Startup, LoopHead, world
<1>5. CASE BeforeTick
  BY <1>0, <1>5 DEF LoopFacts, BeforeTick, CanContinue, world
<1>6. CASE EndTick
  BY <1>6 DEF LoopFacts, EndTick, world
<1>7. CASE AfterTick
  BY <1>7 DEF LoopFacts, AfterTick
<1>8. CASE Cleanup
  BY <1>0, <1>8 DEF LoopFacts, Cleanup, LoopHead, world
<1>9. CASE Shutdown
  BY <1>9 DEF LoopFacts, Shutdown, world
<1>10. CASE (\E c \in SpawnCommands : Spawn(c)) \/ (\E c \in MarchCommands : March(c)) \/ Turns
            \/ Exited \/ UNCHANGED vars
  <2>1. UNCHANGED << phase, stop, ticks, mapReady >>
    BY <1>10 DEF Spawn, March, Turns, BeginTurn, SkipTurn, RuleFails, Strike, Explode,
                 DestroySelf, Heal, Move, SetActionState, Exited, vars, world, engine
  <2> QED BY <1>1, <2>1
<1> QED
  BY <1>2, <1>3, <1>4, <1>5, <1>6, <1>7, <1>8, <1>9, <1>10 DEF Next, Commands, EngineStep

=============================================================================
