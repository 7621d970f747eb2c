------------------------- MODULE LocalRunner_proofs -------------------------
(***************************************************************************)
(* Proofs about LocalRunner, for any number of requests, any names and     *)
(* any number of crashes.                                                  *)
(*                                                                         *)
(* The invariant ties a request to the one directory it has: PostOK says   *)
(* what the stage of the one tells of the other.  Since no two requests    *)
(* have the same directory, what one of them does to its own cannot        *)
(* disturb what is known of another's.                                     *)
(***************************************************************************)
EXTENDS LocalRunner, TLAPS

-----------------------------------------------------------------------------
(* The invariant *)

\* A child that changes nothing any more.
Still(c) == ~c.wanted \/ c.exit # "running"

\* A child that ended with zero had made a file and had not closed it early.
ChildOK(c) == c \in Children /\ (c.wanted /\ c.exit = "zero" => c.file \in {"partial", "whole"})

RunOK(e) ==
  /\ e \in Directory /\ ChildOK(e.child)
  /\ e.code \in Outcomes => Still(e.child)
  /\ e.code = "zero" => e.child.wanted /\ e.child.exit = "zero"

\* A request and its directory.
PostOK(p, e) ==
  /\ p.stage \in {"scenario", "launching"} =>
       e.code = "absent" /\ ~e.child.wanted /\ p.outcome = "none"
  /\ p.stage = "waiting" => e.code \notin Outcomes /\ e.child.wanted /\ p.outcome = "none"
  /\ p.stage \in {"outputs", "code"} =>
       /\ e.code \notin Outcomes /\ Still(e.child) /\ p.outcome \in Outcomes
       /\ p.outcome = "zero" => e.child.wanted /\ e.child.exit = "zero"
  /\ p.stage # "answered" => p.reply = "none"
  /\ p.reply = "ok" => e.child.file = "whole" /\ e.code = "zero"

\* A request without one.
BareOK(p) ==
  /\ p.outcome = "none"
  /\ p.stage # "answered" => p.reply = "none"
  /\ p.stage = "answered" => p.reply = "unrun"

Types ==
  /\ up \in BOOLEAN /\ crashes \in 0 .. MaxCrashes /\ lock \subseteq Posts
  /\ post \in [Posts -> Post] /\ get \in Get
  /\ DOMAIN runs \subseteq Seq(Nat) /\ runs \in [DOMAIN runs -> Directory]

PostsOK ==
  \A r \in Posts : IF HasDirectory(post[r])
                     THEN Dir(r) \in DOMAIN runs /\ PostOK(post[r], runs[Dir(r)])
                     ELSE BareOK(post[r])

RunsOK == \A d \in DOMAIN runs : RunOK(runs[d])

\* A reader that saw exit code 0 saw a code that stays.
GetOK ==
  /\ get.stage \in {"code", "trace", "metadata"} => get.run \in DOMAIN runs
  /\ get.stage \in {"idle", "code"} => ~get.zero
  /\ get.stage \in {"trace", "metadata"} /\ get.zero => runs[get.run].code = "zero"
  /\ get.stage \in {"metadata", "served"} /\ get.zero => get.trace
  /\ get.stage = "served" /\ get.zero => get.served # "cut"

Inv == Types /\ PostsOK /\ OwnDirectories /\ RunsOK /\ GetOK

LEMMA InvImplies == Inv => TypeOK /\ OwnDirectories /\ MetadataIsHonest /\ OkMeansWhole
<1> SUFFICES ASSUME Inv PROVE TypeOK /\ MetadataIsHonest /\ OkMeansWhole BY DEF Inv
<1>1. TypeOK BY DEF Inv, Types, TypeOK
<1>2. MetadataIsHonest BY DEF Inv, GetOK, MetadataIsHonest
<1>3. OkMeansWhole
  <2> SUFFICES ASSUME NEW r \in Posts, post[r].reply = "ok"
               PROVE  runs[Dir(r)].child.file = "whole" /\ runs[Dir(r)].code = "zero"
    BY DEF OkMeansWhole
  <2>1. ~BareOK(post[r]) BY DEF BareOK
  <2>2. PostOK(post[r], runs[Dir(r)]) BY <2>1 DEF Inv, PostsOK
  <2> QED BY <2>2 DEF PostOK
<1> QED BY <1>1, <1>2, <1>3

LEMMA InvInit == Init => Inv
<1> SUFFICES ASSUME Init PROVE Inv OBVIOUS
<1>1. Unposted \in Post /\ BareOK(Unposted) /\ ~HasDirectory(Unposted)
  BY DEF Unposted, Post, Stages, Replies, BareOK, HasDirectory, IsServed
<1>2. RunOK(NewDirectory)
  BY DEF NewDirectory, NotBorn, Born, RunOK, Directory, Codes, ChildOK, Children, Files, Exits, Still, Outcomes
<1>3. NotReading \in Get BY DEF NotReading, Get, Files
<1>4. Types
  <2>1. NewDirectory \in Directory BY <1>2 DEF RunOK
  <2> QED BY <1>1, <1>3, <2>1, RunnerAssumption DEF Init, Types
<1>5. \A r \in Posts : post[r] = Unposted BY DEF Init
<1>6. PostsOK /\ OwnDirectories BY <1>1, <1>5 DEF PostsOK, OwnDirectories
<1>7. RunsOK BY <1>2 DEF Init, RunsOK
<1>8. GetOK BY DEF Init, GetOK, NotReading
<1> QED BY <1>4, <1>6, <1>7, <1>8 DEF Inv

-----------------------------------------------------------------------------
(* What a step may do to the directories *)

\* None disappears, and one with its exit code in its file stays as it is.
Final ==
  \A d \in DOMAIN runs : d \in DOMAIN runs' /\ (runs[d].code \in Outcomes => runs'[d] = runs[d])

LEMMA ReaderKeeps == ASSUME Inv, Final, get' = get PROVE GetOK'
<1>1. "zero" \in Outcomes BY DEF Outcomes
<1> QED BY <1>1 DEF Inv, GetOK, Final

LEMMA IdsAreSequences ==
  ASSUME Types, NEW r \in Posts PROVE Dir(r) \in Seq(Nat)
<1>1. post[r].base \in Seq(Nat) /\ post[r].suffix \in Nat BY DEF Types, Post
<1> QED BY <1>1 DEF Dir, Id

\* A request that goes on in its own directory disturbs nobody.
LEMMA OwnStep ==
  ASSUME Inv, NEW r \in Posts, HasDirectory(post[r]),
         NEW p \in Post, p.base = post[r].base, p.suffix = post[r].suffix, HasDirectory(p),
         NEW e, RunOK(e), PostOK(p, e),
         runs[Dir(r)].code \notin Outcomes,
         post' = [post EXCEPT ![r] = p], runs' = [runs EXCEPT ![Dir(r)] = e],
         UNCHANGED << up, crashes, lock, get >>
  PROVE  Inv' /\ Final
<1> DEFINE d == Dir(r)
<1>1. /\ post \in [Posts -> Post] /\ runs \in [DOMAIN runs -> Directory] /\ d \in DOMAIN runs
      /\ e \in Directory
  BY DEF Inv, Types, PostsOK, RunOK
<1>2. /\ post' \in [Posts -> Post] /\ post'[r] = p /\ \A s \in Posts \ {r} : post'[s] = post[s]
  BY <1>1
<1>3. /\ DOMAIN runs' = DOMAIN runs /\ runs' \in [DOMAIN runs' -> Directory]
      /\ runs'[d] = e /\ \A x \in DOMAIN runs \ {d} : runs'[x] = runs[x]
  BY <1>1
<1>4. \A s \in Posts : Dir(s)' = Dir(s) /\ (HasDirectory(post'[s]) <=> HasDirectory(post[s]))
  BY <1>2 DEF Dir
<1>5. Types' BY <1>2, <1>3 DEF Inv, Types
<1>6. OwnDirectories' BY <1>4 DEF Inv, OwnDirectories
<1>7. PostsOK'
  <2> SUFFICES ASSUME NEW s \in Posts
               PROVE  IF HasDirectory(post'[s])
                        THEN Dir(s)' \in DOMAIN runs' /\ PostOK(post'[s], runs'[Dir(s)'])
                        ELSE BareOK(post'[s])
    BY DEF PostsOK
  <2>1. CASE s = r BY <1>1, <1>2, <1>3, <1>4, <2>1
  <2>2. CASE s # r /\ HasDirectory(post[s])
    <3>1. Dir(s) # d BY <2>2 DEF Inv, OwnDirectories
    <3>2. Dir(s) \in DOMAIN runs /\ PostOK(post[s], runs[Dir(s)]) BY <2>2 DEF Inv, PostsOK
    <3> QED BY <1>2, <1>3, <1>4, <2>2, <3>1, <3>2
  <2>3. CASE s # r /\ ~HasDirectory(post[s]) BY <1>2, <1>4, <2>3 DEF Inv, PostsOK
  <2> QED BY <2>1, <2>2, <2>3
<1>8. RunsOK' BY <1>3 DEF Inv, RunsOK
<1>9. Final BY <1>3 DEF Final
<1>10. GetOK' BY <1>9, ReaderKeeps
<1> QED BY <1>5, <1>6, <1>7, <1>8, <1>9, <1>10 DEF Inv

\* A request that gets or keeps no directory leaves them all alone.
LEMMA BareStep ==
  ASSUME Inv, NEW r \in Posts, ~HasDirectory(post[r]),
         NEW p \in Post, ~HasDirectory(p), BareOK(p),
         post' = [post EXCEPT ![r] = p], lock' \subseteq Posts,
         UNCHANGED << up, crashes, runs, get >>
  PROVE  Inv' /\ Final
<1>1. /\ post' \in [Posts -> Post] /\ post'[r] = p /\ \A s \in Posts \ {r} : post'[s] = post[s]
  BY DEF Inv, Types
<1>2. \A s \in Posts : HasDirectory(post'[s]) => s # r /\ HasDirectory(post[s]) /\ Dir(s)' = Dir(s)
  BY <1>1 DEF Dir
<1>3. Types' BY <1>1 DEF Inv, Types
<1>4. OwnDirectories' BY <1>2 DEF Inv, OwnDirectories
<1>5. PostsOK'
  <2> SUFFICES ASSUME NEW s \in Posts
               PROVE  IF HasDirectory(post'[s])
                        THEN Dir(s)' \in DOMAIN runs' /\ PostOK(post'[s], runs'[Dir(s)'])
                        ELSE BareOK(post'[s])
    BY DEF PostsOK
  <2>1. CASE s = r BY <1>1, <2>1
  <2>2. CASE s # r BY <1>1, <1>2, <2>2 DEF Inv, PostsOK
  <2> QED BY <2>1, <2>2
<1>6. RunsOK' BY DEF Inv, RunsOK
<1>7. Final BY DEF Final
<1>8. GetOK' BY <1>7, ReaderKeeps
<1> QED BY <1>3, <1>4, <1>5, <1>6, <1>7, <1>8 DEF Inv

-----------------------------------------------------------------------------
(* The steps of a request *)

\* What Inv says of a request that is being served, and what the record of one may hold.
LEMMA Served ==
  ASSUME Inv, NEW r \in Posts
  PROVE  /\ post \in [Posts -> Post] /\ post[r] \in Post
         /\ runs \in [DOMAIN runs -> Directory]
         /\ post[r].stage \in Stages /\ post[r].base \in Seq(Nat) /\ post[r].suffix \in Nat \ {0}
         /\ ~HasDirectory(post[r]) => BareOK(post[r])
         /\ HasDirectory(post[r]) =>
              /\ Dir(r) \in DOMAIN runs /\ PostOK(post[r], runs[Dir(r)]) /\ RunOK(runs[Dir(r)])
              /\ runs[Dir(r)] \in Directory /\ ChildOK(runs[Dir(r)].child)
<1>1. post \in [Posts -> Post] /\ runs \in [DOMAIN runs -> Directory] BY DEF Inv, Types
<1>2. post[r] \in Post BY <1>1
<1> QED BY <1>1, <1>2 DEF Post, Inv, PostsOK, RunsOK, RunOK

Working == {"scenario", "launching", "waiting", "outputs", "code"}

LEMMA WorkingHasDirectory ==
  ASSUME Inv, NEW r \in Posts, post[r].stage \in Working
  PROVE  HasDirectory(post[r]) /\ runs[Dir(r)].code \notin Outcomes /\ post[r].reply = "none"
<1>1. HasDirectory(post[r]) BY DEF Working, HasDirectory, IsServed
<1>2. PostOK(post[r], runs[Dir(r)]) BY <1>1, Served
<1>3. "absent" \notin Outcomes BY DEF Outcomes
<1> QED BY <1>1, <1>2, <1>3 DEF PostOK, Working

LEMMA RefuseKeeps == ASSUME Inv, NEW r \in Posts, Refuse(r) PROVE Inv' /\ Final
<1> DEFINE p == [post[r] EXCEPT !.stage = "answered", !.outcome = "none", !.reply = "unrun"]
<1>1. post[r].stage = "idle" /\ post[r] \in Post BY Served DEF Refuse, At
<1>2. ~HasDirectory(post[r]) BY <1>1 DEF HasDirectory, IsServed
<1>3. p \in Post /\ ~HasDirectory(p) /\ BareOK(p)
  BY <1>1 DEF Post, Stages, Replies, HasDirectory, IsServed, BareOK
<1>4. post' = [post EXCEPT ![r] = p] BY Served DEF Refuse, Answer
<1> HIDE DEF p
<1>5. lock' \subseteq Posts BY DEF Refuse, Inv, Types
<1> QED BY <1>2, <1>3, <1>4, <1>5, BareStep DEF Refuse

LEMMA MakeFailsKeeps == ASSUME Inv, NEW r \in Posts, MakeFails(r) PROVE Inv' /\ Final
<1> DEFINE p == [post[r] EXCEPT !.stage = "answered", !.outcome = "none", !.reply = "unrun"]
<1>1. post[r].stage = "making" /\ post[r] \in Post BY Served DEF MakeFails, At
<1>2. ~HasDirectory(post[r]) BY <1>1 DEF HasDirectory, IsServed
<1>3. p \in Post /\ ~HasDirectory(p) /\ BareOK(p)
  BY <1>1 DEF Post, Stages, Replies, HasDirectory, IsServed, BareOK
<1>4. post' = [post EXCEPT ![r] = p] BY Served DEF MakeFails, Answer
<1> HIDE DEF p
<1> QED BY <1>2, <1>3, <1>4, BareStep DEF MakeFails

LEMMA AcceptKeeps == ASSUME Inv, NEW r \in Posts, NEW name \in Names, Accept(r, name) PROVE Inv' /\ Final
<1> DEFINE p == [post[r] EXCEPT !.stage = "locking", !.base = name]
<1>1. post[r].stage = "idle" /\ post[r] \in Post BY Served DEF Accept, At
<1>2. ~HasDirectory(post[r]) /\ BareOK(post[r]) BY <1>1, Served DEF HasDirectory, IsServed
<1>3. name \in Seq(Nat) BY RunnerAssumption
<1>4. p \in Post /\ ~HasDirectory(p) /\ BareOK(p)
  BY <1>1, <1>2, <1>3 DEF Post, Stages, HasDirectory, IsServed, BareOK
<1>5. post' = [post EXCEPT ![r] = p] BY Served DEF Accept
<1> HIDE DEF p
<1>6. lock' \subseteq Posts BY DEF Accept, Inv, Types
<1> QED BY <1>2, <1>4, <1>5, <1>6, BareStep DEF Accept

LEMMA AcquireLockKeeps == ASSUME Inv, NEW r \in Posts, AcquireLock(r) PROVE Inv' /\ Final
<1> DEFINE p == [post[r] EXCEPT !.stage = "making"]
<1>1. post[r].stage = "locking" /\ post[r] \in Post BY Served DEF AcquireLock, At
<1>2. ~HasDirectory(post[r]) /\ BareOK(post[r]) BY <1>1, Served DEF HasDirectory, IsServed
<1>3. p \in Post /\ ~HasDirectory(p) /\ BareOK(p)
  BY <1>1, <1>2 DEF Post, Stages, HasDirectory, IsServed, BareOK
<1>4. post' = [post EXCEPT ![r] = p] BY Served DEF AcquireLock, Go
<1> HIDE DEF p
<1> QED BY <1>2, <1>3, <1>4, BareStep DEF AcquireLock

LEMMA TryNextKeeps == ASSUME Inv, NEW r \in Posts, TryNext(r) PROVE Inv' /\ Final
<1> DEFINE p == [post[r] EXCEPT !.suffix = @ + 1]
<1>1. post[r].stage = "making" /\ post[r] \in Post BY Served DEF TryNext, At
<1>2. ~HasDirectory(post[r]) /\ BareOK(post[r]) BY <1>1, Served DEF HasDirectory, IsServed
<1>3. p \in Post /\ ~HasDirectory(p) /\ BareOK(p)
  BY <1>1, <1>2 DEF Post, HasDirectory, IsServed, BareOK
<1>4. post' = [post EXCEPT ![r] = p] BY Served DEF TryNext
<1> HIDE DEF p
<1>5. lock' \subseteq Posts BY DEF TryNext, Inv, Types
<1> QED BY <1>2, <1>3, <1>4, <1>5, BareStep DEF TryNext

\* mkdir made the directory, so that it was nobody's before.
LEMMA MakeDirectoryKeeps == ASSUME Inv, NEW r \in Posts, MakeDirectory(r) PROVE Inv' /\ Final
<1> DEFINE d == Dir(r)
           p == [post[r] EXCEPT !.stage = "scenario"]
<1>1. post[r].stage = "making" /\ post[r] \in Post /\ d \notin DOMAIN runs
  BY Served DEF MakeDirectory, At, Exists
<1>2. ~HasDirectory(post[r]) /\ BareOK(post[r]) BY <1>1, Served DEF HasDirectory, IsServed
<1>3. RunOK(NewDirectory) /\ NewDirectory \in Directory
  BY DEF NewDirectory, NotBorn, Born, RunOK, Directory, Codes, ChildOK, Children, Files, Exits, Still, Outcomes
<1>4. p \in Post /\ HasDirectory(p) /\ PostOK(p, NewDirectory)
  BY <1>1, <1>2 DEF Post, Stages, HasDirectory, IsServed, BareOK, PostOK, NewDirectory, NotBorn, Born
<1>5. post' = [post EXCEPT ![r] = p] BY Served DEF MakeDirectory, Go
<1>6. /\ post' \in [Posts -> Post] /\ post'[r] = p /\ \A s \in Posts \ {r} : post'[s] = post[s]
  BY <1>4, <1>5, Served
<1>7. /\ DOMAIN runs' = DOMAIN runs \cup {d} /\ runs'[d] = NewDirectory
      /\ \A x \in DOMAIN runs : runs'[x] = runs[x]
      /\ runs' \in [DOMAIN runs' -> Directory]
  BY <1>1, <1>3, Served DEF MakeDirectory
<1>8. \A s \in Posts : Dir(s)' = Dir(s)
  <2>1. p.base = post[r].base /\ p.suffix = post[r].suffix BY <1>1 DEF Post
  <2> HIDE DEF p
  <2> QED BY <1>6, <2>1 DEF Dir
<1> HIDE DEF p
<1>9. Types'
  <2>1. d \in Seq(Nat) BY IdsAreSequences DEF Inv
  <2> QED BY <1>6, <1>7, <2>1 DEF MakeDirectory, Inv, Types
<1>10. \A s \in Posts \ {r} : HasDirectory(post'[s]) => Dir(s) # d
  BY <1>1, <1>6, Served
<1>11. OwnDirectories' BY <1>6, <1>8, <1>10 DEF Inv, OwnDirectories
<1>12. PostsOK'
  <2> SUFFICES ASSUME NEW s \in Posts
               PROVE  IF HasDirectory(post'[s])
                        THEN Dir(s)' \in DOMAIN runs' /\ PostOK(post'[s], runs'[Dir(s)'])
                        ELSE BareOK(post'[s])
    BY DEF PostsOK
  <2>1. CASE s = r BY <1>4, <1>6, <1>7, <1>8, <2>1
  <2>2. CASE s # r BY <1>6, <1>7, <1>8, <2>2, Served
  <2> QED BY <2>1, <2>2
<1>13. RunsOK' BY <1>3, <1>7 DEF Inv, RunsOK
<1>14. Final BY <1>7 DEF Final
<1>15. GetOK' BY <1>14, ReaderKeeps DEF MakeDirectory
<1> QED BY <1>9, <1>11, <1>12, <1>13, <1>14, <1>15 DEF Inv

\* A request that is being run goes to another stage of its run.
LEMMA Progress ==
  ASSUME Inv, NEW r \in Posts, post[r].stage \in Working,
         NEW stage \in Working, NEW outcome \in {"none"} \cup Outcomes, NEW e, RunOK(e),
         PostOK([post[r] EXCEPT !.stage = stage, !.outcome = outcome], e),
         post' = [post EXCEPT ![r] = [post[r] EXCEPT !.stage = stage, !.outcome = outcome]],
         runs' = [runs EXCEPT ![Dir(r)] = e],
         UNCHANGED << up, crashes, lock, get >>
  PROVE  Inv' /\ Final
<1> DEFINE p == [post[r] EXCEPT !.stage = stage, !.outcome = outcome]
<1>1. post[r] \in Post BY Served
<1>2. /\ p \in Post /\ p.base = post[r].base /\ p.suffix = post[r].suffix /\ p.stage = stage
  BY <1>1 DEF Post, Working, Stages
<1> HIDE DEF p
<1>3. HasDirectory(p) BY <1>2 DEF HasDirectory, IsServed, Working
<1>4. HasDirectory(post[r]) /\ runs[Dir(r)].code \notin Outcomes BY WorkingHasDirectory
<1>5. post' = [post EXCEPT ![r] = p] /\ PostOK(p, e) BY DEF p
<1> QED BY <1>2, <1>3, <1>4, <1>5, OwnStep

\* Or is answered.
LEMMA Reply ==
  ASSUME Inv, NEW r \in Posts, post[r].stage \in Working,
         NEW reply \in {"ok", "error", "internal"}, Answer(r, reply),
         NEW e, RunOK(e), reply = "ok" => e.child.file = "whole" /\ e.code = "zero",
         runs' = [runs EXCEPT ![Dir(r)] = e],
         UNCHANGED << up, crashes, lock, get >>
  PROVE  Inv' /\ Final
<1> DEFINE p == [post[r] EXCEPT !.stage = "answered", !.outcome = "none", !.reply = reply]
<1>1. post[r] \in Post /\ post \in [Posts -> Post] BY Served
<1>2. p \in Post /\ p.base = post[r].base /\ p.suffix = post[r].suffix /\ HasDirectory(p) /\ PostOK(p, e)
  BY <1>1 DEF Post, Stages, Replies, HasDirectory, IsServed, PostOK
<1>3. post' = [post EXCEPT ![r] = p] BY <1>1 DEF Answer
<1> HIDE DEF p
<1>4. HasDirectory(post[r]) /\ runs[Dir(r)].code \notin Outcomes BY WorkingHasDirectory
<1> QED BY <1>2, <1>3, <1>4, OwnStep

\* The two ways a request is advanced, as Progress wants them.
LEMMA Advance ==
  ASSUME Inv, NEW r \in Posts
  PROVE  /\ \A stage : Go(r, stage) =>
              post' = [post EXCEPT ![r] = [post[r] EXCEPT !.stage = stage, !.outcome = post[r].outcome]]
         /\ \A outcome : Conclude(r, outcome) =>
              post' = [post EXCEPT ![r] = [post[r] EXCEPT !.stage = "outputs", !.outcome = outcome]]
         /\ runs = [runs EXCEPT ![Dir(r)] = runs[Dir(r)]]
<1>1. post \in [Posts -> Post] /\ post[r] \in Post /\ runs \in [DOMAIN runs -> Directory] BY Served
<1>2. ASSUME NEW stage, Go(r, stage)
      PROVE  post' = [post EXCEPT ![r] = [post[r] EXCEPT !.stage = stage, !.outcome = post[r].outcome]]
  <2>1. [post[r] EXCEPT !.stage = stage] = [post[r] EXCEPT !.stage = stage, !.outcome = post[r].outcome]
    BY <1>1 DEF Post
  <2>2. post' = [post EXCEPT ![r] = [post[r] EXCEPT !.stage = stage]] BY <1>1, <1>2 DEF Go
  <2> QED BY <2>1, <2>2
<1>3. ASSUME NEW outcome, Conclude(r, outcome)
      PROVE  post' = [post EXCEPT ![r] = [post[r] EXCEPT !.stage = "outputs", !.outcome = outcome]]
  BY <1>1, <1>3 DEF Conclude
<1>4. runs = [runs EXCEPT ![Dir(r)] = runs[Dir(r)]] BY <1>1
<1> QED BY <1>2, <1>3, <1>4

LEMMA WriteScenarioKeeps == ASSUME Inv, NEW r \in Posts, WriteScenario(r) PROVE Inv' /\ Final
<1> DEFINE e == [runs[Dir(r)] EXCEPT !.options = TRUE]
<1>1. post[r].stage = "scenario" /\ post[r].stage \in Working BY DEF WriteScenario, At, Working
<1>2. PostOK(post[r], runs[Dir(r)]) /\ RunOK(runs[Dir(r)]) /\ runs[Dir(r)] \in Directory
  BY <1>1, WorkingHasDirectory, Served
<1>3. RunOK(e) BY <1>2 DEF RunOK, Directory
<1>4. post[r].outcome \in {"none"} /\ post[r] \in Post BY <1>1, <1>2, Served DEF PostOK
<1>5. PostOK([post[r] EXCEPT !.stage = "launching", !.outcome = post[r].outcome], e)
  BY <1>1, <1>2, <1>4 DEF PostOK, Post, Directory
<1>6. runs' = [runs EXCEPT ![Dir(r)] = e] BY Served DEF WriteScenario
<1>7. post' = [post EXCEPT ![r] = [post[r] EXCEPT !.stage = "launching", !.outcome = post[r].outcome]]
  BY Advance DEF WriteScenario
<1> HIDE DEF e
<1> QED BY <1>1, <1>3, <1>4, <1>5, <1>6, <1>7, Progress DEF WriteScenario, Working

LEMMA LaunchKeeps == ASSUME Inv, NEW r \in Posts, Launch(r) PROVE Inv' /\ Final
<1> DEFINE e == [runs[Dir(r)] EXCEPT !.child = Born(TRUE)]
<1>1. post[r].stage = "launching" /\ post[r].stage \in Working BY DEF Launch, At, Working
<1>2. /\ PostOK(post[r], runs[Dir(r)]) /\ RunOK(runs[Dir(r)]) /\ runs[Dir(r)] \in Directory
      /\ runs[Dir(r)].code \notin Outcomes
  BY <1>1, WorkingHasDirectory, Served
<1>3. ChildOK(Born(TRUE)) /\ Born(TRUE).wanted BY DEF ChildOK, Born, Children, Files, Exits
<1>4. e \in Directory /\ e.child = Born(TRUE) /\ e.code = runs[Dir(r)].code
  BY <1>2, <1>3 DEF Directory, ChildOK
<1>5. RunOK(e) BY <1>2, <1>3, <1>4 DEF RunOK, Outcomes
<1>6. post[r].outcome \in {"none"} /\ post[r] \in Post BY <1>1, <1>2, Served DEF PostOK
<1>7. PostOK([post[r] EXCEPT !.stage = "waiting", !.outcome = post[r].outcome], e)
  BY <1>1, <1>2, <1>3, <1>4, <1>6 DEF PostOK, Post
<1>8. runs' = [runs EXCEPT ![Dir(r)] = e] BY Served DEF Launch
<1>9. post' = [post EXCEPT ![r] = [post[r] EXCEPT !.stage = "waiting", !.outcome = post[r].outcome]]
  BY Advance DEF Launch
<1> HIDE DEF e
<1> QED BY <1>1, <1>5, <1>6, <1>7, <1>8, <1>9, Progress DEF Launch, Working

\* However the simulation went, its child is still from then on.
LEMMA ConcludeKeeps ==
  ASSUME Inv, NEW r \in Posts, post[r].stage \in Working,
         NEW outcome \in Outcomes, Conclude(r, outcome),
         NEW c, ChildOK(c), Still(c), outcome = "zero" => c.wanted /\ c.exit = "zero",
         runs' = [runs EXCEPT ![Dir(r)] = [runs[Dir(r)] EXCEPT !.child = c]],
         UNCHANGED << up, crashes, lock, get >>
  PROVE  Inv' /\ Final
<1> DEFINE e == [runs[Dir(r)] EXCEPT !.child = c]
<1>1. /\ PostOK(post[r], runs[Dir(r)]) /\ RunOK(runs[Dir(r)]) /\ runs[Dir(r)] \in Directory
      /\ runs[Dir(r)].code \notin Outcomes /\ post[r] \in Post /\ post[r].reply = "none"
  BY WorkingHasDirectory, Served
<1>2. e \in Directory /\ e.child = c /\ e.code = runs[Dir(r)].code
  BY <1>1 DEF Directory, ChildOK
<1>3. RunOK(e) BY <1>1, <1>2 DEF RunOK, Outcomes
<1>4. PostOK([post[r] EXCEPT !.stage = "outputs", !.outcome = outcome], e)
  BY <1>1, <1>2 DEF PostOK, Post
<1>5. post' = [post EXCEPT ![r] = [post[r] EXCEPT !.stage = "outputs", !.outcome = outcome]]
  BY Advance
<1>6. runs' = [runs EXCEPT ![Dir(r)] = e] OBVIOUS
<1> HIDE DEF e
<1> QED BY <1>3, <1>4, <1>5, <1>6, Progress DEF Working

LEMMA SameChild ==
  ASSUME Inv, NEW r \in Posts, post[r].stage \in Working
  PROVE  /\ runs = [runs EXCEPT ![Dir(r)] = [runs[Dir(r)] EXCEPT !.child = runs[Dir(r)].child]]
         /\ ChildOK(runs[Dir(r)].child) /\ RunOK(runs[Dir(r)]) /\ PostOK(post[r], runs[Dir(r)])
<1>1. runs[Dir(r)] \in Directory /\ RunOK(runs[Dir(r)]) /\ PostOK(post[r], runs[Dir(r)])
  BY WorkingHasDirectory, Served
<1>2. [runs[Dir(r)] EXCEPT !.child = runs[Dir(r)].child] = runs[Dir(r)] BY <1>1 DEF Directory
<1>3. runs = [runs EXCEPT ![Dir(r)] = runs[Dir(r)]] BY Advance
<1> QED BY <1>1, <1>2, <1>3 DEF RunOK

LEMMA NotLaunchedKeeps == ASSUME Inv, NEW r \in Posts, NotLaunched(r) PROVE Inv' /\ Final
<1>1. post[r].stage = "launching" /\ post[r].stage \in Working BY DEF NotLaunched, At, Working
<1>2. Still(runs[Dir(r)].child) BY <1>1, SameChild DEF PostOK, Still
<1>3. "not returned" \in Outcomes /\ "not returned" # "zero" BY DEF Outcomes
<1> QED BY <1>1, <1>2, <1>3, SameChild, ConcludeKeeps DEF NotLaunched

LEMMA ChildEndsKeeps == ASSUME Inv, NEW r \in Posts, ChildEnds(r) PROVE Inv' /\ Final
<1> DEFINE c == runs[Dir(r)].child
           outcome == IF c.exit = "zero" THEN "zero" ELSE "nonzero"
<1>1. post[r].stage = "waiting" /\ post[r].stage \in Working BY DEF ChildEnds, At, Working
<1>2. c.wanted BY <1>1, SameChild DEF PostOK
<1>3. Still(c) /\ (outcome = "zero" => c.wanted /\ c.exit = "zero") BY <1>2 DEF ChildEnds, Still
<1>4. outcome \in Outcomes /\ Conclude(r, outcome) BY DEF Outcomes, ChildEnds
<1>5. ChildOK(c) /\ runs' = [runs EXCEPT ![Dir(r)] = [runs[Dir(r)] EXCEPT !.child = c]]
  BY <1>1, SameChild DEF ChildEnds
<1> HIDE DEF c, outcome
<1> QED BY <1>1, <1>3, <1>4, <1>5, ConcludeKeeps DEF ChildEnds

LEMMA TimeoutKeeps == ASSUME Inv, NEW r \in Posts, Timeout(r) PROVE Inv' /\ Final
<1> DEFINE b == runs[Dir(r)].child
           c == IF b.exit = "running" THEN Killed(b) ELSE b
<1>1. post[r].stage = "waiting" /\ post[r].stage \in Working BY DEF Timeout, At, Working
<1>2. b.wanted /\ ChildOK(b) BY <1>1, SameChild DEF PostOK
<1>3. ChildOK(c) /\ Still(c) BY <1>2 DEF ChildOK, Still, Killed, Children, Exits
<1>4. "not returned" \in Outcomes /\ "not returned" # "zero" BY DEF Outcomes
<1>5. runs' = [runs EXCEPT ![Dir(r)] = [runs[Dir(r)] EXCEPT !.child = c]] BY DEF Timeout
<1> HIDE DEF c
<1> QED BY <1>1, <1>3, <1>4, <1>5, ConcludeKeeps DEF Timeout

LEMMA WriteOutputsKeeps == ASSUME Inv, NEW r \in Posts, WriteOutputs(r) PROVE Inv' /\ Final
<1> DEFINE e == [runs[Dir(r)] EXCEPT !.code = "empty"]
<1>1. post[r].stage = "outputs" /\ post[r].stage \in Working BY DEF WriteOutputs, At, Working
<1>2. /\ PostOK(post[r], runs[Dir(r)]) /\ RunOK(runs[Dir(r)]) /\ runs[Dir(r)] \in Directory
      /\ post[r] \in Post /\ post[r].reply = "none"
  BY <1>1, WorkingHasDirectory, Served
<1>3. e \in Directory /\ e.child = runs[Dir(r)].child /\ e.code = "empty" /\ "empty" \notin Outcomes
  BY <1>2 DEF Directory, Codes, Outcomes
<1>4. RunOK(e) BY <1>2, <1>3 DEF RunOK
<1>5. post[r].outcome \in Outcomes BY <1>1, <1>2 DEF PostOK
<1>6. PostOK([post[r] EXCEPT !.stage = "code", !.outcome = post[r].outcome], e)
  BY <1>1, <1>2, <1>3, <1>5 DEF PostOK, Post
<1>7. runs' = [runs EXCEPT ![Dir(r)] = e] BY DEF WriteOutputs
<1>8. post' = [post EXCEPT ![r] = [post[r] EXCEPT !.stage = "code", !.outcome = post[r].outcome]]
  BY Advance DEF WriteOutputs
<1> HIDE DEF e
<1> QED BY <1>1, <1>4, <1>5, <1>6, <1>7, <1>8, Progress DEF WriteOutputs, Working

\* The directory of a simulation when its code has been written.
LEMMA Coded ==
  ASSUME Inv, NEW r \in Posts, post[r].stage = "code"
  PROVE  /\ post[r].stage \in Working
         /\ RunOK([runs[Dir(r)] EXCEPT !.code = post[r].outcome])
         /\ Passes(post[r].outcome, runs[Dir(r)].child) =>
              runs[Dir(r)].child.file = "whole" /\ post[r].outcome = "zero"
<1> DEFINE e == [runs[Dir(r)] EXCEPT !.code = post[r].outcome]
<1>1. post[r].stage \in Working BY DEF Working
<1>2. /\ PostOK(post[r], runs[Dir(r)]) /\ RunOK(runs[Dir(r)]) /\ runs[Dir(r)] \in Directory
      /\ ChildOK(runs[Dir(r)].child)
  BY <1>1, WorkingHasDirectory, Served
<1>3. /\ Still(runs[Dir(r)].child) /\ post[r].outcome \in Outcomes
      /\ post[r].outcome = "zero" => runs[Dir(r)].child.wanted /\ runs[Dir(r)].child.exit = "zero"
  BY <1>2 DEF PostOK
<1>4. e \in Directory /\ e.child = runs[Dir(r)].child /\ e.code = post[r].outcome
  BY <1>2, <1>3 DEF Directory, Codes
<1>5. RunOK(e) BY <1>2, <1>3, <1>4 DEF RunOK
<1>6. Passes(post[r].outcome, runs[Dir(r)].child) =>
        runs[Dir(r)].child.file = "whole" /\ post[r].outcome = "zero"
  BY <1>2, <1>3 DEF Passes, IsJson, ChildOK
<1> QED BY <1>1, <1>5, <1>6

LEMMA WriteCodeKeeps == ASSUME Inv, NEW r \in Posts, WriteCode(r) PROVE Inv' /\ Final
<1> DEFINE e == [runs[Dir(r)] EXCEPT !.code = post[r].outcome]
           reply == IF Passes(post[r].outcome, runs[Dir(r)].child) THEN "ok" ELSE "error"
<1>1. post[r].stage = "code" BY DEF WriteCode, At
<1>2. runs[Dir(r)] \in Directory BY <1>1, Coded, WorkingHasDirectory, Served
<1>3. e.child = runs[Dir(r)].child /\ e.code = post[r].outcome BY <1>2 DEF Directory
<1>4. RunOK(e) /\ post[r].stage \in Working BY <1>1, Coded
<1>5. reply = "ok" => e.child.file = "whole" /\ e.code = "zero" BY <1>1, <1>3, Coded
<1>6. reply \in {"ok", "error", "internal"} /\ Answer(r, reply) BY DEF WriteCode
<1>7. runs' = [runs EXCEPT ![Dir(r)] = e] BY DEF WriteCode
<1> HIDE DEF e, reply
<1> QED BY <1>4, <1>5, <1>6, <1>7, Reply DEF WriteCode

LEMMA CheckFailsKeeps == ASSUME Inv, NEW r \in Posts, CheckFails(r) PROVE Inv' /\ Final
<1> DEFINE e == [runs[Dir(r)] EXCEPT !.code = post[r].outcome]
<1>1. post[r].stage = "code" /\ post[r].outcome = "zero" BY DEF CheckFails, At
<1>2. RunOK(e) /\ post[r].stage \in Working BY <1>1, Coded
<1>3. runs' = [runs EXCEPT ![Dir(r)] = e] BY <1>1 DEF CheckFails
<1> HIDE DEF e
<1>4. Answer(r, "internal") /\ "internal" # "ok" BY DEF CheckFails
<1> QED BY <1>2, <1>3, <1>4, Reply DEF CheckFails

LEMMA WriteFailsKeeps == ASSUME Inv, NEW r \in Posts, WriteFails(r) PROVE Inv' /\ Final
<1>1. post[r].stage \in Working BY DEF WriteFails, Working
<1>2. UNCHANGED << up, crashes, lock, runs, get >> BY DEF WriteFails
<1>3. CASE post[r].outcome \in {"zero", "nonzero"}
  <2>1. Conclude(r, "not returned") BY <1>3 DEF WriteFails
  <2>2. Still(runs[Dir(r)].child)
    <3>1. post[r].outcome # "none" BY <1>3
    <3> QED BY <1>1, <3>1, SameChild DEF WriteFails, PostOK
  <2>3. "not returned" \in Outcomes /\ "not returned" # "zero" BY DEF Outcomes
  <2> QED BY <1>1, <1>2, <2>1, <2>2, <2>3, SameChild, ConcludeKeeps
<1>4. CASE post[r].outcome \notin {"zero", "nonzero"}
  <2>1. Answer(r, "internal") /\ "internal" # "ok" BY <1>4 DEF WriteFails
  <2>2. RunOK(runs[Dir(r)]) BY <1>1, SameChild
  <2>3. runs' = [runs EXCEPT ![Dir(r)] = runs[Dir(r)]] BY <1>2, Advance
  <2> QED BY <1>1, <1>2, <2>1, <2>2, <2>3, Reply
<1> QED BY <1>3, <1>4

-----------------------------------------------------------------------------
(* Children and the server *)

\* A child may go on when its server is long dead; it is never one that is still.
LEMMA ChildMovesKeeps ==
  ASSUME Inv, NEW d \in DOMAIN runs, ChildMoves(d) PROVE Inv' /\ Final
<1> DEFINE b == runs[d].child
<1>1. PICK c \in Moves(b) : runs' = [runs EXCEPT ![d].child = c] BY DEF ChildMoves
<1> DEFINE e == [runs[d] EXCEPT !.child = c]
<1>2. RunOK(runs[d]) /\ runs[d] \in Directory /\ ChildOK(b) /\ b \in Children
  BY DEF Inv, RunsOK, RunOK, ChildOK
<1>3. b.wanted /\ b.exit = "running" BY <1>1 DEF ChildMoves, IsBorn, Moves
<1>4. ChildOK(c) /\ c.wanted
  <2>1. CASE \E f \in Grows(b) : c = [b EXCEPT !.file = f]
    BY <1>2, <1>3, <2>1 DEF ChildOK, Children, Grows, Files, Exits
  <2>2. CASE \E x \in Ends(b) : c = [b EXCEPT !.exit = x]
    BY <1>2, <1>3, <2>2 DEF ChildOK, Children, Ends, Files, Exits
  <2> QED BY <1>1, <1>3, <2>1, <2>2 DEF Moves
<1>5. e \in Directory /\ e.child = c /\ e.code = runs[d].code BY <1>2, <1>4 DEF Directory, ChildOK
<1>6. runs[d].code \notin Outcomes BY <1>2, <1>3 DEF RunOK, Still
<1>7. RunOK(e) BY <1>2, <1>4, <1>5, <1>6 DEF RunOK, Outcomes
<1>8. runs \in [DOMAIN runs -> Directory] BY DEF Inv, Types
<1>9. /\ DOMAIN runs' = DOMAIN runs /\ runs' \in [DOMAIN runs' -> Directory] /\ runs'[d] = e
      /\ \A x \in DOMAIN runs \ {d} : runs'[x] = runs[x]
  BY <1>1, <1>5, <1>8
<1>10. UNCHANGED << up, crashes, lock, post, get >> BY DEF ChildMoves
<1>11. \A s \in Posts : Dir(s)' = Dir(s) BY <1>10 DEF Dir
<1> HIDE DEF e
<1>12. Types' BY <1>9, <1>10 DEF Inv, Types
<1>13. OwnDirectories' BY <1>10, <1>11 DEF Inv, OwnDirectories
<1>14. PostsOK'
  <2> SUFFICES ASSUME NEW s \in Posts
               PROVE  IF HasDirectory(post[s])
                        THEN Dir(s) \in DOMAIN runs' /\ PostOK(post[s], runs'[Dir(s)])
                        ELSE BareOK(post[s])
    BY <1>10, <1>11 DEF PostsOK
  <2>1. CASE ~HasDirectory(post[s]) BY <2>1, Served
  <2>2. CASE HasDirectory(post[s]) /\ Dir(s) # d BY <1>9, <2>2, Served
  <2>3. CASE HasDirectory(post[s]) /\ Dir(s) = d
    <3>1. PostOK(post[s], runs[d]) BY <2>3, Served
    <3>2. post[s].reply # "ok" BY <1>6, <3>1 DEF PostOK, Outcomes
    <3>3. post[s].stage \notin {"outputs", "code", "scenario", "launching"}
      BY <1>3, <3>1 DEF PostOK, Still
    <3>4. PostOK(post[s], e) BY <1>4, <1>5, <3>1, <3>2, <3>3 DEF PostOK
    <3> QED BY <1>9, <2>3, <3>4
  <2> QED BY <2>1, <2>2, <2>3
<1>15. RunsOK' BY <1>7, <1>9 DEF Inv, RunsOK
<1>16. Final BY <1>6, <1>9 DEF Final
<1>17. GetOK' BY <1>10, <1>16, ReaderKeeps
<1> QED BY <1>12, <1>13, <1>14, <1>15, <1>16, <1>17 DEF Inv

LEMMA CrashKeeps == ASSUME Inv, Crash PROVE Inv' /\ Final
<1>1. UNCHANGED runs /\ lock' = {} /\ get' = NotReading BY DEF Crash
<1>2. Lost \in Post /\ ~HasDirectory(Lost) /\ BareOK(Lost)
  <2>1. Lost = [stage |-> "lost", base |-> << >>, suffix |-> 1, outcome |-> "none", reply |-> "none"]
    BY DEF Lost, Unposted
  <2>2. << >> \in Seq(Nat) OBVIOUS
  <2>3. Lost \in Post BY <2>1, <2>2 DEF Post, Stages, Replies
  <2> QED BY <2>1, <2>3 DEF HasDirectory, IsServed, BareOK
<1>3. /\ post' \in [Posts -> Post]
      /\ \A r \in Posts : post'[r] = IF IsServed(post[r]) THEN Lost ELSE post[r]
  BY <1>2, Served DEF Crash
<1>4. \A r \in Posts : HasDirectory(post'[r]) =>
        post'[r] = post[r] /\ HasDirectory(post[r]) /\ Dir(r)' = Dir(r)
  BY <1>2, <1>3 DEF Dir
<1>5. \A r \in Posts : ~HasDirectory(post'[r]) => BareOK(post'[r])
  <2> SUFFICES ASSUME NEW r \in Posts, ~HasDirectory(post'[r]) PROVE BareOK(post'[r]) OBVIOUS
  <2>1. CASE IsServed(post[r]) BY <1>2, <1>3, <2>1
  <2>2. CASE ~IsServed(post[r]) BY <1>3, <2>2, Served
  <2> QED BY <2>1, <2>2
<1>6. NotReading \in Get BY DEF NotReading, Get, Files
<1>7. up' \in BOOLEAN BY DEF Crash
<1>7a. crashes' \in 0 .. MaxCrashes
  <2>1. crashes \in 0 .. MaxCrashes /\ crashes < MaxCrashes /\ crashes' = crashes + 1
    BY DEF Crash, Inv, Types
  <2> QED BY <2>1, RunnerAssumption
<1>8. Types' BY <1>1, <1>3, <1>6, <1>7, <1>7a DEF Inv, Types
<1>9. OwnDirectories' BY <1>4 DEF Inv, OwnDirectories
<1>10. PostsOK' BY <1>1, <1>4, <1>5, Served DEF PostsOK
<1>11. RunsOK' /\ Final BY <1>1 DEF Inv, RunsOK, Final
<1>12. GetOK' BY <1>1 DEF GetOK, NotReading
<1> QED BY <1>8, <1>9, <1>10, <1>11, <1>12 DEF Inv

\* A step that changes neither requests nor directories.
LEMMA Elsewhere ==
  ASSUME Inv, UNCHANGED << crashes, lock, post, runs >>, up' \in BOOLEAN, get' \in Get, GetOK'
  PROVE  Inv' /\ Final
<1>1. Types' BY DEF Inv, Types
<1>2. \A r \in Posts : Dir(r)' = Dir(r) BY DEF Dir
<1>3. OwnDirectories' BY <1>2 DEF Inv, OwnDirectories
<1>4. PostsOK' BY <1>2 DEF Inv, PostsOK
<1>5. RunsOK' /\ Final BY DEF Inv, RunsOK, Final
<1> QED BY <1>1, <1>3, <1>4, <1>5 DEF Inv

-----------------------------------------------------------------------------
(* Readers *)

LEMMA ListKeeps == ASSUME Inv, NEW d \in DOMAIN runs, List(d) PROVE Inv' /\ Final
<1>1. get' = [NotReading EXCEPT !.stage = "code", !.run = d] BY DEF List, Following
<1>2. d \in Seq(Nat) BY DEF Inv, Types
<1>3. get' \in Get BY <1>1, <1>2 DEF NotReading, Get, Files
<1>4. GetOK' BY <1>1 DEF List, GetOK, NotReading
<1> QED BY <1>3, <1>4, Elsewhere DEF List, Inv, Types

LEMMA ReadCodeKeeps == ASSUME Inv, ReadCode PROVE Inv' /\ Final
<1>1. get \in Get /\ get.stage = "code" BY DEF ReadCode, Reads, Inv, Types
<1>2. get' = [get EXCEPT !.stage = "trace", !.zero = (runs[get.run].code = "zero")]
  BY <1>1 DEF ReadCode, Following
<1>3. get' \in Get BY <1>1, <1>2 DEF Get
<1>4. GetOK' BY <1>1, <1>2 DEF ReadCode, Reads, Inv, GetOK, Get
<1> QED BY <1>3, <1>4, Elsewhere DEF ReadCode, Reads, Inv, Types

\* Exit code 0 was read: the child had made its trace by then.
LEMMA ReadTraceExistsKeeps == ASSUME Inv, ReadTraceExists PROVE Inv' /\ Final
<1>1. get \in Get /\ get.stage = "trace" BY DEF ReadTraceExists, Reads, Inv, Types
<1>2. get' = [get EXCEPT !.stage = "metadata", !.trace = (runs[get.run].child.file # "absent")]
  BY <1>1 DEF ReadTraceExists, Following
<1>3. get' \in Get BY <1>1, <1>2 DEF Get
<1>4. get.zero => runs[get.run].child.file # "absent"
  BY <1>1 DEF Inv, GetOK, RunsOK, RunOK, ChildOK
<1>5. GetOK' BY <1>1, <1>2, <1>4 DEF ReadTraceExists, Reads, Inv, GetOK, Get
<1> QED BY <1>3, <1>5, Elsewhere DEF ReadTraceExists, Reads, Inv, Types

LEMMA ServeTraceKeeps == ASSUME Inv, ServeTrace PROVE Inv' /\ Final
<1>1. get \in Get /\ get.stage = "metadata" BY DEF ServeTrace, Reads, Inv, Types
<1>2. get' = [get EXCEPT !.stage = "served", !.run = << >>, !.served = runs[get.run].child.file]
  BY <1>1 DEF ServeTrace, Following
<1>3. ChildOK(runs[get.run].child) BY <1>1 DEF Inv, GetOK, RunsOK, RunOK
<1>4. get' \in Get
  <2>1. runs[get.run].child.file \in Files BY <1>3 DEF ChildOK, Children
  <2>2. << >> \in Seq(Nat) OBVIOUS
  <2> QED BY <1>1, <1>2, <2>1, <2>2 DEF Get
<1>5. get.zero => get.trace /\ runs[get.run].child.file # "cut"
  BY <1>1, <1>3 DEF Inv, GetOK, RunsOK, RunOK, ChildOK
<1>6. GetOK' BY <1>1, <1>2, <1>5 DEF GetOK, Get
<1> QED BY <1>4, <1>6, Elsewhere DEF ServeTrace, Reads, Inv, Types

LEMMA ReadAgainKeeps == ASSUME Inv, ReadAgain PROVE Inv' /\ Final
<1>1. get' = NotReading BY DEF ReadAgain
<1>2. get' \in Get /\ GetOK' BY <1>1 DEF NotReading, Get, Files, GetOK
<1> QED BY <1>2, Elsewhere DEF ReadAgain, Reads, Inv, Types

-----------------------------------------------------------------------------
(* The theorems *)

LEMMA InvNext == Inv /\ [Next]_vars => Inv' /\ Final
<1> SUFFICES ASSUME Inv, [Next]_vars PROVE Inv' /\ Final OBVIOUS
<1>1. ASSUME NEW r \in Posts, Handle(r) PROVE Inv' /\ Final
  BY <1>1, AcquireLockKeeps, TryNextKeeps, MakeDirectoryKeeps, MakeFailsKeeps, WriteScenarioKeeps,
     NotLaunchedKeeps, LaunchKeeps, ChildEndsKeeps, TimeoutKeeps, WriteOutputsKeeps, WriteCodeKeeps,
     CheckFailsKeeps, WriteFailsKeeps
  DEF Handle
<1>2. CASE Restart \/ Quiet \/ UNCHANGED vars
  <2>1. UNCHANGED << crashes, lock, post, runs, get >> /\ up' \in BOOLEAN
    BY <1>2 DEF Restart, Quiet, vars, Inv, Types
  <2>2. GetOK' /\ get' \in Get BY <2>1 DEF Inv, GetOK, Types
  <2> QED BY <2>1, <2>2, Elsewhere
<1> QED
  BY <1>1, <1>2, RefuseKeeps, AcceptKeeps, ListKeeps, ChildMovesKeeps, ReadCodeKeeps,
     ReadTraceExistsKeeps, ServeTraceKeeps, ReadAgainKeeps, CrashKeeps
  DEF Next

\* Inductive: every request's stage agrees with the directory it owns, whichever steps the
\* other requests, the children, the readers and a crash take in between.
THEOREM RunnerInvariant == Spec => []Inv
  BY InvInit, InvNext, PTL DEF Spec

\* ensure_unique_run_dir: OwnDirectories, whatever the requests are called, whatever an
\* earlier server left and however often this one dies.
THEOREM OwnDirectoriesTheorem == Spec => []OwnDirectories
  BY RunnerInvariant, InvImplies, PTL

\* execute_run's checks: OkMeansWhole, although a write may be lost and an OSError after
\* the child's return takes the request back to writing its files.
THEOREM OkMeansWholeTheorem == Spec => []OkMeansWhole
  BY RunnerInvariant, InvImplies, PTL

\* run_metadata's order of reading: MetadataIsHonest, with the run going on between the reads.
THEOREM MetadataIsHonestTheorem == Spec => []MetadataIsHonest
  BY RunnerInvariant, InvImplies, PTL

\* The child is gone before its code is written: EndedRunsAreFinal.
THEOREM EndedRunsAreFinalTheorem == Spec => EndedRunsAreFinal
<1>1. Inv /\ [Next]_vars => [\A d \in DOMAIN runs : runs[d].code \in Outcomes => runs'[d] = runs[d]]_vars
  BY InvNext DEF Final
<1> QED BY <1>1, RunnerInvariant, PTL DEF Spec, EndedRunsAreFinal

\* TypeOK, for any number of requests and directories.
THEOREM RunnerTypes == Spec => []TypeOK
  BY RunnerInvariant, InvImplies, PTL

=============================================================================
