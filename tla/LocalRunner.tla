---------------------------- MODULE LocalRunner ----------------------------
(***************************************************************************)
(* tools/local-runner/server.py: requests that each run battle_sim in a    *)
(* directory of their own, and readers of what is in the directories.      *)
(*                                                                         *)
(* The server has a thread for every request.  A step is what another      *)
(* thread or process can see happen: a directory made, a file opened (it   *)
(* is empty then) or filled, the child launched, ended or killed, one file *)
(* read.  A POST is one execute_run.  The server may die at any point; its *)
(* threads die with it and the children it started may live on.            *)
(*                                                                         *)
(* A run id is a sequence of the parts that make it: the second and the    *)
(* name, and a suffix if there is one.  A name may itself end in what      *)
(* looks like a suffix.                                                    *)
(***************************************************************************)
EXTENDS Naturals, Sequences, Child

CONSTANTS
  Posts,      \* POST /api/run requests
  Names,      \* what make_run_id may return for one of them
  Left,       \* ids of directories an earlier server made and then died
  MaxCrashes  \* bound on the times the server dies

ASSUME RunnerAssumption ==
  Names \subseteq Seq(Nat) /\ Left \subseteq Seq(Nat) /\ MaxCrashes \in Nat

VARIABLES
  up,         \* the server runs
  crashes,    \* how often it died
  lock,       \* who holds RUN_DIR_LOCK, a set of at most one
  post,       \* request -> its execute_run
  runs,       \* run id -> its directory
  get         \* a reader of one run: list, metadata, trace

vars == << up, crashes, lock, post, runs, get >>

\* Stages of execute_run, in their order; a request that is answered has a reply,
\* one that is lost was being served when the server died.
Stages == { "idle", "locking", "making", "scenario", "launching", "waiting", "outputs", "code",
            "answered", "lost" }

\* What execute_run knows of the simulation and puts into exit-code.txt: the code, or
\* "launch-error" or "timeout" for a simulation that did not return and "not-run" for
\* one that was not started, which nobody tells apart.
Outcomes == {"zero", "nonzero", "not returned"}

\* "unrun" is the reply to a request that got no directory, "internal" to one whose
\* files could not be written.
Replies == {"none", "ok", "error", "unrun", "internal"}

Post == [stage : Stages, base : Seq(Nat), suffix : Nat \ {0}, outcome : {"none"} \cup Outcomes,
         reply : Replies]

\* A definition named Slip... is the next one with a slip the code could have; no
\* other definition uses it.
SlipUnposted == [stage |-> "idle", base |-> << >>, suffix |-> 0, outcome |-> "none", reply |-> "none"]
Unposted == [stage |-> "idle", base |-> << >>, suffix |-> 1, outcome |-> "none", reply |-> "none"]

Lost == [Unposted EXCEPT !.stage = "lost"]

\* Whether run-options.json is there; exit-code.txt, empty while it is being written;
\* the child and its trace.json.
Codes == {"absent", "empty"} \cup Outcomes
Directory == [options : BOOLEAN, code : Codes, child : Children]

NotBorn == [Born(TRUE) EXCEPT !.wanted = FALSE]
NewDirectory == [options |-> FALSE, code |-> "absent", child |-> NotBorn]

\* A directory's child is born when it is launched; its trace is wanted from then on.
IsBorn(c) == c.wanted

\* Whether the reader was told exit code 0, was told of a trace, and what it is served.
Get == [stage : {"idle", "code", "trace", "metadata", "served"}, run : Seq(Nat),
        zero : BOOLEAN, trace : BOOLEAN, served : Files]

NotReading ==
  [stage |-> "idle", run |-> << >>, zero |-> FALSE, trace |-> FALSE, served |-> "absent"]

Init ==
  /\ up = TRUE /\ crashes = 0 /\ lock = {}
  /\ post = [r \in Posts |-> Unposted]
  /\ runs = [d \in Left |-> NewDirectory] /\ get = NotReading

\* candidate_id
Id(base, suffix) == IF suffix = 1 THEN base ELSE Append(base, suffix)
Dir(r) == Id(post[r].base, post[r].suffix)

At(r, stage) == up /\ post[r].stage = stage
Go(r, stage) == post' = [post EXCEPT ![r].stage = stage]
Answer(r, reply) ==
  post' = [post EXCEPT ![r].stage = "answered", ![r].outcome = "none", ![r].reply = reply]

-----------------------------------------------------------------------------
(* execute_run, up to the launch *)

\* normalize_run_options refuses the payload, or the run gets its name.
Refuse(r) ==
  /\ At(r, "idle") /\ Answer(r, "unrun")
  /\ UNCHANGED << up, crashes, lock, runs, get >>

Accept(r, name) ==
  /\ At(r, "idle")
  /\ post' = [post EXCEPT ![r].stage = "locking", ![r].base = name]
  /\ UNCHANGED << up, crashes, lock, runs, get >>

AcquireLock(r) ==
  /\ At(r, "locking") /\ lock = {}
  /\ lock' = {r} /\ Go(r, "making")
  /\ UNCHANGED << up, crashes, runs, get >>

SlipExists(id) == FALSE
Exists(id) == id \in DOMAIN runs

\* mkdir refuses what exists, whoever made it; then the next suffix is tried.
TryNext(r) ==
  /\ At(r, "making") /\ Exists(Dir(r))
  /\ post' = [post EXCEPT ![r].suffix = @ + 1]
  /\ UNCHANGED << up, crashes, lock, runs, get >>

MakeDirectory(r) ==
  /\ At(r, "making") /\ ~Exists(Dir(r))
  /\ runs' = [d \in DOMAIN runs \cup {Dir(r)} |-> IF d = Dir(r) THEN NewDirectory ELSE runs[d]]
  /\ lock' = {} /\ Go(r, "scenario")
  /\ UNCHANGED << up, crashes, get >>

\* Any other error of mkdir; the lock is released.
MakeFails(r) ==
  /\ At(r, "making") /\ Answer(r, "unrun") /\ lock' = {}
  /\ UNCHANGED << up, crashes, runs, get >>

\* The scenario is written and run-options.json opened; from here on the run is listed.
WriteScenario(r) ==
  /\ At(r, "scenario") /\ Go(r, "launching")
  /\ runs' = [runs EXCEPT ![Dir(r)].options = TRUE]
  /\ UNCHANGED << up, crashes, lock, get >>

\* How the simulation went is known; the output files come next, then the code.
Conclude(r, outcome) ==
  post' = [post EXCEPT ![r].stage = "outputs", ![r].outcome = outcome]

\* No executable is found, or subprocess.run raises an OSError.
NotLaunched(r) ==
  /\ At(r, "launching") /\ Conclude(r, "not returned")
  /\ UNCHANGED << up, crashes, lock, runs, get >>

-----------------------------------------------------------------------------
(* subprocess.run and what follows it *)

Launch(r) ==
  /\ At(r, "launching") /\ Go(r, "waiting")
  /\ runs' = [runs EXCEPT ![Dir(r)].child = Born(TRUE)]
  /\ UNCHANGED << up, crashes, lock, get >>

ChildEnds(r) ==
  /\ At(r, "waiting") /\ runs[Dir(r)].child.exit # "running"
  /\ Conclude(r, IF runs[Dir(r)].child.exit = "zero" THEN "zero" ELSE "nonzero")
  /\ UNCHANGED << up, crashes, lock, runs, get >>

SlipTimeout(r) == FALSE /\ At(r, "waiting") /\ UNCHANGED vars

SlipTimeoutLeaves(r) ==
  /\ At(r, "waiting") /\ Conclude(r, "not returned")
  /\ UNCHANGED << up, crashes, lock, runs, get >>

\* The child is killed, if it has not just ended, and waited for.
Timeout(r) ==
  /\ At(r, "waiting") /\ Conclude(r, "not returned")
  /\ runs' = [runs EXCEPT ![Dir(r)].child = IF @.exit = "running" THEN Killed(@) ELSE @]
  /\ UNCHANGED << up, crashes, lock, get >>

\* stdout.txt and stderr.txt are written and exit-code.txt is opened.
WriteOutputs(r) ==
  /\ At(r, "outputs") /\ Go(r, "code")
  /\ runs' = [runs EXCEPT ![Dir(r)].code = "empty"]
  /\ UNCHANGED << up, crashes, lock, get >>

SlipPasses(outcome, c) == IsJson(c)
Passes(outcome, c) == outcome = "zero" /\ IsJson(c)

\* With the code in its file the directory of a simulation that returned is final, so
\* that its trace may as well be checked here.
WriteCode(r) ==
  /\ At(r, "code")
  /\ runs' = [runs EXCEPT ![Dir(r)].code = post[r].outcome]
  /\ Answer(r, IF Passes(post[r].outcome, runs[Dir(r)].child) THEN "ok" ELSE "error")
  /\ UNCHANGED << up, crashes, lock, get >>

\* The trace cannot be read back.
CheckFails(r) ==
  /\ At(r, "code") /\ post[r].outcome = "zero" /\ Answer(r, "internal")
  /\ runs' = [runs EXCEPT ![Dir(r)].code = "zero"]
  /\ UNCHANGED << up, crashes, lock, get >>

\* An OSError: before the launch, or where one is handled, it ends the request;
\* where the child has just returned it is taken for a failed launch.
WriteFails(r) ==
  /\ up /\ post[r].stage \in {"scenario", "launching", "outputs", "code"}
  /\ IF post[r].outcome \in {"zero", "nonzero"}
       THEN Conclude(r, "not returned") ELSE Answer(r, "internal")
  /\ UNCHANGED << up, crashes, lock, runs, get >>

Handle(r) ==
  \/ AcquireLock(r) \/ TryNext(r) \/ MakeDirectory(r) \/ MakeFails(r)
  \/ WriteScenario(r) \/ NotLaunched(r) \/ Launch(r) \/ ChildEnds(r) \/ Timeout(r)
  \/ WriteOutputs(r) \/ WriteCode(r) \/ CheckFails(r) \/ WriteFails(r)

-----------------------------------------------------------------------------
(* Readers: GET /api/runs, /api/runs/latest, and a run's trace *)

Listed == {d \in DOMAIN runs : runs[d].options}

SlipFollowing(stage) ==
  CASE stage = "listed" -> "trace" [] stage = "trace" -> "code" [] stage = "code" -> "metadata"
    [] stage = "metadata" -> "served"

\* run_metadata reads the exit code, then looks for the trace (the options file it
\* reads first, or fails to read, changes no answer here); the trace is another request.
Following(stage) ==
  CASE stage = "listed" -> "code" [] stage = "code" -> "trace" [] stage = "trace" -> "metadata"
    [] stage = "metadata" -> "served"

List(d) ==
  /\ up /\ get.stage = "idle" /\ d \in Listed
  /\ get' = [NotReading EXCEPT !.stage = Following("listed"), !.run = d]
  /\ UNCHANGED << up, crashes, lock, post, runs >>

Reads(stage) ==
  /\ up /\ get.stage = stage
  /\ UNCHANGED << up, crashes, lock, post, runs >>

ReadCode ==
  /\ Reads("code")
  /\ get' = [get EXCEPT !.stage = Following(@), !.zero = (runs[get.run].code = "zero")]
ReadTraceExists ==
  /\ Reads("trace")
  /\ get' = [get EXCEPT !.stage = Following(@), !.trace = runs[get.run].child.file # "absent"]

\* The metadata has a link to the trace if it exists.
ServeTrace ==
  /\ Reads("metadata") /\ get.trace
  /\ get' = [get EXCEPT !.stage = Following(@), !.run = << >>, !.served = runs[get.run].child.file]
ReadAgain == Reads(get.stage) /\ get.stage \in {"metadata", "served"} /\ get' = NotReading

-----------------------------------------------------------------------------
(* Children, and the death of the server *)

ChildMoves(d) ==
  /\ d \in DOMAIN runs /\ IsBorn(runs[d].child)
  /\ \E c \in Moves(runs[d].child) : runs' = [runs EXCEPT ![d].child = c]
  /\ UNCHANGED << up, crashes, lock, post, get >>

IsServed(p) == p.stage \notin {"idle", "answered", "lost"}

Crash ==
  /\ up /\ crashes < MaxCrashes
  /\ up' = FALSE /\ crashes' = crashes + 1 /\ lock' = {} /\ get' = NotReading
  /\ post' = [r \in Posts |-> IF IsServed(post[r]) THEN Lost ELSE post[r]]
  /\ UNCHANGED runs

Restart == ~up /\ up' = TRUE /\ UNCHANGED << crashes, lock, post, runs, get >>

\* With nobody to serve the server waits.
Quiet == (\A r \in Posts : ~IsServed(post[r])) /\ UNCHANGED vars

Next ==
  \/ \E r \in Posts : Refuse(r) \/ (\E name \in Names : Accept(r, name)) \/ Handle(r)
  \/ \E d \in DOMAIN runs : List(d) \/ ChildMoves(d)
  \/ ReadCode \/ ReadTraceExists \/ ServeTrace \/ ReadAgain
  \/ Crash \/ Restart \/ Quiet

\* Every thread the server has is scheduled, and the timeout of a wait elapses.
\* Nothing is assumed of the children, the clients and the crashes.
Spec == Init /\ [][Next]_vars /\ \A r \in Posts : WF_vars(Handle(r))

-----------------------------------------------------------------------------
\* A request is at a stage of execute_run and a directory holds what one can hold.
TypeOK ==
  /\ up \in BOOLEAN /\ crashes \in 0 .. MaxCrashes /\ lock \subseteq Posts
  /\ post \in [Posts -> Post] /\ get \in Get
  /\ DOMAIN runs \subseteq Seq(Nat) /\ \A d \in DOMAIN runs : runs[d] \in Directory

HasDirectory(p) ==
  \/ IsServed(p) /\ p.stage \notin {"locking", "making"}
  \/ p.stage = "answered" /\ p.reply # "unrun"

\* No two requests ever run in the same directory, whatever their names and
\* whoever died in between: a trace belongs to the options beside it.
OwnDirectories ==
  \A r, s \in Posts :
    r # s /\ HasDirectory(post[r]) /\ HasDirectory(post[s]) => Dir(r) # Dir(s)

\* Once a run's exit code is in its file nothing in its directory changes any more:
\* in particular nobody writes to the trace of a run that timed out.
EndedRunsAreFinal ==
  [][\A d \in DOMAIN runs : runs[d].code \in Outcomes => runs'[d] = runs[d]]_vars

\* A reader that was told exit code 0 was told of a trace too, and if what it is served
\* is JSON, it is the whole trace of the run, although metadata and trace are read file
\* by file while the run goes on.
MetadataIsHonest ==
  get.zero /\ get.stage \in {"metadata", "served"} =>
    get.trace /\ (get.stage = "served" => get.served # "cut")

\* A run reported as ok has, and keeps, a whole trace and exit code 0.
OkMeansWhole ==
  \A r \in Posts :
    post[r].reply = "ok" => runs[Dir(r)].child.file = "whole" /\ runs[Dir(r)].code = "zero"

\* Every accepted request is answered unless the server dies, however long its child
\* runs and whoever else waits for the lock.
EveryRequestIsAnswered ==
  \A r \in Posts : post[r].stage = "locking" ~> post[r].stage \in {"answered", "lost"}

=============================================================================
