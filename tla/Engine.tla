------------------------------- MODULE Engine -------------------------------
(***************************************************************************)
(* EngineRunner and Scheduler, for any number of systems in each phase.    *)
(*                                                                         *)
(* Each system answers whether it asks to stop, and may set the world's    *)
(* tick.  The runner ORs the answers of a phase and looks at them between  *)
(* phases only.  One step is one system, the phase's last system taking    *)
(* along whatever the runner does next; an empty phase is a step too.      *)
(* The stop request outlives run(): the owner of the runner may raise it   *)
(* or clear it between runs, and may run the engine again, with another     *)
(* limit in its settings: each run reads its own.                          *)
(***************************************************************************)
EXTENDS Integers

CONSTANTS
  Systems,    \* how many systems each phase has
  Limits,     \* what settings.maxTicks may be when run() is called
  Clocks,     \* what systems may set the world's tick to
  MaxClock    \* bound on the world's tick at which a new run() starts

Phases == {"Startup", "BeforeTick", "Tick", "AfterTick", "Cleanup", "Shutdown"}
Loop == {"BeforeTick", "Tick", "AfterTick", "Cleanup"}

ASSUME SystemsAssumption == Systems \in [Phases -> Nat]
ASSUME ClockAssumption == Limits \subseteq Int /\ Clocks \subseteq Nat /\ MaxClock \in Nat

VARIABLES
  phase,      \* the phase being run, or "idle" outside run()
  next,       \* index of the next system of the phase
  asked,      \* runPhase's stopRequested
  stop,       \* EngineRunner::_stopRequested
  limit,      \* maxTicks of the current or the last run
  ticks,      \* ticksExecuted
  clock       \* World::_tick

vars == << phase, next, asked, stop, limit, ticks, clock >>

AtLeastZero(n) == IF n < 0 THEN 0 ELSE n

Init ==
  /\ phase = "idle" /\ next = 1 /\ asked = FALSE
  /\ limit \in {AtLeastZero(n) : n \in Limits}
  /\ stop = FALSE /\ ticks = 0 /\ clock = 1

Owner(request) ==
  /\ phase = "idle" /\ stop' = request
  /\ UNCHANGED << phase, next, asked, limit, ticks, clock >>

RequestStop == Owner(TRUE)
ClearStop == Owner(FALSE)

\* A definition named Slip... is the next one with a slip the code could have; no
\* other definition uses it.
SlipRunResets ==
  /\ phase = "idle" /\ clock <= MaxClock
  /\ \E n \in Limits : limit' = AtLeastZero(n)
  /\ phase' = "Startup" /\ ticks' = 0 /\ stop' = FALSE
  /\ UNCHANGED << next, asked, clock >>

\* run() keeps a stop request it finds: it leaves the loop at its head.
Run ==
  /\ phase = "idle" /\ clock <= MaxClock
  /\ \E n \in Limits : limit' = AtLeastZero(n)
  /\ phase' = "Startup" /\ ticks' = 0
  /\ UNCHANGED << next, asked, stop, clock >>

SlipLoopHeadLate(stopping, n) == IF ~stopping /\ n <= limit THEN "BeforeTick" ELSE "Shutdown"
LoopHead(stopping, n) == IF ~stopping /\ n < limit THEN "BeforeTick" ELSE "Shutdown"

After(stopping, n) ==
  CASE phase = "Startup"    -> LoopHead(stopping, n)
    [] phase = "BeforeTick" -> IF stopping THEN "Shutdown" ELSE "Tick"
    [] phase = "Tick"       -> IF stopping THEN "Shutdown" ELSE "AfterTick"
    [] phase = "AfterTick"  -> IF stopping THEN "Shutdown" ELSE "Cleanup"
    [] phase = "Cleanup"    -> LoopHead(stopping, n)
    [] phase = "Shutdown"   -> "idle"

\* The answers of the Shutdown systems are ignored.
Stops(answer) == stop \/ (phase # "Shutdown" /\ (answer \/ asked))

SlipEndPhaseUncounted(answer, now) ==
  /\ stop' = Stops(answer)
  /\ clock' = now
  /\ phase' = After(Stops(answer), ticks)
  /\ next' = 1 /\ asked' = FALSE
  /\ UNCHANGED << limit, ticks >>

\* now is the world's tick as the phase's last system left it.
EndPhase(answer, now) ==
  LET stopping == Stops(answer)
      ticked == phase = "Cleanup" /\ ~stopping
      n == IF ticked THEN ticks + 1 ELSE ticks
  IN  /\ stop' = stopping
      /\ ticks' = n
      /\ clock' = IF ticked THEN now + 1 ELSE now
      /\ phase' = After(stopping, n)
      /\ next' = 1 /\ asked' = FALSE
      /\ UNCHANGED limit

SlipRunSystemShort(answer) ==
  /\ phase # "idle" /\ next <= Systems[phase]
  /\ \E now \in {clock} \cup Clocks :
       IF next < Systems[phase] /\ ~answer
         THEN next' = next + 1 /\ clock' = now /\ UNCHANGED << phase, asked, stop, limit, ticks >>
         ELSE EndPhase(answer, now)

RunSystem(answer) ==
  /\ phase # "idle" /\ next <= Systems[phase]
  /\ \E now \in {clock} \cup Clocks :
       IF next < Systems[phase]
         THEN /\ next' = next + 1 /\ asked' = (answer \/ asked) /\ clock' = now
              /\ UNCHANGED << phase, stop, limit, ticks >>
         ELSE EndPhase(answer, now)

EmptyPhase == phase # "idle" /\ Systems[phase] = 0 /\ EndPhase(FALSE, clock)

\* What run() returns, read in the state it returns in.
Result ==
  [ticksExecuted |-> ticks, stopRequested |-> stop,
   reachedMaxTicks |-> ~stop /\ ticks >= limit]

Next ==
  \/ RequestStop \/ ClearStop \/ Run
  \/ \E answer \in BOOLEAN : RunSystem(answer)
  \/ EmptyPhase

\* A run that has begun is never held up: the systems are plain calls.
Spec == Init /\ [][Next]_vars /\ WF_vars(EmptyPhase \/ \E answer \in BOOLEAN : RunSystem(answer))

=============================================================================
