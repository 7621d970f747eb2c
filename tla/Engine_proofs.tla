---------------------------- MODULE Engine_proofs ---------------------------
(***************************************************************************)
(* Proofs about the engine loop, for any number of systems in a phase, any *)
(* tick limits and whatever the systems answer.                            *)
(***************************************************************************)
EXTENDS EngineProperties, TLAPS

\* The loop's own variables: where a run is, and that it is not past its limit.
LoopOK ==
  /\ phase \in Phases \cup {"idle"}
  /\ next \in Nat /\ asked \in BOOLEAN /\ stop \in BOOLEAN
  /\ limit \in Nat /\ ticks \in Nat
  /\ phase = "idle" => next = 1
  /\ phase # "idle" => next = 1 \/ next \in 1..Systems[phase]
  /\ ticks <= limit
  /\ phase = "Startup" => ticks = 0
  /\ phase \in Loop => ~stop /\ ticks < limit
  /\ phase = "Shutdown" /\ ~stop => ticks = limit

\* What a run does next: one more system of the phase, or the end of the phase.
LEMMA StepsOfARun ==
  ASSUME LoopOK, Next, phase # "idle"
  PROVE  \/ /\ next \in 1..Systems[phase] /\ next < Systems[phase]
            /\ next' = next + 1 /\ asked' \in BOOLEAN
            /\ UNCHANGED << phase, stop, limit, ticks >>
         \/ /\ Systems[phase] = 0 \/ next = Systems[phase]
            /\ \E answer \in BOOLEAN : \E now : EndPhase(answer, now)
<1>1. PICK s \in Nat : s = Systems[phase]
  BY SystemsAssumption DEF LoopOK
<1>2. CASE EmptyPhase
  BY <1>2 DEF EmptyPhase
<1>3. CASE \E answer \in BOOLEAN : RunSystem(answer)
  <2>1. PICK answer \in BOOLEAN : RunSystem(answer)
    BY <1>3
  <2>2. PICK now :
          IF next < Systems[phase]
            THEN next' = next + 1 /\ asked' = (answer \/ asked) /\ clock' = now
                 /\ UNCHANGED << phase, stop, limit, ticks >>
            ELSE EndPhase(answer, now)
    BY <2>1 DEF RunSystem
  <2>3. next \in 1..Systems[phase]
    BY <1>1, <2>1 DEF RunSystem, LoopOK
  <2>4. (answer \/ asked) \in BOOLEAN
    BY DEF LoopOK
  <2>5. CASE next < Systems[phase]
    BY <2>2, <2>3, <2>4, <2>5
  <2>6. CASE ~(next < Systems[phase])
    <3>1. next = Systems[phase]
      BY <1>1, <2>3, <2>6
    <3> QED BY <2>2, <2>6, <3>1
  <2> QED BY <2>5, <2>6
<1> QED BY <1>2, <1>3 DEF Next, RequestStop, ClearStop, Owner, Run

\* How the end of a phase leaves the loop.
LEMMA EndOfAPhase ==
  ASSUME LoopOK, phase # "idle", NEW answer \in BOOLEAN, NEW now, EndPhase(answer, now)
  PROVE  /\ next' = 1 /\ asked' = FALSE /\ stop' \in BOOLEAN /\ limit' = limit
         /\ ticks' = IF phase = "Cleanup" /\ ~stop' THEN ticks + 1 ELSE ticks
         /\ phase = "Shutdown" => phase' = "idle" /\ stop' = stop
         /\ phase # "Shutdown" /\ stop' => phase' = "Shutdown"
         /\ phase \in {"Startup", "Cleanup"} /\ ~stop' =>
              phase' = IF ticks' < limit THEN "BeforeTick" ELSE "Shutdown"
         /\ phase = "BeforeTick" /\ ~stop' => phase' = "Tick"
         /\ phase = "Tick" /\ ~stop' => phase' = "AfterTick"
         /\ phase = "AfterTick" /\ ~stop' => phase' = "Cleanup"
<1>1. phase \in Phases
  BY DEF LoopOK
<1>2. /\ stop' = Stops(answer) /\ next' = 1 /\ asked' = FALSE /\ limit' = limit
      /\ ticks' = IF phase = "Cleanup" /\ ~stop' THEN ticks + 1 ELSE ticks
      /\ phase' = After(stop', ticks')
  BY DEF EndPhase
<1>3. stop' \in BOOLEAN /\ (phase = "Shutdown" => stop' = stop)
  BY <1>2 DEF Stops, LoopOK
<1> QED
  <2> USE <1>2 DEF After, LoopHead
  <2>1. CASE phase = "Startup" \/ phase = "Cleanup"
    BY <1>3, <2>1
  <2>2. CASE phase = "BeforeTick"
    BY <1>3, <2>2
  <2>3. CASE phase = "Tick"
    BY <1>3, <2>3
  <2>4. CASE phase = "AfterTick"
    BY <1>3, <2>4
  <2>5. CASE phase = "Shutdown"
    BY <1>3, <2>5
  <2> QED BY <1>1, <2>1, <2>2, <2>3, <2>4, <2>5 DEF Phases

\* A run's limit is a number of ticks, whatever the settings say.
LEMMA Limited == \A n \in Limits : AtLeastZero(n) \in Nat
BY ClockAssumption DEF AtLeastZero

LEMMA LoopStep ==
  ASSUME LoopOK, [Next]_vars
  PROVE  LoopOK'
<1>0. limit \in Nat /\ \A p \in Phases : Systems[p] \in Nat
  BY SystemsAssumption DEF LoopOK
<1>1. CASE UNCHANGED vars
  BY <1>1 DEF LoopOK, vars
<1>2. CASE RequestStop \/ ClearStop \/ Run
  <2>1. /\ phase = "idle" /\ phase' \in {"idle", "Startup"} /\ next' = next
        /\ asked' = asked /\ stop' \in BOOLEAN
        /\ \/ UNCHANGED << limit, ticks >> /\ phase' = "idle"
           \/ limit' \in Nat /\ ticks' = 0 /\ phase' = "Startup"
    BY <1>2, Limited DEF LoopOK, RequestStop, ClearStop, Owner, Run
  <2>2. CASE phase' = "idle"
    BY <1>0, <2>1, <2>2 DEF LoopOK, Phases, Loop
  <2>3. CASE phase' = "Startup"
    <3>1. ticks' = 0 /\ limit' \in Nat
      BY <2>1, <2>3
    <3> QED BY <1>0, <2>1, <2>3, <3>1 DEF LoopOK, Phases, Loop
  <2> QED BY <2>1, <2>2, <2>3
<1>3. CASE Next /\ phase # "idle"
  <2>1. CASE next < Systems[phase] /\ next' = next + 1 /\ asked' \in BOOLEAN
             /\ next \in 1..Systems[phase] /\ UNCHANGED << phase, stop, limit, ticks >>
    <3>1. Systems[phase] \in Nat
      BY <1>0, <1>3 DEF LoopOK
    <3>2. next' \in 1..Systems[phase]
      BY <2>1, <3>1
    <3> QED BY <1>3, <2>1, <3>2 DEF LoopOK
  <2>2. CASE \E answer \in BOOLEAN : \E now : EndPhase(answer, now)
    <3>1. PICK answer, now : answer \in BOOLEAN /\ EndPhase(answer, now)
      BY <2>2
    <3>2. phase \in Phases /\ ticks \in Nat /\ ticks <= limit
          /\ (phase \in Loop => ticks < limit) /\ (phase = "Startup" => ticks = 0)
          /\ (phase = "Shutdown" /\ ~stop => ticks = limit)
      BY <1>3 DEF LoopOK
    <3>3. /\ next' = 1 /\ asked' = FALSE /\ stop' \in BOOLEAN
          /\ ticks' = IF phase = "Cleanup" /\ ~stop' THEN ticks + 1 ELSE ticks
          /\ limit' = limit
      BY <1>3, <3>1, EndOfAPhase
    <3>4. ticks' \in Nat /\ ticks' <= limit /\ limit' = limit
      BY <1>0, <3>2, <3>3 DEF Loop
    <3>5. CASE phase = "Shutdown" \/ stop'
      <4>1. phase' = "idle" \/ (phase' = "Shutdown" /\ stop')
        BY <1>3, <3>1, <3>5, EndOfAPhase
      <4> QED BY <3>3, <3>4, <4>1 DEF LoopOK, Loop, Phases
    <3>6. CASE phase \in {"Startup", "Cleanup"} /\ ~stop'
      <4>1. phase' = IF ticks' < limit THEN "BeforeTick" ELSE "Shutdown"
        BY <1>3, <3>1, <3>6, EndOfAPhase
      <4>2. \/ phase' = "BeforeTick" /\ ticks' < limit
            \/ phase' = "Shutdown" /\ ticks' = limit
        BY <1>0, <3>4, <4>1
      <4> QED BY <3>3, <3>4, <3>6, <4>2 DEF LoopOK, Loop, Phases
    <3>7. CASE phase \in {"BeforeTick", "Tick", "AfterTick"} /\ ~stop'
      <4>1. phase' \in {"Tick", "AfterTick", "Cleanup"} /\ ticks' < limit
        BY <1>3, <3>1, <3>2, <3>3, <3>7, EndOfAPhase DEF Loop
      <4> QED BY <3>3, <3>4, <3>7, <4>1 DEF LoopOK, Loop, Phases
    <3> QED BY <3>2, <3>5, <3>6, <3>7 DEF Phases
  <2> QED BY <1>3, <2>1, <2>2, StepsOfARun
<1> QED
  BY <1>1, <1>2, <1>3 DEF Next, RunSystem, EmptyPhase

-----------------------------------------------------------------------------
(* How often each system was called.                                       *)

\* In the tick in progress the first n phases of the loop are through; every
\* complete tick called every system once, and the phase in progress has called
\* the systems before the next one.
Counted(n) ==
  \A p \in Loop : \A i \in 1..Systems[p] :
    calls[p][i] = ticks + (IF Place[p] <= n THEN 1 ELSE 0)
                        + (IF p = phase /\ i < next THEN 1 ELSE 0)

CallsType ==
  /\ DOMAIN calls = Phases /\ calls = [p \in Phases |-> calls[p]]
  /\ \A p \in Phases : calls[p] \in [1..Systems[p] -> Nat]

CallsAgree ==
  /\ CallsType
  /\ phase = "Startup" =>
       /\ \A i \in 1..Systems["Startup"] : calls["Startup"][i] = IF i < next THEN 1 ELSE 0
       /\ \A p \in Loop : \A i \in 1..Systems[p] : calls[p][i] = 0
  /\ phase \in Loop \cup {"Shutdown"} =>
       \A i \in 1..Systems["Startup"] : calls["Startup"][i] = 1
  /\ \A n \in 0..4 : phase \in Loop /\ n = Place[phase] - 1 => Counted(n)
  /\ phase = "Shutdown" => \E n \in 0..4 : Counted(n) /\ (~stop => n = 0)

LEMMA Places ==
  /\ Place["BeforeTick"] = 1 /\ Place["Tick"] = 2
  /\ Place["AfterTick"] = 3 /\ Place["Cleanup"] = 4
BY DEF Place, Loop

\* One step calls the next system of the phase, once, and no other.
LEMMA OneCall ==
  ASSUME LoopOK, CallsAgree, phase # "idle", CountCalls
  PROVE  /\ CallsType'
         /\ \A p \in Phases \ {"Shutdown"} : \A i \in 1..Systems[p] :
              calls'[p][i] = calls[p][i] + (IF p = phase /\ i = next THEN 1 ELSE 0)
<1>1. phase \in Phases /\ Systems[phase] \in Nat /\ limit \in Nat /\ ticks \in Nat
  BY SystemsAssumption DEF LoopOK
<1>2. CASE Systems[phase] = 0
  <2>1. calls' = calls
    BY <1>2 DEF CountCalls
  <2>2. \A i : i \notin 1..Systems[phase]
    BY <1>2
  <2>3. \A p \in Phases : \A i : p = phase => i \notin 1..Systems[p]
    BY <2>2
  <2>4. \A p \in Phases : \A i \in 1..Systems[p] : calls[p][i] \in Nat
    BY DEF CallsAgree, CallsType
  <2> QED BY <2>1, <2>3, <2>4 DEF CallsAgree, CallsType
<1>3. CASE Systems[phase] # 0
  <2>1. calls' = [calls EXCEPT ![phase][next] = OneMore(@)]
    BY <1>3 DEF CountCalls
  <2>2. next \in 1..Systems[phase]
    BY <1>1, <1>3 DEF LoopOK
  <2>3. \A p \in Phases : calls[p] \in [1..Systems[p] -> Nat]
    BY DEF CallsAgree, CallsType
  <2>4. OneMore(calls[phase][next]) \in Nat
    BY <1>1, <2>2, <2>3 DEF OneMore
  <2>5. /\ DOMAIN calls' = Phases /\ calls' = [p \in Phases |-> calls'[p]]
        /\ \A p \in Phases : p # phase => calls'[p] = calls[p]
        /\ calls'[phase] = [calls[phase] EXCEPT ![next] = OneMore(calls[phase][next])]
    BY <1>1, <2>1 DEF CallsAgree, CallsType
  <2>6. CallsType'
    BY <1>1, <2>2, <2>3, <2>4, <2>5 DEF CallsType
  <2>7. phase # "Shutdown" => OneMore(calls[phase][next]) = calls[phase][next] + 1
    <3>1. CASE phase = "Startup"
      <4>1. calls[phase][next] = 0
        BY <1>1, <2>2, <3>1 DEF CallsAgree
      <4> QED BY <1>1, <4>1 DEF OneMore, MostCalls
    <3>2. CASE phase \in Loop
      <4>1. PICK n \in 0..4 : n = Place[phase] - 1
        BY <3>2, Places DEF Loop
      <4>2. calls[phase][next] = ticks
        <5>1. ~(Place[phase] <= n) /\ ~(next < next)
          BY <1>1, <2>2, <3>2, <4>1, Places DEF Loop
        <5>2. Counted(n)
          BY <3>2, <4>1 DEF CallsAgree
        <5>3. calls[phase][next] = ticks + 0 + 0
          BY <2>2, <3>2, <5>1, <5>2 DEF Counted
        <5> QED BY <1>1, <5>3
      <4> QED BY <1>1, <4>2 DEF OneMore, MostCalls, LoopOK
    <3> QED BY <1>1, <3>1, <3>2 DEF Phases, Loop
  <2>8. ASSUME NEW p \in Phases \ {"Shutdown"}, NEW i \in 1..Systems[p]
        PROVE  calls'[p][i] = calls[p][i] + (IF p = phase /\ i = next THEN 1 ELSE 0)
    <3>1. calls[p][i] \in Nat
      BY <2>3
    <3>2. CASE p # phase
      BY <2>5, <3>1, <3>2
    <3>3. CASE p = phase
      <4>1. i \in DOMAIN calls[phase]
        BY <2>3, <3>3
      <4> QED BY <2>5, <2>7, <3>1, <3>3, <4>1
    <3> QED BY <3>2, <3>3
  <2> QED BY <2>6, <2>8
<1> QED BY <1>2, <1>3

\* The histories follow the loop.
LEMMA CallsStep ==
  ASSUME LoopOK, LoopOK', CallsAgree, WatchedNext
  PROVE  CallsAgree'
<1>0. /\ limit \in Nat /\ ticks \in Nat /\ next \in Nat
      /\ \A p \in Phases : Systems[p] \in Nat
      /\ Loop \subseteq Phases \ {"Shutdown"} /\ "Startup" \in Phases \ {"Shutdown"}
  BY SystemsAssumption DEF LoopOK, Phases, Loop
<1>1. CASE phase = "idle"
  <2>1. phase' \in {"idle", "Startup"} /\ next' = 1
    BY <1>1 DEF LoopOK, WatchedNext, Next, RequestStop, ClearStop, Owner, Run, RunSystem, EmptyPhase
  <2>2. calls' = NoCalls
    BY <1>1 DEF WatchedNext, CountCalls
  <2>3. \A p \in Phases : calls'[p] = [i \in 1..Systems[p] |-> 0]
    BY <2>2 DEF NoCalls
  <2>4. CallsType'
    BY <2>2, <2>3 DEF CallsType, NoCalls
  <2>5. \A p \in Phases : \A i \in 1..Systems[p] : calls'[p][i] = 0 /\ ~(i < 1)
    <3> SUFFICES ASSUME NEW p \in Phases, NEW i \in 1..Systems[p]
                 PROVE  calls'[p][i] = 0 /\ ~(i < 1)
      OBVIOUS
    <3>1. i \in Nat /\ ~(i < 1)
      BY <1>0
    <3> QED BY <2>3, <3>1
  <2> QED BY <1>0, <2>1, <2>4, <2>5 DEF CallsAgree, Loop
<1>2. CASE phase # "idle"
  <2>0. Next /\ phase \in Phases
    BY <1>2 DEF WatchedNext, LoopOK
  <2>1. /\ CallsType'
        /\ \A p \in Phases \ {"Shutdown"} : \A i \in 1..Systems[p] :
             calls'[p][i] = calls[p][i] + (IF p = phase /\ i = next THEN 1 ELSE 0)
    BY <1>2, OneCall DEF WatchedNext
  <2>2. CASE /\ next \in 1..Systems[phase] /\ next < Systems[phase]
             /\ next' = next + 1 /\ UNCHANGED << phase, stop, limit, ticks >>
    <3>1. ASSUME NEW n \in 0..4, Counted(n), phase # "Startup" PROVE Counted(n)'
      <4> SUFFICES ASSUME NEW p \in Loop, NEW i \in 1..Systems[p]
                   PROVE  calls'[p][i] = ticks + (IF Place[p] <= n THEN 1 ELSE 0)
                                               + (IF p = phase /\ i < next + 1 THEN 1 ELSE 0)
        BY <2>2 DEF Counted
      <4>1. calls[p][i] = ticks + (IF Place[p] <= n THEN 1 ELSE 0)
                                + (IF p = phase /\ i < next THEN 1 ELSE 0)
        BY <3>1 DEF Counted
      <4>2. i \in Nat /\ (i < next + 1 <=> i < next \/ i = next)
        BY <1>0
      <4> QED BY <1>0, <2>1, <4>1, <4>2
    <3>2. phase = "Startup" =>
            /\ \A i \in 1..Systems["Startup"] : calls'["Startup"][i] = IF i < next + 1 THEN 1 ELSE 0
            /\ \A p \in Loop : \A i \in 1..Systems[p] : calls'[p][i] = 0
      <4>1. \A i \in 1..Systems["Startup"] : i < next + 1 <=> i < next \/ i = next
        BY <1>0
      <4> QED BY <1>0, <2>1, <4>1 DEF CallsAgree, Loop
    <3>3. phase \in Loop \cup {"Shutdown"} =>
            \A i \in 1..Systems["Startup"] : calls'["Startup"][i] = 1
      BY <1>0, <2>1 DEF CallsAgree, Loop
    <3> QED BY <2>1, <2>2, <3>1, <3>2, <3>3 DEF CallsAgree, Loop
  <2>3. CASE /\ Systems[phase] = 0 \/ next = Systems[phase]
             /\ \E answer \in BOOLEAN : \E now : EndPhase(answer, now)
    <3>1. PICK answer, now : answer \in BOOLEAN /\ EndPhase(answer, now)
      BY <2>3
    <3>2. \A i \in 1..Systems[phase] : i < next \/ i = next
      BY <1>0, <2>0, <2>3
    <3>3. next' = 1 /\ \A p \in Phases : \A i \in 1..Systems[p] : ~(i < 1)
      <4>1. ASSUME NEW p \in Phases, NEW i \in 1..Systems[p] PROVE ~(i < 1)
        BY <1>0
      <4> QED BY <1>2, <3>1, <4>1, EndOfAPhase
    <3>4. CASE phase = "Shutdown"
      <4>1. phase' = "idle"
        BY <1>2, <3>1, <3>4, EndOfAPhase
      <4> QED BY <2>1, <4>1 DEF CallsAgree, Loop
    <3>5. CASE phase = "Startup"
      <4>1. phase' \in {"BeforeTick", "Shutdown"} /\ ticks' = ticks /\ ticks = 0
        BY <1>2, <3>1, <3>5, EndOfAPhase DEF LoopOK
      <4>2. \A i \in 1..Systems["Startup"] : calls'["Startup"][i] = 1
        BY <1>0, <2>1, <3>2, <3>5 DEF CallsAgree
      <4>3. Counted(0)'
        <5>1. \A p \in Loop : \A i \in 1..Systems[p] : calls'[p][i] = 0
          BY <1>0, <2>1, <3>5 DEF CallsAgree, Loop
        <5>2. \A p \in Loop : ~(Place[p] <= 0)
          BY Places DEF Loop
        <5> QED BY <1>0, <3>3, <4>1, <5>1, <5>2 DEF Counted
      <4>4. \A n \in 0..4 : phase' \in Loop /\ n = Place[phase'] - 1 => n = 0
        BY <4>1, Places DEF Loop
      <4> QED BY <2>1, <4>1, <4>2, <4>3, <4>4 DEF CallsAgree
    <3>6. CASE phase \in Loop
      <4>1. PICK k \in 1..4 : k = Place[phase]
        BY <3>6, Places DEF Loop
      <4>2. Counted(k - 1)
        BY <3>6, <4>1 DEF CallsAgree
      <4>3. \A p \in Loop : \A i \in 1..Systems[p] :
              calls'[p][i] = ticks + (IF Place[p] <= k THEN 1 ELSE 0)
        <5> SUFFICES ASSUME NEW p \in Loop, NEW i \in 1..Systems[p]
                     PROVE  calls'[p][i] = ticks + (IF Place[p] <= k THEN 1 ELSE 0)
          OBVIOUS
        <5>1. calls[p][i] = ticks + (IF Place[p] <= k - 1 THEN 1 ELSE 0)
                                  + (IF p = phase /\ i < next THEN 1 ELSE 0)
          BY <4>2 DEF Counted
        <5>2. /\ Place[p] \in 1..4 /\ (Place[p] = k <=> p = phase)
          BY <3>6, <4>1, Places DEF Loop
        <5>3. calls'[p][i] = calls[p][i] + (IF p = phase /\ i = next THEN 1 ELSE 0)
          BY <1>0, <2>1
        <5>4. CASE p = phase
          <6>1. i < next \/ i = next
            BY <3>2, <5>4
          <6>2. ~(i < next /\ i = next)
            BY <1>0
          <6> QED BY <1>0, <5>1, <5>2, <5>3, <5>4, <6>1, <6>2
        <5>5. CASE p # phase
          BY <1>0, <5>1, <5>2, <5>3, <5>5
        <5> QED BY <5>4, <5>5
      <4>4. \A i \in 1..Systems["Startup"] : calls'["Startup"][i] = 1
        BY <1>0, <2>1, <3>6 DEF CallsAgree, Loop
      <4>5. phase' # "Startup" /\ phase' # "idle"
        BY <1>2, <3>1, <3>6, EndOfAPhase DEF Loop
      <4>6. CASE phase = "Cleanup" /\ ~stop'
        <5>1. ticks' = ticks + 1 /\ phase' \in {"BeforeTick", "Shutdown"}
          BY <1>2, <3>1, <4>6, EndOfAPhase
        <5>2. \A p \in Loop : Place[p] <= k /\ ~(Place[p] <= 0)
          BY <4>1, <4>6, Places DEF Loop
        <5>3. Counted(0)'
          BY <1>0, <3>3, <4>3, <5>1, <5>2 DEF Counted
        <5>4. \A n \in 0..4 : phase' \in Loop /\ n = Place[phase'] - 1 => n = 0
          BY <5>1, Places DEF Loop
        <5> QED BY <2>1, <4>4, <4>5, <5>1, <5>3, <5>4 DEF CallsAgree
      <4>7. CASE ~(phase = "Cleanup" /\ ~stop')
        <5>1. ticks' = ticks
          BY <1>2, <3>1, <4>7, EndOfAPhase
        <5>2. Counted(k)'
          BY <1>0, <3>3, <4>3, <5>1 DEF Counted
        <5>3. \A n \in 0..4 : phase' \in Loop /\ n = Place[phase'] - 1 => n = k
          <6>1. CASE stop'
            BY <1>2, <3>1, <3>6, <6>1, EndOfAPhase DEF Loop
          <6>2. CASE ~stop'
            <7>1. \/ phase = "BeforeTick" /\ phase' = "Tick"
                  \/ phase = "Tick" /\ phase' = "AfterTick"
                  \/ phase = "AfterTick" /\ phase' = "Cleanup"
              BY <1>2, <3>1, <3>6, <4>7, <6>2, EndOfAPhase DEF Loop
            <7> QED BY <4>1, <7>1, Places
          <6> QED BY <6>1, <6>2
        <5>4. phase' = "Shutdown" => stop'
          BY <1>2, <3>1, <3>6, <4>7, EndOfAPhase DEF Loop
        <5>5. k \in 0..4
          BY <4>1
        <5> QED BY <2>1, <4>4, <4>5, <5>2, <5>3, <5>4, <5>5 DEF CallsAgree
      <4> QED BY <4>6, <4>7
    <3> QED BY <2>0, <3>4, <3>5, <3>6 DEF Phases, Loop
  <2> QED BY <1>2, <2>0, <2>2, <2>3, StepsOfARun
<1> QED BY <1>1, <1>2

-----------------------------------------------------------------------------
(* The theorems: the invariant is LoopOK /\ CallsAgree.                    *)

LEMMA EngineInit == WatchedInit => LoopOK /\ CallsAgree
<1> SUFFICES ASSUME WatchedInit PROVE LoopOK /\ CallsAgree
  OBVIOUS
<1>1. LoopOK
  <2>1. /\ phase = "idle" /\ next = 1 /\ asked = FALSE /\ stop = FALSE /\ ticks = 0
        /\ limit \in Nat
    BY Limited DEF WatchedInit, Init
  <2>2. phase \notin Loop /\ phase # "Startup" /\ phase # "Shutdown"
    BY <2>1 DEF Loop
  <2>3. next \in Nat /\ ticks \in Nat /\ ticks <= limit
    BY <2>1
  <2>4. asked \in BOOLEAN /\ stop \in BOOLEAN /\ phase \in Phases \cup {"idle"}
    BY <2>1
  <2> QED BY <2>1, <2>2, <2>3, <2>4 DEF LoopOK
<1>2. /\ phase = "idle" /\ calls = NoCalls
      /\ DOMAIN calls = Phases /\ \A p \in Phases : calls[p] = [i \in 1..Systems[p] |-> 0]
  BY DEF WatchedInit, Init, NoCalls
<1>3. CallsType
  BY <1>2 DEF CallsType, NoCalls
<1>4. CallsAgree
  BY <1>2, <1>3 DEF CallsAgree, Loop
<1> QED BY <1>1, <1>4

LEMMA EngineStep ==
  ASSUME LoopOK, CallsAgree, [WatchedNext]_watched
  PROVE  LoopOK' /\ CallsAgree'
<1>1. CASE UNCHANGED watched
  <2>1. UNCHANGED << phase, next, asked, stop, limit, ticks, calls >>
    BY <1>1 DEF watched, vars
  <2>2. LoopOK'
    BY <2>1 DEF LoopOK
  <2>3. \A n \in 0..4 : Counted(n)' <=> Counted(n)
    BY <2>1 DEF Counted
  <2>4. CallsType'
    BY <2>1 DEF CallsAgree, CallsType
  <2> QED BY <2>1, <2>2, <2>3, <2>4 DEF CallsAgree
<1>2. CASE WatchedNext
  BY <1>2, LoopStep, CallsStep DEF WatchedNext
<1> QED BY <1>1, <1>2

\* Whatever the systems answer, all of them are called in their turn: for any
\* number of systems in each phase, and in every later run() of the same engine.
THEOREM EverybodyIsCalled == WatchedSpec => []NobodyIsSkipped
<1>1. LoopOK /\ CallsAgree => NobodyIsSkipped
  <2> SUFFICES ASSUME LoopOK, CallsAgree, phase = "Shutdown" PROVE NobodyIsSkipped
    BY DEF NobodyIsSkipped
  <2>1. PICK n \in 0..4 : Counted(n) /\ (~stop => n = 0)
    BY DEF CallsAgree
  <2>2. ticks \in Nat /\ \A p \in Loop : Place[p] \in 1..4
    BY Places DEF LoopOK, Loop
  <2>3. \A p \in Loop : \A i \in 1..Systems[p] :
          calls[p][i] = ticks + (IF Place[p] <= n THEN 1 ELSE 0)
    <3>1. "Shutdown" \notin Loop
      BY DEF Loop
    <3> QED BY <2>1, <2>2, <3>1 DEF Counted
  <2>4. ASSUME NEW p \in Loop, NEW q \in Loop,
               NEW i \in 1..Systems[p], NEW j \in 1..Systems[q], Place[p] < Place[q]
        PROVE  calls[p][i] - calls[q][j] \in {0, 1}
    BY <2>2, <2>3, <2>4
  <2>5. \A p \in Loop : \A i, j \in 1..Systems[p] : calls[p][i] = calls[p][j]
    BY <2>3
  <2>6. ASSUME NEW p \in Loop, NEW i \in 1..Systems[p]
        PROVE  calls[p][i] - ticks \in IF stop THEN {0, 1} ELSE {0}
    BY <2>1, <2>2, <2>3
  <2>7. \A i \in 1..Systems["Startup"] : calls["Startup"][i] = 1
    BY DEF CallsAgree
  <2> QED BY <2>4, <2>5, <2>6, <2>7 DEF NobodyIsSkipped
<1> QED
  BY <1>1, EngineInit, EngineStep, PTL DEF WatchedSpec

\* The result of run() names one ending, the true one.
THEOREM OneEndingIsNamed == WatchedSpec => OneEnding
<1> DEFINE Honest ==
      phase = "Shutdown" /\ phase' = "idle" =>
        /\ result'.stopRequested # result'.reachedMaxTicks
        /\ result'.reachedMaxTicks => result'.ticksExecuted = limit
<1>1. LoopOK /\ [WatchedNext]_watched => [Honest]_watched
  <2> SUFFICES ASSUME LoopOK, WatchedNext, phase = "Shutdown", phase' = "idle"
               PROVE  /\ result'.stopRequested # result'.reachedMaxTicks
                      /\ result'.reachedMaxTicks => result'.ticksExecuted = limit
    OBVIOUS
  <2>1. UNCHANGED << stop, limit, ticks >>
    <3>1. PICK answer, now : answer \in BOOLEAN /\ EndPhase(answer, now)
      BY StepsOfARun DEF WatchedNext
    <3> QED BY <3>1, EndOfAPhase
  <2>2. /\ result'.ticksExecuted = ticks /\ result'.stopRequested = stop
        /\ result'.reachedMaxTicks = (~stop /\ ticks >= limit)
    BY <2>1 DEF WatchedNext, ReportResult, Result
  <2>3. stop \in BOOLEAN /\ ticks \in Nat /\ limit \in Nat /\ (~stop => ticks = limit)
    BY DEF LoopOK
  <2>4. CASE stop = TRUE
    <3>1. result'.stopRequested = TRUE /\ result'.reachedMaxTicks = FALSE
      BY <2>2, <2>4
    <3> QED BY <3>1
  <2>5. CASE stop = FALSE
    <3>1. ticks = limit /\ ticks >= limit
      BY <2>3, <2>5
    <3>2. /\ result'.stopRequested = FALSE /\ result'.reachedMaxTicks = TRUE
          /\ result'.ticksExecuted = limit
      BY <2>2, <2>5, <3>1
    <3> QED BY <3>2
  <2> QED BY <2>3, <2>4, <2>5
<1> QED
  BY <1>1, EngineInit, EngineStep, PTL DEF WatchedSpec, OneEnding

-----------------------------------------------------------------------------
(* The stop request between runs.                                          *)

\* A request that ended the last run, and that nobody cleared, is still there, and
\* the run in progress has executed no tick.
Standing ==
  /\ cleared \in BOOLEAN
  /\ result.stopRequested /\ ~cleared =>
       stop /\ phase \notin Loop /\ (phase # "idle" => ticks = 0)

LEMMA StandingStep ==
  ASSUME LoopOK, Standing, [WatchedNext]_watched
  PROVE  Standing'
<1>0. stop \in BOOLEAN /\ (phase = "Startup" => ticks = 0) /\ phase \in Phases \cup {"idle"}
  BY DEF LoopOK
<1>1. CASE UNCHANGED watched
  BY <1>1 DEF Standing, watched, vars
<1>2. CASE WatchedNext /\ phase = "idle"
  <2>1. CASE RequestStop \/ ClearStop
    <3>1. phase' = "idle" /\ stop' \in BOOLEAN /\ (stop' = FALSE \/ stop' = TRUE)
      BY <1>2, <2>1 DEF RequestStop, ClearStop, Owner
    <3>2. result' = result /\ cleared' = (cleared \/ ~stop')
      BY <1>2, <3>1 DEF WatchedNext, ReportResult, NoteClears
    <3>3. cleared' \in BOOLEAN /\ (~cleared' => ~cleared /\ stop')
      BY <3>1, <3>2 DEF Standing
    <3> QED BY <3>1, <3>2, <3>3 DEF Standing, Loop
  <2>2. CASE Run
    <3>1. phase' = "Startup" /\ ticks' = 0 /\ stop' = stop
      BY <2>2 DEF Run
    <3>2. result' = result /\ cleared' = cleared
      BY <1>2, <3>1 DEF WatchedNext, ReportResult, NoteClears
    <3> QED BY <3>1, <3>2 DEF Standing, Loop
  <2> QED BY <1>2, <2>1, <2>2 DEF WatchedNext, Next, RunSystem, EmptyPhase
<1>3. CASE WatchedNext /\ phase # "idle" /\ phase' # "idle"
  <2>1. result' = result /\ cleared' = cleared
    BY <1>3 DEF WatchedNext, ReportResult, NoteClears
  <2>2. SUFFICES ASSUME result.stopRequested, ~cleared
                 PROVE  stop' /\ phase' \notin Loop /\ ticks' = 0
    BY <1>3, <2>1 DEF Standing
  <2>3. stop = TRUE /\ phase \in {"Startup", "Shutdown"} /\ ticks = 0
    BY <1>0, <1>3, <2>2 DEF Standing, Phases, Loop
  <2>4. CASE UNCHANGED << phase, stop, limit, ticks >>
    BY <2>3, <2>4 DEF Loop
  <2>5. CASE \E answer \in BOOLEAN : \E now : EndPhase(answer, now)
    <3>1. PICK answer, now : answer \in BOOLEAN /\ EndPhase(answer, now)
      BY <2>5
    <3>2. stop' = TRUE
      BY <2>3, <3>1 DEF EndPhase, Stops
    <3>3. ticks' = 0 /\ phase' \in {"idle", "Shutdown"}
      BY <1>3, <2>3, <3>1, <3>2, EndOfAPhase
    <3> QED BY <3>2, <3>3 DEF Loop
  <2> QED BY <1>3, <2>4, <2>5, StepsOfARun DEF WatchedNext
<1>4. CASE WatchedNext /\ phase # "idle" /\ phase' = "idle"
  <2>1. phase = "Shutdown"
    <3>1. CASE UNCHANGED << phase, stop, limit, ticks >>
      BY <1>4, <3>1
    <3>2. CASE \E answer \in BOOLEAN : \E now : EndPhase(answer, now)
      <4>1. PICK answer, now : answer \in BOOLEAN /\ EndPhase(answer, now)
        BY <3>2
      <4>2. phase' = After(stop', ticks')
        BY <4>1 DEF EndPhase
      <4> QED BY <1>0, <1>4, <4>2 DEF After, LoopHead, Phases
    <3> QED BY <1>4, <3>1, <3>2, StepsOfARun DEF WatchedNext
  <2>2. cleared' = FALSE /\ result'.stopRequested = stop'
    BY <1>4, <2>1 DEF WatchedNext, ReportResult, NoteClears, Result
  <2> QED BY <1>4, <2>2 DEF Standing, Loop
<1> QED BY <1>1, <1>2, <1>3, <1>4

\* A stop request outlives the run it ended: run() after it executes no tick, for
\* any limit, until the owner clears the request.
THEOREM StopIsNotForgotten == WatchedSpec => StopOutlivesTheRun
<1> DEFINE Outlived ==
      phase = "Shutdown" /\ phase' = "idle" /\ result.stopRequested /\ ~cleared =>
        result'.stopRequested /\ result'.ticksExecuted = 0
<1>1. WatchedInit => Standing
  <2> SUFFICES ASSUME WatchedInit PROVE Standing
    OBVIOUS
  <2>1. cleared = FALSE /\ result.stopRequested = FALSE
    BY DEF WatchedInit, NoResult
  <2>2. ~result.stopRequested /\ cleared \in BOOLEAN
    BY <2>1
  <2> QED BY <2>2 DEF Standing
<1>2. LoopOK /\ Standing /\ [WatchedNext]_watched => [Outlived]_watched
  <2> SUFFICES ASSUME LoopOK, Standing, WatchedNext, phase = "Shutdown", phase' = "idle",
                      result.stopRequested, ~cleared
               PROVE  result'.stopRequested /\ result'.ticksExecuted = 0
    OBVIOUS
  <2>1. UNCHANGED << stop, ticks >>
    <3>1. PICK answer, now : answer \in BOOLEAN /\ EndPhase(answer, now)
      BY StepsOfARun DEF WatchedNext
    <3> QED BY <3>1, EndOfAPhase
  <2>2. result'.ticksExecuted = ticks /\ result'.stopRequested = stop
    BY <2>1 DEF WatchedNext, ReportResult, Result
  <2>3. stop /\ ticks = 0
    BY DEF Standing
  <2>4. result'.stopRequested
    BY <2>2, <2>3
  <2>5. result'.ticksExecuted = 0
    BY <2>2, <2>3
  <2> QED BY <2>4, <2>5
<1> QED
  BY <1>1, <1>2, EngineInit, EngineStep, StandingStep, PTL DEF WatchedSpec, StopOutlivesTheRun

=============================================================================
