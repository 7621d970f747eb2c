--------------------------- MODULE MutationQueue ---------------------------
(***************************************************************************)
(* MutationQueue, as an ActionContext owns one.                            *)
(*                                                                         *)
(* flush() moves the queue away and applies what it moved, each mutation   *)
(* its operation and then what follows the commit.  Either may enqueue,    *)
(* clear or flush again, so a flush is a frame of a stack.  Whatever       *)
(* throws leaves all of them: nothing catches between flush and its        *)
(* caller.  The serial numbers, `applied' and `dropped' are history.       *)
(***************************************************************************)
EXTENDS Naturals, Sequences

CONSTANTS
  Work,           \* what a mutation may do
  AfterCommits,   \* the work that has an AfterCommit
  MaxEnqueued,    \* bound on the mutations ever enqueued
  MaxDepth        \* bound on flushes within flushes

ASSUME QueueAssumption == AfterCommits \subseteq Work /\ MaxEnqueued \in Nat /\ MaxDepth \in Nat

VARIABLES
  queue,      \* _mutations
  frames,     \* the flushes running, the innermost last
  issued,     \* how many mutations were enqueued
  applied,    \* serial numbers of the operations that ran, in their order
  dropped     \* serial numbers given up by a throw or by clear

queueVars == << queue, frames, issued, applied, dropped >>

Mutation == [serial : 1 .. MaxEnqueued, work : Work]
Frame == [stage : {"operation", "afterCommit"}, rest : Seq(Mutation)]

QueueInit ==
  queue = << >> /\ frames = << >> /\ issued = 0 /\ applied = << >> /\ dropped = {}

Top == frames[Len(frames)]
Current == Head(Top.rest)
Outer == SubSeq(frames, 1, Len(frames) - 1)
Serials(mutations) == {mutations[i].serial : i \in DOMAIN mutations}

\* What a flush has left to apply: at afterCommit the first has been applied.
Left(frame) == IF frame.stage = "operation" THEN frame.rest ELSE Tail(frame.rest)

Enqueue(w) ==
  /\ issued < MaxEnqueued
  /\ queue' = Append(queue, [serial |-> issued + 1, work |-> w])
  /\ issued' = issued + 1
  /\ UNCHANGED << frames, applied, dropped >>

SlipFlushCopies ==
  /\ queue # << >> /\ Len(frames) < MaxDepth
  /\ frames' = Append(frames, [stage |-> "operation", rest |-> queue])
  /\ UNCHANGED << queue, issued, applied, dropped >>

Flush ==
  /\ queue # << >> /\ Len(frames) < MaxDepth
  /\ frames' = Append(frames, [stage |-> "operation", rest |-> queue])
  /\ queue' = << >>
  /\ UNCHANGED << issued, applied, dropped >>

Clear ==
  /\ queue # << >>
  /\ queue' = << >> /\ dropped' = dropped \cup Serials(queue)
  /\ UNCHANGED << frames, issued, applied >>

\* The stack when the first mutation of the innermost flush is done.
Popped ==
  IF Len(Top.rest) = 1 THEN Outer
  ELSE Append(Outer, [stage |-> "operation", rest |-> Tail(Top.rest)])

\* The operation returns.
Commit ==
  /\ frames # << >> /\ Top.stage = "operation"
  /\ applied' = Append(applied, Current.serial)
  /\ frames' = IF Current.work \in AfterCommits
                 THEN Append(Outer, [Top EXCEPT !.stage = "afterCommit"])
                 ELSE Popped
  /\ UNCHANGED << queue, issued, dropped >>

SlipFollowClears ==
  /\ frames # << >> /\ Top.stage = "afterCommit"
  /\ frames' = Popped
  /\ queue' = IF Popped = << >> THEN << >> ELSE queue
  /\ UNCHANGED << issued, applied, dropped >>

\* The AfterCommit returns.
Follow ==
  /\ frames # << >> /\ Top.stage = "afterCommit"
  /\ frames' = Popped
  /\ UNCHANGED << queue, issued, applied, dropped >>

Throw ==
  /\ frames # << >>
  /\ frames' = << >>
  /\ dropped' = dropped \cup UNION {Serials(Left(frames[i])) : i \in DOMAIN frames}
  /\ UNCHANGED << queue, issued, applied >>

=============================================================================
