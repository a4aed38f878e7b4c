------------------------------ MODULE Executor ------------------------------
(***************************************************************************)
(* What a Worker promises the threads that hand it functors, whatever the  *)
(* number of threads, batches and wakeups behind it (worker.h 54-63): the  *)
(* functors run one at a time, in the order in which they were accepted,   *)
(* each of them once.                                                      *)
(***************************************************************************)
EXTENDS Sequences

CONSTANTS Functors, None

VARIABLES
  queue,     \* the functors accepted and not yet started, oldest first
  running    \* the functor being run, or None

execVars == <<queue, running>>

Init ==
  /\ queue = <<>>
  /\ running = None

Submit(f) ==
  /\ queue' = Append(queue, f)
  /\ UNCHANGED running

Start ==
  /\ running = None
  /\ queue # <<>>
  /\ running' = Head(queue)
  /\ queue' = Tail(queue)

Finish ==
  /\ running # None
  /\ running' = None
  /\ UNCHANGED queue

Next ==
  \/ \E f \in Functors : Submit(f)
  \/ Start
  \/ Finish

Spec == Init /\ [][Next]_execVars

=============================================================================
