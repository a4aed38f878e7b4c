------------------------------- MODULE Thread -------------------------------
(***************************************************************************)
(* A Thread (src/base/Thread.cc): the flags that its owner's calls test    *)
(* and set, and where the pthread is that runs func_.  The operators give  *)
(* the Thread after a call.  An exception that leaves func_ ends the       *)
(* process, and so does a pthread_create that fails.                       *)
(***************************************************************************)

\* The constructor, 151-160.
NewThread == [started |-> FALSE, joined |-> FALSE, pthread |-> "none"]

\* start, 184-196: func_ may run before start() has returned.
start(t) == [t EXCEPT !.started = TRUE, !.pthread = "running"]

\* runInThread and startThread, 72-119: func_ has returned.
finish(t) == [t EXCEPT !.pthread = "finished"]

\* join, 198-204, returns when the pthread has ended.
join(t) == [t EXCEPT !.joined = TRUE]
Joinable(t) == t.pthread = "finished"

\* ~Thread, 176-182: a thread that was started and not joined is detached, and
\* runs on.
Detaches(t) == t.started /\ ~t.joined

=============================================================================
